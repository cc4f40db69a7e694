------------------------------ MODULE ExamGame ------------------------------
(***************************************************************************)
(* exam_a/src/a.c (exam_a_2 is a copy): a game leader, two forked players. *)
(*                                                                         *)
(* Each player tells the leader with a SIGUSR1 that it is there; after two *)
(* pauses the leader tells both, with the same signal, to begin.  A player *)
(* draws a name, writes it into its own pipe and pauses again, until the   *)
(* leader has read the name and sends the signal a second time.  One       *)
(* signal thus means three things, and it wakes its receiver only in       *)
(* pause(); a SIGUSR1 sent while one is pending is merged with it.         *)
(***************************************************************************)
EXTENDS Integers, Sequences

CONSTANTS
  NameCount,  \* the length of names, 5 in the code
  Faults,     \* may pipe and fork fail?
  MayCrash    \* may a player die of what it reads behind names?

ASSUME ExamAssumption ==
  /\ NameCount \in Nat \ {0}
  /\ Faults \in BOOLEAN
  /\ MayCrash \in BOOLEAN

Player == 1..2

VARIABLES
  lpc,     \* where the leader is
  turn,    \* how many players it has dealt with there
  lsig,    \* is a SIGUSR1 pending for the leader?
  lost,    \* ghost: SIGUSR1 for the leader that woke nobody
  ppc,     \* where each player is
  psig,    \* is a SIGUSR1 pending for the player?
  missed,  \* ghost: the players a SIGUSR1 reached outside pause()
  pipe,    \* p_a and p_b
  heard    \* the name the leader printed for each player

leader  == <<lpc, turn, heard>>
signals == <<lsig, lost, psig, missed>>
vars == <<leader, ppc, pipe, signals>>

LeaderPC ==
  {"fork", "gather", "paused", "tell", "read", "wake", "leave", "end", "failed"}
PlayerPC ==
  {"none", "start", "called", "paused", "draw", "told", "paused2", "done",
   "gone", "crashed"}
Dead == {"gone", "crashed"}

\* A name is its index; rand() % 5 + 1 never yields names[0].
Name   == 0..NameCount - 1
Drawn  == {r + 1 : r \in Name}
NoName == -1

TypeOK ==
  /\ lpc \in LeaderPC
  /\ turn \in 0..1
  /\ lsig \in BOOLEAN /\ lost \in Nat
  /\ ppc \in [Player -> PlayerPC]
  /\ psig \in [Player -> BOOLEAN]
  /\ missed \subseteq Player
  /\ pipe \in [Player -> Seq(Drawn)]
  /\ heard \in [Player -> Drawn \cup {NoName}]

Init ==
  /\ lpc = "fork" /\ turn = 0
  /\ lsig = FALSE /\ lost = 0
  /\ ppc = [p \in Player |-> "none"]
  /\ psig = [p \in Player |-> FALSE]
  /\ missed = {}
  /\ pipe = [p \in Player |-> <<>>]
  /\ heard = [p \in Player |-> NoName]

-----------------------------------------------------------------------------
(***************************************************************************)
(* The leader.  It does everything first for player 1, then for player 2.  *)
(***************************************************************************)
\* Deviation: one turn too many.
ProceedTooFar(again, next) ==
  \/ turn <= 1 /\ turn' = turn + 1 /\ lpc' = again
  \/ turn > 1 /\ turn' = 0 /\ lpc' = next

Proceed(again, next) ==
  \/ turn = 0 /\ turn' = 1 /\ lpc' = again
  \/ turn = 1 /\ turn' = 0 /\ lpc' = next

Fork ==
  /\ lpc = "fork"
  /\ ppc' = [ppc EXCEPT ![turn + 1] = "start"]
  /\ Proceed("fork", "gather")
  /\ UNCHANGED <<heard, pipe, signals>>

\* pipe or fork returned -1: exit, with or without player 1.
ForkFails ==
  /\ Faults /\ lpc = "fork"
  /\ lpc' = "failed"
  /\ UNCHANGED <<turn, heard, ppc, pipe, signals>>

PauseForPlayer ==
  /\ lpc = "gather"
  /\ lpc' = "paused"
  /\ UNCHANGED <<turn, heard, ppc, pipe, signals>>

\* Deviation: game_logic pauses only once.
LeaderHandlerOnce ==
  /\ lsig /\ lsig' = FALSE
  /\ \/ /\ lpc = "paused"
        /\ lpc' = "tell" /\ turn' = 0
        /\ lost' = lost
     \/ /\ lpc \notin {"paused", "end", "failed"}
        /\ lost' = lost + 1
        /\ UNCHANGED <<lpc, turn>>
  /\ UNCHANGED <<heard, ppc, pipe, psig, missed>>

LeaderHandler ==
  /\ lsig /\ lsig' = FALSE
  /\ \/ /\ lpc = "paused"
        /\ Proceed("gather", "tell")
        /\ lost' = lost
     \/ /\ lpc \notin {"paused", "end", "failed"}
        /\ lost' = lost + 1
        /\ UNCHANGED <<lpc, turn>>
  /\ UNCHANGED <<heard, ppc, pipe, psig, missed>>

\* kill(pid_a or pid_b, SIGUSR1)
Signal(p) ==
  /\ psig' = [psig EXCEPT ![p] = TRUE]
  /\ UNCHANGED <<lsig, lost, missed>>

\* Deviation: pid_a in both calls.
BeginFirst ==
  /\ lpc = "tell"
  /\ Signal(1)
  /\ Proceed("tell", "read")
  /\ UNCHANGED <<heard, ppc, pipe>>

Begin ==
  /\ lpc = "tell"
  /\ Signal(turn + 1)
  /\ Proceed("tell", "read")
  /\ UNCHANGED <<heard, ppc, pipe>>

\* Deviation: the leader does not wait for the name.
ReadNameNoWait ==
  /\ lpc = "read"
  /\ LET p == turn + 1
     IN  IF pipe[p] = <<>> THEN UNCHANGED <<heard, pipe>>
         ELSE /\ heard' = [heard EXCEPT ![p] = Head(pipe[p])]
              /\ pipe' = [pipe EXCEPT ![p] = Tail(pipe[p])]
  /\ lpc' = "wake"
  /\ UNCHANGED <<turn, ppc, signals>>

\* read blocks on an empty pipe; the leader holds its write end itself.
ReadName ==
  /\ lpc = "read"
  /\ LET p == turn + 1
     IN  /\ pipe[p] # <<>>
         /\ heard' = [heard EXCEPT ![p] = Head(pipe[p])]
         /\ pipe' = [pipe EXCEPT ![p] = Tail(pipe[p])]
  /\ lpc' = "wake"
  /\ UNCHANGED <<turn, ppc, signals>>

\* Deviation: pid_a in both calls.
UnpauseFirst ==
  /\ lpc = "wake"
  /\ Signal(1)
  /\ Proceed("read", "leave")
  /\ UNCHANGED <<heard, ppc, pipe>>

Unpause ==
  /\ lpc = "wake"
  /\ Signal(turn + 1)
  /\ Proceed("read", "leave")
  /\ UNCHANGED <<heard, ppc, pipe>>

\* wait(NULL) twice
WaitPlayers ==
  /\ lpc = "leave"
  /\ \A p \in Player : ppc[p] \in Dead
  /\ lpc' = "end"
  /\ UNCHANGED <<turn, heard, ppc, pipe, signals>>

-----------------------------------------------------------------------------
(***************************************************************************)
(* A player.                                                               *)
(***************************************************************************)
Goes(p, from, to) == ppc[p] = from /\ ppc' = [ppc EXCEPT ![p] = to]

\* kill(getppid(), SIGUSR1), to nobody of interest if the leader is gone.
Call(p) ==
  /\ Goes(p, "start", "called")
  /\ \/ lpc = "failed" /\ UNCHANGED <<lsig, lost>>
     \/ /\ lpc # "failed"
        /\ lsig' = TRUE
        /\ lost' = IF lsig THEN lost + 1 ELSE lost
  /\ UNCHANGED <<leader, pipe, psig, missed>>

Pause(p) ==
  /\ Goes(p, "called", "paused") \/ Goes(p, "told", "paused2")
  /\ UNCHANGED <<leader, pipe, signals>>

PlayerHandler(p) ==
  /\ psig[p] /\ psig' = [psig EXCEPT ![p] = FALSE]
  /\ \/ Goes(p, "paused", "draw") /\ missed' = missed
     \/ Goes(p, "paused2", "done") /\ missed' = missed
     \/ /\ ppc[p] \notin {"paused", "paused2"} \cup Dead
        /\ missed' = missed \cup {p}
        /\ UNCHANGED ppc
  /\ UNCHANGED <<leader, pipe, lsig, lost>>

\* Deviation: the two pipes exchanged.
IntroduceOther(p) ==
  /\ Goes(p, "draw", "told")
  /\ \E n \in Drawn : pipe' = [pipe EXCEPT ![3 - p] = Append(pipe[3 - p], n)]
  /\ UNCHANGED <<leader, signals>>

(***************************************************************************)
(* A name is drawn, copied and written.  names[5] is memory behind the     *)
(* array: some text (the index 5 stands for it), or no text and a crash.   *)
(***************************************************************************)
Introduce(p) ==
  /\ Goes(p, "draw", "told")
  /\ \E n \in Drawn : pipe' = [pipe EXCEPT ![p] = Append(pipe[p], n)]
  /\ UNCHANGED <<leader, signals>>

Crash(p) ==
  /\ MayCrash /\ ~(Drawn \subseteq Name)
  /\ Goes(p, "draw", "crashed")
  /\ UNCHANGED <<leader, pipe, signals>>

Leave(p) ==
  /\ Goes(p, "done", "gone")
  /\ UNCHANGED <<leader, pipe, signals>>

-----------------------------------------------------------------------------
LeaderStep ==
  Fork \/ PauseForPlayer \/ Begin \/ ReadName \/ Unpause \/ WaitPlayers

PlayerStep(p) == Call(p) \/ Pause(p) \/ Introduce(p) \/ Crash(p) \/ Leave(p)

Next ==
  \/ LeaderStep \/ ForkFails \/ LeaderHandler
  \/ \E p \in Player : PlayerStep(p) \/ PlayerHandler(p)

Spec == Init /\ [][Next]_vars

\* Every process that can run does so, and every pending signal is delivered.
FairSpec ==
  /\ Spec
  /\ WF_vars(LeaderStep) /\ WF_vars(LeaderHandler)
  /\ \A p \in Player : WF_vars(PlayerStep(p)) /\ WF_vars(PlayerHandler(p))
-----------------------------------------------------------------------------
(***************************************************************************)
(* GameInv: which of its three meanings a SIGUSR1 has is settled by where  *)
(* everybody is.  Inductive.                                               *)
(***************************************************************************)
\* What the leader has done for player p, and what the players sent it.
Forked(p) == lpc \in {"fork", "failed"} => turn >= p
Begun(p)  == \/ lpc = "tell" /\ turn >= p
             \/ lpc \in {"read", "wake", "leave", "end"}
Read(p)   == \/ lpc = "read" /\ turn >= p
             \/ lpc = "wake" /\ turn + 1 >= p
             \/ lpc \in {"leave", "end"}
Woken(p)  == \/ lpc \in {"read", "wake"} /\ turn >= p
             \/ lpc \in {"leave", "end"}

Called(p) == IF ppc[p] \in {"none", "start"} THEN 0 ELSE 1
PausesEnded ==
  IF lpc = "fork" THEN 0 ELSE IF lpc \in {"gather", "paused"} THEN turn ELSE 2

\* Every SIGUSR1 for the leader ended a pause, is pending or was lost.
CallBalance ==
  lpc # "failed" =>
    Called(1) + Called(2) = PausesEnded + lost + (IF lsig THEN 1 ELSE 0)

\* A signal for a player not yet taken is pending or was missed.
Outstanding(p, sent) ==
  /\ psig[p] => sent
  /\ p \in missed <=> sent /\ ~psig[p]

PlayerInv(p) ==
  /\ ppc[p] = "none" <=> ~Forked(p)
  /\ heard[p] # NoName <=> Read(p)
  /\ ppc[p] \in {"none", "start", "called", "paused", "draw", "crashed"} =>
       pipe[p] = <<>> /\ ~Read(p)
  /\ ppc[p] \in {"none", "start", "draw", "crashed", "done", "gone"} =>
       ~psig[p] /\ p \notin missed
  /\ ppc[p] \in {"none", "start"} => ~Begun(p)
  /\ ppc[p] \in {"called", "paused"} => Outstanding(p, Begun(p))
  /\ ppc[p] \in {"draw", "crashed"} => Begun(p)
  /\ ppc[p] \in {"told", "paused2"} =>
       /\ Begun(p) /\ Outstanding(p, Woken(p))
       /\ IF Read(p) THEN pipe[p] = <<>> ELSE Len(pipe[p]) = 1
  /\ ppc[p] \in {"done", "gone"} => Woken(p) /\ pipe[p] = <<>>
  /\ ppc[p] = "crashed" => MayCrash

GameInv == CallBalance /\ \A p \in Player : PlayerInv(p)

(***************************************************************************)
(* StallsOnlyByLoss: leader and players never all wait for each other      *)
(* unless a SIGUSR1 came to a process that was not yet in pause(), or was  *)
(* merged with another, or a player crashed.                               *)
(***************************************************************************)
LeaderWaits ==
  \/ lpc = "paused" /\ ~lsig
  \/ lpc = "read" /\ pipe[turn + 1] = <<>>
  \/ lpc = "leave" /\ \E p \in Player : ppc[p] \notin Dead
PlayerWaits(p) ==
  \/ ppc[p] \in {"none"} \cup Dead
  \/ ppc[p] \in {"paused", "paused2"} /\ ~psig[p]

Trouble ==
  lost > 0 \/ missed # {} \/ \E p \in Player : ppc[p] = "crashed"

StallsOnlyByLoss ==
  LeaderWaits /\ (\A p \in Player : PlayerWaits(p)) => Trouble

(***************************************************************************)
(* ToldApart: a player takes the first SIGUSR1 as the word to begin and    *)
(* the second as the leave to go; it never goes before the leader has      *)
(* printed its name, and begins only when both players have called.        *)
(***************************************************************************)
ToldApart ==
  \A p \in Player :
    /\ ppc[p] \in {"done", "gone"} => heard[p] # NoName
    /\ ppc[p] \in {"draw", "told", "paused2", "crashed"} =>
         \A q \in Player : ppc[q] \notin {"none", "start"}

(***************************************************************************)
(* Implements: the game is the introduction that the readme describes,     *)
(* with the names the code can draw.  A name is said from when it is in    *)
(* its player's pipe.                                                      *)
(***************************************************************************)
place ==
  [p \in Player |-> IF ppc[p] \in {"none", "start"} THEN "off"
                    ELSE IF ppc[p] = "gone" THEN "left" ELSE "on"]
said == [p \in Player |-> IF pipe[p] = <<>> THEN heard[p] ELSE Head(pipe[p])]

Intro == INSTANCE Introduction WITH Name <- Drawn
Implements == Intro!Spec

(***************************************************************************)
(* GameEnds: the leader sees the game to its end, unless a signal was lost *)
(* or a player crashed.  If fork fails, the player there may be is left    *)
(* behind in its first pause().                                            *)
(***************************************************************************)
LeftBehind ==
  lpc = "failed" /\ \A p \in Player : ppc[p] \in {"none", "paused"}
GameEnds == <>(lpc = "end" \/ LeftBehind \/ Trouble)

-----------------------------------------------------------------------------
(***************************************************************************)
(* NamesAreGiven: exam_a/readme.md says the players' names are drawn from  *)
(* five given ones.                                                        *)
(***************************************************************************)
NamesAreGiven == \A p \in Player : heard[p] \in Name \cup {NoName}
=============================================================================
