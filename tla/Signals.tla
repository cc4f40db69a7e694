------------------------------ MODULE Signals ------------------------------
(***************************************************************************)
(* The programs of gy2: a parent with a handler, and the child it forks,   *)
(* which sends it signals.  They differ in the signals sent, in the calls  *)
(* the parent waits in, and in its mask; `exercise` says which one runs.   *)
(* Only sleeps keep the child behind its parent.                           *)
(***************************************************************************)
EXTENDS Integers, Sequences, SequencesExt

CONSTANTS
  Rounds,   \* 5 in sigaction_multiple.c
  MaxStops  \* bound on forks and timers that fail

VARIABLES
  exercise,
  parent, child,  \* do they run?
  pc, inside,     \* the call the parent comes to, and is it inside?
  said,           \* how many signals the child has sent
  pending,        \* the signals pending for the parent, oldest first
  handled,        \* those its handler ran for, and did it wake the parent?
  timer,          \* is the timer set?
  stops

vars ==
  <<exercise, parent, child, pc, inside, said, pending, handled, timer, stops>>

Demo ==
  {"signal", "sigaction", "sigaction_multiple", "sigprocmask",
   "sigaction_value"}

\* What the parent does once its handler is installed.
Calls ==
  [signal             |-> <<"fork", "pause", "wait">>,
   sigaction          |-> <<"fork", "sigsuspend", "wait">>,
   sigaction_multiple |-> <<"fork", "wait">>,
   sigprocmask        |-> <<"fork", "pause", "unblock", "wait">>,
   sigaction_value    |-> <<"pause", "fork", "pause", "pause", "wait">>]

\* What the child sends; in sigaction_value.c the signal is SIGTERM and what
\* the handler tells apart is where it comes from.
Says ==
  [signal             |-> <<"SIGTERM">>,
   sigaction          |-> <<"SIGUSR1", "SIGTERM">>,
   sigaction_multiple |->
     [i \in 1..2 * Rounds |-> IF i % 2 = 1 THEN "SIGUSR1" ELSE "SIGRTMIN"],
   sigprocmask        |-> <<"SIGTERM", "SIGUSR1">>,
   sigaction_value    |-> <<"kill", "sigqueue">>]

Number(s) == IF s \in {"timer", "kill", "sigqueue"} THEN "SIGTERM" ELSE s

Signal == {"SIGTERM", "SIGUSR1", "SIGRTMIN", "timer", "kill", "sigqueue"}

TypeOK ==
  /\ parent \in {"off", "run", "done", "failed"}
  /\ child \in {"none", "send", "end"}
  /\ pc \in 0..Len(Calls[exercise]) + 1
  /\ {inside, timer} \subseteq BOOLEAN
  /\ said \in 0..Len(Says[exercise])
  /\ pending \in Seq(Signal)
  /\ handled \in Seq(Signal \X BOOLEAN)
  /\ stops \in 0..MaxStops

Init ==
  /\ parent = "off" /\ child = "none"
  /\ pc = 0 /\ inside = FALSE
  /\ said = 0 /\ pending = <<>> /\ handled = <<>>
  /\ timer = FALSE
  /\ stops = 0

-----------------------------------------------------------------------------
Call == IF parent = "run" THEN Calls[exercise][pc] ELSE "none"

Blocked ==
  CASE Call = "sigsuspend" /\ inside -> {"SIGUSR1", "SIGRTMIN"}
    [] exercise = "sigprocmask" /\ pc <= 3 -> {"SIGTERM"}
    [] OTHER -> {}

Deliverable(i) == Number(pending[i]) \notin Blocked
Disturbed == \E i \in DOMAIN pending : Deliverable(i)

\* A standard signal is pending once, a real-time one as often as it is sent.
Posted(s) ==
  IF s # "SIGRTMIN" /\ \E i \in DOMAIN pending : Number(pending[i]) = Number(s)
  THEN pending
  ELSE Append(pending, s)

-----------------------------------------------------------------------------
(***************************************************************************)
(* The parent.  What is deliverable is delivered before it goes on; it     *)
(* makes no difference to it whether that is just before a call or inside. *)
(***************************************************************************)
Start ==
  /\ parent = "off"
  /\ parent' = "run" /\ pc' = 1
  /\ timer' = (exercise = "sigaction_value")
  /\ UNCHANGED <<exercise, child, inside, said, pending, handled, stops>>

Fork ==
  /\ Call = "fork" /\ ~Disturbed
  /\ pc' = pc + 1
  /\ child' = "send"
  /\ UNCHANGED <<exercise, parent, inside, said, pending, handled, timer, stops>>

Enter ==
  /\ Call \in {"pause", "sigsuspend", "wait"} /\ ~inside /\ ~Disturbed
  /\ inside' = TRUE
  /\ UNCHANGED <<exercise, parent, child, pc, said, pending, handled, timer, stops>>

Unblock ==
  /\ Call = "unblock" /\ ~Disturbed
  /\ pc' = pc + 1
  /\ UNCHANGED <<exercise, parent, child, inside, said, pending, handled, timer, stops>>

\* The wait for the child returns, and the parent with it.
Wait ==
  /\ Call = "wait" /\ inside /\ ~Disturbed
  /\ child = "end"
  /\ parent' = "done" /\ inside' = FALSE
  /\ UNCHANGED <<exercise, child, pc, said, pending, handled, timer, stops>>

Parent == Start \/ Fork \/ Enter \/ Unblock \/ Wait

\* The child's signals; nobody gets them when the parent has gone.
Send ==
  /\ child = "send"
  /\ said' = said + 1
  /\ child' = IF said' = Len(Says[exercise]) THEN "end" ELSE "send"
  /\ pending' = IF parent = "run" THEN Posted(Says[exercise][said']) ELSE pending
  /\ UNCHANGED <<exercise, parent, pc, inside, handled, timer, stops>>

Child == Send

-----------------------------------------------------------------------------
(***************************************************************************)
(* The kernel.                                                             *)
(***************************************************************************)
\* Deviation: sigaction_multiple.c with the flags of sigaction.c.
NoRestart == FALSE

\* SA_RESTART, without which a handler makes wait fail.
Restarts == exercise = "sigaction_multiple"

\* A signal runs the handler, real-time ones in the order in which they were
\* sent.  A pause ends with that, a wait without SA_RESTART fails.  The
\* handler deletes the timer that made it run.
Handler(i) ==
  LET ends   == inside /\ (Call # "wait" \/ ~Restarts)
      return == ends /\ Call = "wait"
  IN
  /\ parent = "run" /\ Deliverable(i)
  /\ \A j \in 1..i - 1 : pending[j] # pending[i]
  /\ pending' = RemoveAt(pending, i)
  /\ handled' = Append(handled, <<pending[i], ends>>)
  /\ inside' = (inside /\ ~ends)
  /\ pc' = IF ends THEN pc + 1 ELSE pc
  /\ parent' = IF return THEN "done" ELSE "run"
  /\ timer' = (timer /\ pending[i] # "timer")
  /\ UNCHANGED <<exercise, child, said, stops>>

\* While the first SIGTERM is pending the timer adds no other.
Tick ==
  /\ timer /\ pending = <<>>
  /\ pending' = Posted("timer")
  /\ UNCHANGED <<exercise, parent, child, pc, inside, said, handled, timer, stops>>

Deliver == (\E i \in DOMAIN pending : Handler(i)) \/ Tick

\* fork returned -1: the only process takes itself for the child, signals the
\* process that started it, and ends.
ForkFails ==
  /\ Call = "fork" /\ ~Disturbed /\ stops < MaxStops
  /\ parent' = "failed"
  /\ stops' = stops + 1
  /\ UNCHANGED <<exercise, child, pc, inside, said, pending, handled, timer>>

\* timer_create or timer_settime.
TimerFails ==
  /\ exercise = "sigaction_value" /\ parent = "off" /\ stops < MaxStops
  /\ parent' = "failed"
  /\ stops' = stops + 1
  /\ UNCHANGED <<exercise, child, pc, inside, said, pending, handled, timer>>

Stop == ForkFails \/ TimerFails

Next == Parent \/ Child \/ Deliver \/ Stop

Spec == Init /\ exercise \in Demo /\ [][Next]_vars

-----------------------------------------------------------------------------
(***************************************************************************)
(* HandledAsSaid: a parent that comes to its end does so after its child,  *)
(* and has handled what the texts of the programs promise: the signal that *)
(* ends a pause; the one that is blocked after the one that is not; every  *)
(* real-time signal, and a standard one at least once; SIGTERM first from  *)
(* the timer, then by kill, then by sigqueue.                              *)
(***************************************************************************)
Handled == [i \in DOMAIN handled |-> handled[i][1]]
Times(s) == Cardinality({i \in DOMAIN handled : handled[i][1] = s})
HandledAsSaid ==
  parent = "done" =>
    /\ child = "end" /\ pending = <<>>
    /\ exercise = "signal" => Handled = <<"SIGTERM">>
    /\ exercise = "sigaction" =>
         Handled \in {<<"SIGUSR1", "SIGTERM">>, <<"SIGTERM", "SIGUSR1">>}
    /\ exercise = "sigprocmask" => Handled = <<"SIGUSR1", "SIGTERM">>
    /\ exercise = "sigaction_value" => Handled = <<"timer", "kill", "sigqueue">>
    /\ exercise = "sigaction_multiple" =>
         Times("SIGRTMIN") = Rounds /\ Times("SIGUSR1") \in 1..Rounds

(***************************************************************************)
(* What makes a parent sleep for ever: the signal that was to wake it came *)
(* before its pause, or two of sigaction_value.c were merged.              *)
(***************************************************************************)
Overslept ==
  /\ inside /\ Call # "wait" /\ child # "send" /\ ~timer /\ ~Disturbed
  /\ \/ \E i \in DOMAIN handled :
          ~handled[i][2] /\ Number(handled[i][1]) \notin Blocked
     \/ exercise = "sigaction_value" /\ child = "end" /\ Len(handled) < 3
=============================================================================
