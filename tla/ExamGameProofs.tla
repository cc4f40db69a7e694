--------------------------- MODULE ExamGameProofs ---------------------------
(***************************************************************************)
(* ExamGame for any number of names, with and without failures: the three  *)
(* meanings of SIGUSR1 never get mixed up, only a lost one can stop the    *)
(* game, and the game implements Introduction.                             *)
(***************************************************************************)
EXTENDS ExamGame, SequenceTheorems, TLAPS

USE ExamAssumption

LEMMA TypeInit == Init => TypeOK
<1> SUFFICES ASSUME Init PROVE TypeOK
  OBVIOUS
<1>1. pipe \in [Player -> Seq(Drawn)] /\ heard \in [Player -> Drawn \cup {NoName}]
  BY DEF Init
<1>2. psig \in [Player -> BOOLEAN] /\ lsig \in BOOLEAN
  BY DEF Init
<1>3. lpc \in LeaderPC /\ turn \in 0..1 /\ lost \in Nat /\ missed \subseteq Player
  BY DEF Init, LeaderPC
<1>4. ppc \in [Player -> PlayerPC]
  BY DEF Init, PlayerPC
<1> QED BY <1>1, <1>2, <1>3, <1>4 DEF TypeOK

LEMMA TypeStep ==
  ASSUME TypeOK, [Next]_vars
  PROVE  TypeOK'
<1> USE DEF TypeOK, LeaderPC, PlayerPC, Player
<1>1. CASE Fork
  BY <1>1 DEF Fork, Proceed, leader, signals
<1>2. CASE ForkFails
  BY <1>2 DEF ForkFails, leader, signals
<1>3. CASE PauseForPlayer
  BY <1>3 DEF PauseForPlayer, leader, signals
<1>4. CASE LeaderHandler
  <2>1. lsig' \in BOOLEAN
    BY <1>4 DEF LeaderHandler
  <2>2. lost' \in Nat
    BY <1>4 DEF LeaderHandler
  <2>3. lpc' \in LeaderPC /\ turn' \in 0..1
    BY <1>4 DEF LeaderHandler, Proceed
  <2> QED BY <1>4, <2>1, <2>2, <2>3 DEF LeaderHandler
<1>5. CASE Begin
  BY <1>5 DEF Begin, Proceed, Signal, leader, signals
<1>6. CASE ReadName
  BY <1>6 DEF ReadName, leader, signals
<1>7. CASE Unpause
  BY <1>7 DEF Unpause, Proceed, Signal, leader, signals
<1>8. CASE WaitPlayers
  BY <1>8 DEF WaitPlayers, leader, signals
<1>9. ASSUME NEW p \in Player, Call(p) PROVE TypeOK'
  <2>1. lsig' \in BOOLEAN
    BY <1>9 DEF Call
  <2>2. lost' \in Nat
    BY <1>9 DEF Call
  <2> QED BY <1>9, <2>1, <2>2 DEF Call, Goes, leader
<1>10. ASSUME NEW p \in Player, Pause(p) PROVE TypeOK'
  BY <1>10 DEF Pause, Goes, leader, signals
<1>11. ASSUME NEW p \in Player, Introduce(p) PROVE TypeOK'
  BY <1>11 DEF Introduce, Goes, leader, signals
<1>12. ASSUME NEW p \in Player, Crash(p) PROVE TypeOK'
  BY <1>12 DEF Crash, Goes, leader, signals
<1>13. ASSUME NEW p \in Player, Leave(p) PROVE TypeOK'
  BY <1>13 DEF Leave, Goes, leader, signals
<1>14. ASSUME NEW p \in Player, PlayerHandler(p) PROVE TypeOK'
  BY <1>14 DEF PlayerHandler, Goes, leader, signals
<1>15. CASE UNCHANGED vars
  BY <1>15 DEF vars, leader, signals
<1> QED
  BY <1>1, <1>2, <1>3, <1>4, <1>5, <1>6, <1>7, <1>8, <1>9, <1>10, <1>11, <1>12, <1>13, <1>14, <1>15 DEF Next, LeaderStep, PlayerStep

(***************************************************************************)
(* The types of ExamGame's variables hold for every length of names.       *)
(***************************************************************************)
THEOREM TypeCorrect == Spec => []TypeOK
<1>1. Init => TypeOK
  BY TypeInit
<1>2. TypeOK /\ [Next]_vars => TypeOK'
  BY TypeStep
<1> QED BY <1>1, <1>2, PTL DEF Spec

-----------------------------------------------------------------------------
LEMMA GameInit == Init => GameInv
BY DEF Init, GameInv, CallBalance, PlayerInv, Forked, Begun, Read, Called,
       PausesEnded, Player, NoName

LEMMA Turns ==
  ASSUME turn \in 0..1, NEW p \in Player
  PROVE  /\ p = turn + 1 => (turn = 0 /\ p = 1) \/ (turn = 1 /\ p = 2)
         /\ p # turn + 1 => (turn = 0 /\ p = 2) \/ (turn = 1 /\ p = 1)
BY DEF Player

LEMMA NamesAreNames == NoName \notin Drawn
BY DEF NoName, Drawn, Name

LEMMA CalledType ==
  ASSUME TypeOK
  PROVE  Called(1) \in 0..1 /\ Called(2) \in 0..1
BY DEF Called

\* Two pauses ended by SIGUSR1 prove that both players have called.
LEMMA AllCalled ==
  ASSUME TypeOK, CallBalance, lpc \notin {"fork", "gather", "paused", "failed"}
  PROVE  /\ \A p \in Player : ppc[p] \notin {"none", "start"}
         /\ lost = 0 /\ ~lsig
<1>1. Called(1) + Called(2) = 2 + lost + (IF lsig THEN 1 ELSE 0)
  BY DEF CallBalance, PausesEnded
<1>2. lost \in Nat
  BY DEF TypeOK
<1>3. Called(1) = 1 /\ Called(2) = 1 /\ lost = 0 /\ ~lsig
  BY <1>1, <1>2, CalledType
<1> QED BY <1>3 DEF Called, Player

LEMMA GameStep ==
  ASSUME TypeOK, GameInv, [Next]_vars
  PROVE  GameInv'
<1>1. TypeOK'
  BY TypeStep
<1> USE <1>1 DEF TypeOK, LeaderPC, PlayerPC, Player, GameInv
<1>2. CASE Fork
  <2> USE <1>2 DEF Fork, Proceed, leader, signals
  <2>0. ppc[turn + 1] = "none" /\ ppc'[turn + 1] = "start"
    BY DEF PlayerInv, Forked
  <2>1. CallBalance'
    <3>1. PausesEnded = 0 /\ PausesEnded' = 0
      BY DEF PausesEnded
    <3>2. Called(1)' = Called(1) /\ Called(2)' = Called(2)
      BY <2>0 DEF Called
    <3> QED BY <3>1, <3>2 DEF CallBalance
  <2>2. ASSUME NEW p \in Player PROVE PlayerInv(p)'
    <3>1. /\ PlayerInv(p)
          /\ ~Begun(p)' /\ ~Read(p) /\ ~Read(p)'
          /\ heard' = heard /\ pipe' = pipe /\ psig' = psig /\ missed' = missed
      BY <2>2 DEF Begun, Read
    <3>2. CASE p = turn + 1
      <4>1. Forked(p)'
        BY <3>2 DEF Forked
      <4> QED BY <2>0, <3>1, <3>2, <4>1 DEF PlayerInv
    <3>3. CASE p # turn + 1
      <4>1. ppc'[p] = ppc[p] /\ (Forked(p)' <=> Forked(p))
        BY <2>2, <3>3 DEF Forked
      <4>2. ~Begun(p) /\ ~Woken(p) /\ ~Woken(p)'
        BY DEF Begun, Woken
      <4> QED BY <3>1, <4>1, <4>2 DEF PlayerInv, Outstanding
    <3> QED BY <3>2, <3>3
  <2> QED BY <2>1, <2>2
<1>3. CASE ForkFails
  <2> USE <1>3 DEF ForkFails, leader, signals
  <2>1. CallBalance'
    BY DEF CallBalance, Called, PausesEnded, PlayerInv, Forked
  <2>2. ASSUME NEW p \in Player PROVE PlayerInv(p)'
    BY <2>2 DEF PlayerInv, Forked, Begun, Read, Woken, Outstanding
  <2> QED BY <2>1, <2>2
<1>4. CASE PauseForPlayer
  <2> USE <1>4 DEF PauseForPlayer, leader, signals
  <2>1. CallBalance'
    BY DEF CallBalance, Called, PausesEnded, PlayerInv, Forked
  <2>2. ASSUME NEW p \in Player PROVE PlayerInv(p)'
    BY <2>2 DEF PlayerInv, Forked, Begun, Read, Woken, Outstanding
  <2> QED BY <2>1, <2>2
<1>5. CASE LeaderHandler
  <2>0. /\ lsig /\ lsig' = FALSE /\ lpc # "failed"
        /\ UNCHANGED <<heard, ppc, pipe, psig, missed>>
    BY <1>5 DEF LeaderHandler
  <2>1. CASE lpc = "paused" /\ turn = 0 /\ turn' = 1 /\ lpc' = "gather" /\ lost' = lost
    <3>1. PausesEnded' = 1 /\ PausesEnded = 0
      BY <2>1 DEF PausesEnded
    <3>2. Called(1)' = Called(1) /\ Called(2)' = Called(2)
      BY <2>0 DEF Called
    <3>3. CallBalance'
      BY <2>0, <2>1, <3>1, <3>2, CalledType DEF CallBalance
    <3>4. ASSUME NEW p \in Player PROVE PlayerInv(p)'
      BY <2>0, <2>1, <3>4 DEF PlayerInv, Forked, Begun, Read, Woken, Outstanding
    <3> QED BY <3>3, <3>4
  <2>2. CASE lpc = "paused" /\ turn = 1 /\ turn' = 0 /\ lpc' = "tell" /\ lost' = lost
    <3>1. PausesEnded' = 2 /\ PausesEnded = 1
      BY <2>2 DEF PausesEnded
    <3>2. Called(1)' = Called(1) /\ Called(2)' = Called(2)
      BY <2>0 DEF Called
    <3>3. CallBalance'
      BY <2>0, <2>2, <3>1, <3>2, CalledType DEF CallBalance
    <3>4. ASSUME NEW p \in Player PROVE PlayerInv(p)'
      BY <2>0, <2>2, <3>4 DEF PlayerInv, Forked, Begun, Read, Woken, Outstanding
    <3> QED BY <3>3, <3>4
  <2>3. CASE lost' = lost + 1 /\ lpc' = lpc /\ turn' = turn
    <3>1. PausesEnded' = PausesEnded /\ PausesEnded \in Nat
      BY <2>3 DEF PausesEnded
    <3>2. Called(1)' = Called(1) /\ Called(2)' = Called(2)
      BY <2>0 DEF Called
    <3>3. CallBalance'
      BY <2>0, <2>3, <3>1, <3>2, CalledType DEF CallBalance
    <3>4. ASSUME NEW p \in Player PROVE PlayerInv(p)'
      BY <2>0, <2>3, <3>4 DEF PlayerInv, Forked, Begun, Read, Woken, Outstanding
    <3> QED BY <3>3, <3>4
  <2> QED BY <1>5, <2>1, <2>2, <2>3 DEF LeaderHandler, Proceed
<1>6. CASE Begin
  <2> USE <1>6 DEF Begin, Proceed, Signal
  <2>0. \A p \in Player : ppc[p] \notin {"none", "start"}
    BY AllCalled
  <2>1. CallBalance'
    BY DEF CallBalance, Called, PausesEnded
  <2>2. ASSUME NEW p \in Player PROVE PlayerInv(p)'
    <3>0. /\ PlayerInv(p) /\ ppc'[p] = ppc[p] /\ missed' = missed
          /\ Forked(p) /\ Forked(p)'
      BY <2>2 DEF Forked
    <3>1. CASE p = turn + 1
      <4>1. ~Begun(p) /\ ~Read(p) /\ ~Woken(p)
        BY <3>1 DEF Begun, Read, Woken
      <4>2. Begun(p)' /\ ~Read(p)'
        <5>1. CASE turn = 0 /\ p = 1 /\ turn' = 1 /\ lpc' = "tell"
          BY <5>1 DEF Begun, Read
        <5>2. CASE turn = 1 /\ p = 2 /\ turn' = 0 /\ lpc' = "read"
          BY <5>2 DEF Begun, Read
        <5> QED BY <2>2, <3>1, <5>1, <5>2, Turns
      <4>3. ppc[p] \in {"called", "paused"} /\ p \notin missed
        BY <2>0, <2>2, <3>0, <4>1 DEF PlayerInv, Outstanding
      <4>4. psig'[p] /\ heard'[p] = heard[p] /\ pipe'[p] = pipe[p]
        BY <2>2, <3>1
      <4> QED BY <3>0, <4>1, <4>2, <4>3, <4>4 DEF PlayerInv, Outstanding
    <3>2. CASE p # turn + 1
      <4>1. pipe'[p] = pipe[p] /\ heard'[p] = heard[p] /\ psig'[p] = psig[p]
        BY <2>2, <3>2
      <4>2. (turn = 0 /\ p = 2) \/ (turn = 1 /\ p = 1)
        BY <2>2, <3>2, Turns
      <4>3. Begun(p)' = Begun(p)
        BY <4>2 DEF Begun
      <4>4. Read(p)' = Read(p)
        <5>1. CASE turn = 0 /\ p = 2 /\ turn' = 1 /\ lpc' = "tell"
          BY <5>1 DEF Read
        <5>2. CASE turn = 1 /\ p = 1 /\ turn' = 0 /\ lpc' = "read"
          BY <5>2 DEF Read
        <5> QED BY <4>2, <5>1, <5>2
      <4>5. Woken(p)' = Woken(p)
        BY <4>2 DEF Woken
      <4> QED BY <3>0, <4>1, <4>3, <4>4, <4>5 DEF PlayerInv, Outstanding
    <3> QED BY <3>1, <3>2
  <2> QED BY <2>1, <2>2
<1>7. CASE ReadName
  <2> USE <1>7 DEF ReadName, signals
  <2>0. \A p \in Player : ppc[p] \notin {"none", "start"}
    BY AllCalled
  <2>1. CallBalance'
    BY DEF CallBalance, Called, PausesEnded
  <2>2. ASSUME NEW p \in Player PROVE PlayerInv(p)'
    <3>0. /\ PlayerInv(p) /\ ppc'[p] = ppc[p] /\ missed' = missed
          /\ Forked(p) /\ Forked(p)'
      BY <2>2 DEF Forked
    <3>1. CASE p = turn + 1
      <4>1. Begun(p) /\ ~Read(p) /\ ~Woken(p)
        BY <3>1 DEF Begun, Read, Woken
      <4>2. Begun(p)' /\ Read(p)' /\ ~Woken(p)'
        BY <3>1 DEF Begun, Read, Woken
      <4>3. pipe[p] # <<>> /\ heard'[p] = Head(pipe[p]) /\ pipe'[p] = Tail(pipe[p])
        BY <2>2, <3>1
      <4>4. ppc[p] \in {"told", "paused2"} /\ Len(pipe[p]) = 1
        BY <2>2, <3>0, <4>1, <4>3 DEF PlayerInv
      <4>a. PICK x \in Seq(Drawn) : x = pipe[p]
        BY <2>2
      <4>b. Len(x) = 1 /\ x # <<>>
        BY <4>3, <4>4, <4>a
      <4>c. /\ Tail(x) \in Seq(Drawn) /\ Head(x) \in Drawn
            /\ Len(Tail(x)) = Len(x) - 1
        BY <4>b, HeadTailProperties
      <4>d. Len(Tail(x)) = 0
        BY <4>b, <4>c
      <4>e. Tail(x) = <<>>
        BY <4>c, <4>d, EmptySeq
      <4>5. pipe'[p] = <<>> /\ heard'[p] # NoName
        BY <4>3, <4>a, <4>c, <4>e, NamesAreNames
      <4> QED BY <3>0, <4>1, <4>2, <4>4, <4>5 DEF PlayerInv, Outstanding
    <3>2. CASE p # turn + 1
      <4>1. pipe'[p] = pipe[p] /\ heard'[p] = heard[p] /\ psig'[p] = psig[p]
        BY <2>2, <3>2
      <4>2. (turn = 0 /\ p = 2) \/ (turn = 1 /\ p = 1)
        BY <2>2, <3>2, Turns
      <4>3. Begun(p)' = Begun(p)
        BY <4>2 DEF Begun
      <4>4. Read(p)' = Read(p)
        BY <4>2 DEF Read
      <4>5. Woken(p)' = Woken(p)
        BY <4>2 DEF Woken
      <4> QED BY <3>0, <4>1, <4>3, <4>4, <4>5 DEF PlayerInv, Outstanding
    <3> QED BY <3>1, <3>2
  <2> QED BY <2>1, <2>2
<1>8. CASE Unpause
  <2> USE <1>8 DEF Unpause, Proceed, Signal
  <2>0. \A p \in Player : ppc[p] \notin {"none", "start"}
    BY AllCalled
  <2>1. CallBalance'
    BY DEF CallBalance, Called, PausesEnded
  <2>2. ASSUME NEW p \in Player PROVE PlayerInv(p)'
    <3>0. /\ PlayerInv(p) /\ ppc'[p] = ppc[p] /\ missed' = missed
          /\ Forked(p) /\ Forked(p)'
      BY <2>2 DEF Forked
    <3>1. CASE p = turn + 1
      <4>1. Begun(p) /\ Read(p) /\ ~Woken(p)
        BY <3>1 DEF Begun, Read, Woken
      <4>2. Begun(p)' /\ Read(p)' /\ Woken(p)'
        <5>1. CASE turn = 0 /\ p = 1 /\ turn' = 1 /\ lpc' = "read"
          BY <5>1 DEF Begun, Read, Woken
        <5>2. CASE turn = 1 /\ p = 2 /\ turn' = 0 /\ lpc' = "leave"
          BY <5>2 DEF Begun, Read, Woken
        <5> QED BY <2>2, <3>1, <5>1, <5>2, Turns
      <4>3. ppc[p] \in {"told", "paused2"} /\ p \notin missed
        BY <2>2, <3>0, <4>1 DEF PlayerInv, Outstanding
      <4>4. psig'[p] /\ heard'[p] = heard[p] /\ pipe'[p] = pipe[p]
        BY <2>2, <3>1
      <4> QED BY <3>0, <4>1, <4>2, <4>3, <4>4 DEF PlayerInv, Outstanding
    <3>2. CASE p # turn + 1
      <4>1. pipe'[p] = pipe[p] /\ heard'[p] = heard[p] /\ psig'[p] = psig[p]
        BY <2>2, <3>2
      <4>2. (turn = 0 /\ p = 2) \/ (turn = 1 /\ p = 1)
        BY <2>2, <3>2, Turns
      <4>3. Begun(p)' = Begun(p)
        BY <4>2 DEF Begun
      <4>4. Read(p)' = Read(p)
        <5>1. CASE turn = 0 /\ p = 2 /\ turn' = 1 /\ lpc' = "read"
          BY <5>1 DEF Read
        <5>2. CASE turn = 1 /\ p = 1 /\ turn' = 0 /\ lpc' = "leave"
          BY <5>2 DEF Read
        <5> QED BY <4>2, <5>1, <5>2
      <4>5. Woken(p)' = Woken(p)
        BY <4>2 DEF Woken
      <4> QED BY <3>0, <4>1, <4>3, <4>4, <4>5 DEF PlayerInv, Outstanding
    <3> QED BY <3>1, <3>2
  <2> QED BY <2>1, <2>2
<1>9. CASE WaitPlayers
  <2> USE <1>9 DEF WaitPlayers, leader, signals
  <2>1. CallBalance'
    BY DEF CallBalance, Called, PausesEnded, PlayerInv, Forked
  <2>2. ASSUME NEW p \in Player PROVE PlayerInv(p)'
    BY <2>2 DEF PlayerInv, Forked, Begun, Read, Woken, Outstanding
  <2> QED BY <2>1, <2>2
<1>10. ASSUME NEW q \in Player, Call(q) PROVE GameInv'
  <2> USE <1>10 DEF Call, Goes, leader, signals
  <2>1. CallBalance'
    <3>1. Called(1)' + Called(2)' = Called(1) + Called(2) + 1
      BY DEF Called
    <3>2. PausesEnded' = PausesEnded /\ PausesEnded \in Nat
      BY DEF PausesEnded
    <3>3. lpc # "failed" => lsig' = TRUE /\ lost' = IF lsig THEN lost + 1 ELSE lost
      OBVIOUS
    <3> HIDE <1>10
    <3>4. lpc' = lpc
      BY <1>10
    <3> QED BY <3>1, <3>2, <3>3, <3>4, CalledType DEF CallBalance
  <2>2. ASSUME NEW p \in Player PROVE PlayerInv(p)'
    BY <2>2 DEF PlayerInv, Forked, Begun, Read, Woken, Outstanding
  <2> QED BY <2>1, <2>2
<1>11. ASSUME NEW q \in Player, Pause(q) PROVE GameInv'
  <2> USE <1>11 DEF Pause, Goes, leader, signals
  <2>1. CallBalance'
    BY DEF CallBalance, Called, PausesEnded
  <2>2. ASSUME NEW p \in Player PROVE PlayerInv(p)'
    BY <2>2 DEF PlayerInv, Forked, Begun, Read, Woken, Outstanding
  <2> QED BY <2>1, <2>2
<1>12. ASSUME NEW q \in Player, Introduce(q) PROVE GameInv'
  <2> USE <1>12 DEF Introduce, Goes, leader, signals
  <2>1. CallBalance'
    BY DEF CallBalance, Called, PausesEnded
  <2>2. ASSUME NEW p \in Player PROVE PlayerInv(p)'
    BY <2>2 DEF PlayerInv, Forked, Begun, Read, Woken, Outstanding
  <2> QED BY <2>1, <2>2
<1>13. ASSUME NEW q \in Player, Crash(q) PROVE GameInv'
  <2> USE <1>13 DEF Crash, Goes, leader, signals
  <2>1. CallBalance'
    BY DEF CallBalance, Called, PausesEnded
  <2>2. ASSUME NEW p \in Player PROVE PlayerInv(p)'
    BY <2>2 DEF PlayerInv, Forked, Begun, Read, Woken, Outstanding
  <2> QED BY <2>1, <2>2
<1>14. ASSUME NEW q \in Player, Leave(q) PROVE GameInv'
  <2> USE <1>14 DEF Leave, Goes, leader, signals
  <2>1. CallBalance'
    BY DEF CallBalance, Called, PausesEnded
  <2>2. ASSUME NEW p \in Player PROVE PlayerInv(p)'
    BY <2>2 DEF PlayerInv, Forked, Begun, Read, Woken, Outstanding
  <2> QED BY <2>1, <2>2
<1>15. ASSUME NEW q \in Player, PlayerHandler(q) PROVE GameInv'
  <2> USE <1>15 DEF PlayerHandler, Goes, leader, signals
  <2>1. CallBalance'
    BY DEF CallBalance, Called, PausesEnded
  <2>2. ASSUME NEW p \in Player PROVE PlayerInv(p)'
    BY <2>2 DEF PlayerInv, Forked, Begun, Read, Woken, Outstanding
  <2> QED BY <2>1, <2>2
<1>16. CASE UNCHANGED vars
  BY <1>16 DEF vars, leader, signals, CallBalance, Called, PausesEnded, PlayerInv, Forked, Begun, Read, Woken, Outstanding
<1> QED
  BY <1>2, <1>3, <1>4, <1>5, <1>6, <1>7, <1>8, <1>9, <1>10, <1>11, <1>12, <1>13, <1>14, <1>15, <1>16 DEF Next, LeaderStep, PlayerStep

(***************************************************************************)
(* GameInv, the places at which each SIGUSR1 has its one meaning.          *)
(***************************************************************************)
THEOREM GameCorrect == Spec => [](TypeOK /\ GameInv)
<1>1. Init => TypeOK /\ GameInv
  BY TypeInit, GameInit
<1>2. TypeOK /\ GameInv /\ [Next]_vars => (TypeOK /\ GameInv)'
  BY TypeStep, GameStep
<1> QED BY <1>1, <1>2, PTL DEF Spec

LEMMA ApartFromInv ==
  ASSUME TypeOK, GameInv
  PROVE  ToldApart
<1> SUFFICES ASSUME NEW p \in Player
             PROVE  /\ ppc[p] \in {"done", "gone"} => heard[p] # NoName
                    /\ ppc[p] \in {"draw", "told", "paused2", "crashed"} =>
                         \A q \in Player : ppc[q] \notin {"none", "start"}
  BY DEF ToldApart
<1>1. PlayerInv(p)
  BY DEF GameInv
<1>2. Woken(p) => Read(p)
  BY DEF Woken, Read, TypeOK, Player
<1>3. Begun(p) => lpc \notin {"fork", "gather", "paused", "failed"}
  BY DEF Begun
<1>4. ppc[p] \in {"done", "gone"} => heard[p] # NoName
  BY <1>1, <1>2 DEF PlayerInv
<1>5. ppc[p] \in {"draw", "told", "paused2", "crashed"} => Begun(p)
  BY <1>1 DEF PlayerInv
<1>6. Begun(p) => \A q \in Player : ppc[q] \notin {"none", "start"}
  BY <1>3, AllCalled DEF GameInv
<1> QED BY <1>4, <1>5, <1>6

(***************************************************************************)
(* A player begins when both have called and goes when its name has been   *)
(* printed: no SIGUSR1 is taken for another one.                           *)
(***************************************************************************)
THEOREM SignalsToldApart == Spec => []ToldApart
<1>1. TypeOK /\ GameInv => ToldApart
  BY ApartFromInv
<1> QED BY <1>1, GameCorrect, PTL

LEMMA StallFromInv ==
  ASSUME TypeOK, GameInv
  PROVE  StallsOnlyByLoss
<1> SUFFICES ASSUME LeaderWaits, \A p \in Player : PlayerWaits(p),
                    lost = 0, missed = {}, \A p \in Player : ppc[p] # "crashed"
             PROVE  FALSE
  BY DEF StallsOnlyByLoss, Trouble, TypeOK
<1>0. turn + 1 \in Player /\ 1 \in Player /\ 2 \in Player
  BY DEF TypeOK, Player
<1>1. CASE lpc = "paused" /\ ~lsig
  <2>1. Called(1) + Called(2) = turn
    BY <1>1 DEF GameInv, CallBalance, PausesEnded, TypeOK
  <2>2. \A p \in Player : ppc[p] # "none" /\ ppc[p] # "start"
    BY <1>1 DEF GameInv, PlayerInv, Forked, PlayerWaits, Dead
  <2>3. Called(1) = 1 /\ Called(2) = 1
    BY <1>0, <2>2 DEF Called
  <2> QED BY <2>1, <2>3 DEF TypeOK
<1>2. CASE lpc = "read" /\ pipe[turn + 1] = <<>>
  <2> DEFINE p == turn + 1
  <2>1. Begun(p) /\ ~Read(p) /\ ~Woken(p)
    BY <1>2, <1>0 DEF Begun, Read, Woken, TypeOK
  <2>2. PlayerInv(p) /\ PlayerWaits(p) /\ ppc[p] # "crashed" /\ p \notin missed
    BY <1>0 DEF GameInv
  <2>3. ppc[p] \notin {"told", "paused2"}
    <3>1. Len(<<>>) # 1
      OBVIOUS
    <3> QED BY <1>2, <2>1, <2>2, <3>1 DEF PlayerInv
  <2>4. ppc[p] = "paused" /\ ~psig[p]
    BY <1>2, <2>1, <2>2, <2>3 DEF PlayerWaits, Dead, PlayerInv, Forked
  <2> QED BY <2>1, <2>2, <2>4 DEF PlayerInv, Outstanding
<1>3. CASE lpc = "leave" /\ \E p \in Player : ppc[p] \notin Dead
  <2>1. PICK p \in Player : ppc[p] \notin Dead
    BY <1>3
  <2>2. Begun(p) /\ Read(p) /\ Woken(p) /\ Forked(p)
    BY <1>3 DEF Begun, Read, Woken, Forked
  <2>3. PlayerInv(p) /\ PlayerWaits(p) /\ p \notin missed
    BY DEF GameInv
  <2>4. ppc[p] \in {"paused", "paused2"} /\ ~psig[p]
    BY <2>1, <2>2, <2>3 DEF PlayerInv, PlayerWaits
  <2> QED BY <2>2, <2>3, <2>4 DEF PlayerInv, Outstanding
<1> QED BY <1>1, <1>2, <1>3 DEF LeaderWaits

(***************************************************************************)
(* A SIGUSR1 that woke nobody, or a crash, is the only way for leader and  *)
(* players to wait for each other.                                         *)
(***************************************************************************)
THEOREM NoOtherStall == Spec => []StallsOnlyByLoss
<1>1. TypeOK /\ GameInv => StallsOnlyByLoss
  BY StallFromInv
<1> QED BY <1>1, GameCorrect, PTL

-----------------------------------------------------------------------------
\* Steps that move no player on or off the stage, say or print no name.
LEMMA Unseen ==
  ASSUME TypeOK, TypeOK', pipe' = pipe, heard' = heard,
         \A p \in Player : place'[p] = place[p]
  PROVE  UNCHANGED <<place, said, heard>>
<1>1. place' = place
  BY DEF place
<1>2. said' = said
  BY DEF said
<1> QED BY <1>1, <1>2

LEMMA IntroInit == Init => Intro!Init
BY DEF Init, Intro!Init, place, said

LEMMA IntroStep ==
  ASSUME TypeOK, GameInv, [Next]_vars
  PROVE  [Intro!Next]_(Intro!vars)
<1>1. TypeOK' /\ GameInv'
  BY TypeStep, GameStep
<1>2. CASE Fork
  <2>1. ppc[turn + 1] = "none" /\ turn + 1 \in Player
    BY <1>2 DEF Fork, GameInv, PlayerInv, Forked, TypeOK, Player
  <2>2. \A p \in Player : place'[p] = place[p]
    BY <1>2, <2>1 DEF Fork, TypeOK, place
  <2>3. pipe' = pipe /\ heard' = heard
    BY <1>2 DEF Fork
  <2> QED BY <1>1, <2>2, <2>3, Unseen DEF Intro!vars
<1>3. CASE ForkFails \/ PauseForPlayer \/ LeaderHandler \/ Begin \/ Unpause
           \/ WaitPlayers
  <2>1. ppc' = ppc /\ pipe' = pipe /\ heard' = heard
    BY <1>3 DEF ForkFails, PauseForPlayer, LeaderHandler, Begin, Unpause,
                WaitPlayers
  <2>2. \A p \in Player : place'[p] = place[p]
    BY <2>1 DEF place
  <2> QED BY <1>1, <2>1, <2>2, Unseen DEF Intro!vars
<1>4. CASE ReadName
  <2>0. PICK p \in Player : p = turn + 1
    BY DEF TypeOK, Player
  <2>1. p \in Player /\ pipe[p] # <<>>
    BY <1>4, <2>0 DEF ReadName
  <2>2. /\ heard' = [heard EXCEPT ![p] = Head(pipe[p])]
        /\ pipe' = [pipe EXCEPT ![p] = Tail(pipe[p])]
        /\ ppc' = ppc
    BY <1>4, <2>0 DEF ReadName
  <2>3. said[p] = Head(pipe[p]) /\ said[p] # NoName
    <3>1. pipe[p] \in Seq(Drawn)
      BY <2>1 DEF TypeOK
    <3>2. Head(pipe[p]) \in Drawn
      BY <2>1, <3>1, HeadTailProperties
    <3> QED BY <2>1, <3>2, NamesAreNames DEF said
  <2>4. heard[p] = NoName
    <3>1. ~Read(p)
      BY <1>4, <2>0 DEF ReadName, Read, TypeOK
    <3> QED BY <2>1, <3>1 DEF GameInv, PlayerInv
  <2>5. \A q \in Player : q < p => heard[q] # NoName
    <3> SUFFICES ASSUME NEW q \in Player, q < p PROVE heard[q] # NoName
      OBVIOUS
    <3>1. Read(q)
      BY <1>4, <2>0 DEF ReadName, Read, TypeOK, Player
    <3> QED BY <3>1 DEF GameInv, PlayerInv
  <2>6. pipe'[p] = <<>>
    <3>1. PlayerInv(p)' /\ Read(p)'
      BY <1>1, <1>4, <2>0 DEF GameInv, ReadName, Read, TypeOK
    <3>2. ppc'[p] \in PlayerPC
      BY <1>1 DEF TypeOK
    <3>3. ppc'[p] \in {"told", "paused2", "done", "gone"}
      BY <3>1, <3>2 DEF PlayerInv, PlayerPC
    <3> QED BY <3>1, <3>3 DEF PlayerInv
  <2>7. said' = said
    <3>1. \A q \in Player : said'[q] = said[q]
      BY <2>1, <2>2, <2>3, <2>6 DEF said, TypeOK
    <3> QED BY <3>1 DEF said
  <2>8. place' = place
    BY <2>2 DEF place
  <2>9. Intro!Repeat(p)
    BY <2>2, <2>3, <2>4, <2>5, <2>7, <2>8 DEF Intro!Repeat
  <2> QED BY <2>9 DEF Intro!Next
<1>5. ASSUME NEW p \in Player, Call(p) PROVE Intro!Next
  <2>1. /\ ppc[p] = "start" /\ ppc' = [ppc EXCEPT ![p] = "called"]
        /\ pipe' = pipe /\ heard' = heard
    BY <1>5 DEF Call, Goes, leader
  <2>2. place[p] = "off" /\ place' = [place EXCEPT ![p] = "on"]
    BY <2>1, <1>5 DEF place, TypeOK
  <2>3. said' = said
    BY <2>1 DEF said
  <2>4. Intro!Arrive(p)
    BY <2>1, <2>2, <2>3 DEF Intro!Arrive
  <2> QED BY <1>5, <2>4 DEF Intro!Next
<1>6. ASSUME NEW p \in Player, Pause(p) \/ Crash(p) \/ PlayerHandler(p)
      PROVE  UNCHANGED Intro!vars
  <2>1. pipe' = pipe /\ heard' = heard
    BY <1>6 DEF Pause, Crash, PlayerHandler, leader
  <2>2. \A q \in Player : place'[q] = place[q]
    BY <1>6 DEF Pause, Crash, PlayerHandler, Goes, TypeOK, place
  <2> QED BY <1>1, <2>1, <2>2, Unseen DEF Intro!vars
<1>7. ASSUME NEW p \in Player, Introduce(p) PROVE Intro!Next
  <2>1. PICK n \in Drawn : pipe' = [pipe EXCEPT ![p] = Append(pipe[p], n)]
    BY <1>7 DEF Introduce
  <2>2. /\ ppc[p] = "draw" /\ ppc' = [ppc EXCEPT ![p] = "told"]
        /\ heard' = heard
    BY <1>7 DEF Introduce, Goes, leader
  <2>3. PlayerInv(p) /\ pipe[p] = <<>> /\ ~Read(p) /\ heard[p] = NoName
    BY <1>7, <2>2 DEF GameInv, PlayerInv
  <2>4. \A q \in Player : place[q] # "off"
    <3>1. \A q \in Player : ppc[q] \notin {"none", "start"}
      BY <1>7, <2>2, ApartFromInv DEF ToldApart
    <3> QED BY <3>1 DEF place
  <2>5. said[p] = NoName
    BY <1>7, <2>3 DEF said
  <2>6. said' = [said EXCEPT ![p] = n]
    <3>1. Append(pipe[p], n) # <<>> /\ Head(Append(pipe[p], n)) = n
      BY <2>3
    <3>2. pipe'[p] = Append(pipe[p], n) /\ \A q \in Player : q # p => pipe'[q] = pipe[q]
      BY <1>7, <2>1 DEF TypeOK
    <3> QED BY <2>2, <3>1, <3>2 DEF said
  <2>7. place' = place
    <3>1. \A q \in Player : place'[q] = place[q]
      BY <1>7, <2>2 DEF place, TypeOK
    <3> QED BY <3>1 DEF place
  <2>8. Intro!Say(p)
    BY <2>2, <2>4, <2>5, <2>6, <2>7 DEF Intro!Say
  <2> QED BY <1>7, <2>8 DEF Intro!Next
<1>8. ASSUME NEW p \in Player, Leave(p) PROVE Intro!Next
  <2>1. /\ ppc[p] = "done" /\ ppc' = [ppc EXCEPT ![p] = "gone"]
        /\ pipe' = pipe /\ heard' = heard
    BY <1>8 DEF Leave, Goes, leader
  <2>2. place[p] = "on" /\ place' = [place EXCEPT ![p] = "left"]
    BY <2>1, <1>8 DEF place, TypeOK
  <2>3. said' = said
    BY <2>1 DEF said
  <2>4. heard[p] # NoName
    BY <1>8, <2>1, ApartFromInv DEF ToldApart
  <2>5. Intro!Leave(p)
    BY <2>1, <2>2, <2>3, <2>4 DEF Intro!Leave
  <2> QED BY <1>8, <2>5 DEF Intro!Next
<1>9. CASE UNCHANGED vars
  <2>1. ppc' = ppc /\ pipe' = pipe /\ heard' = heard
    BY <1>9 DEF vars, leader
  <2> QED BY <1>1, <2>1, Unseen DEF Intro!vars, place
<1> QED
  BY <1>2, <1>3, <1>4, <1>5, <1>6, <1>7, <1>8, <1>9 DEF Next, LeaderStep, PlayerStep

(***************************************************************************)
(* The game implements Introduction: nobody says a name before both are    *)
(* there, the names are printed in order, each is the one its player said, *)
(* and nobody leaves before.                                               *)
(***************************************************************************)
THEOREM GameIsIntroduction == Spec => Implements
<1>1. Init => Intro!Init
  BY IntroInit
<1>2. TypeOK /\ GameInv /\ [Next]_vars => [Intro!Next]_(Intro!vars)
  BY IntroStep
<1> QED BY <1>1, <1>2, GameCorrect, PTL DEF Spec, Implements, Intro!Spec
=============================================================================
