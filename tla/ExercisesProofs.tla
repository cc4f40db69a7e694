-------------------------- MODULE ExercisesProofs --------------------------
(***************************************************************************)
(* What holds of the programs of two processes, one by one, for every      *)
(* number of rounds, lines and runs.  Each program has an inductive        *)
(* invariant of its own; a step of another program says nothing about it.  *)
(***************************************************************************)
EXTENDS Exercises, FiniteSetTheorems, SequenceTheorems, TLAPS

pos == INSTANCE SharedMessageProofs WITH SystemV <- FALSE
sysv == INSTANCE SharedMessageProofs WITH SystemV <- TRUE
lock == INSTANCE FileLockProofs WITH Locked <- TRUE
free == INSTANCE FileLockProofs WITH Locked <- FALSE

\* The program that runs stays the same.
LEMMA ExerciseStays == [Next]_vars => exercise' = exercise
<1> USE DEF Shared, Queued, Notified, Toured, Filed, Signalled, Piped, Drafted
<1>1. Parent => exercise' = exercise
  <2>1. gy2!Parent => exercise' = exercise
    BY DEF gy2!Parent, gy2!Start, gy2!Fork, gy2!Enter, gy2!Unblock, gy2!Wait
  <2>2. gy3!Parent => exercise' = exercise
    BY DEF gy3!Parent, gy3!MakePipe, gy3!NameExists, gy3!FirstLook, gy3!Fork,
           gy3!Meet, gy3!Speak, gy3!SendSignal, gy3!Read, gy3!WaitChild,
           gy3!Unlink, gy3!Alone
  <2>3. drafts!Parent => exercise' = exercise
    BY DEF drafts!Parent, drafts!given, drafts!Start, drafts!Fork,
           drafts!Announce, drafts!TakeGuard, drafts!Filter, drafts!Release,
           drafts!OpenWrite, drafts!MyTurn, drafts!Show, drafts!Write,
           drafts!Pass, drafts!Last, drafts!WaitChild, drafts!Remove,
           drafts!szemafor_torles
  <2> QED BY <2>1, <2>2, <2>3 DEF Parent
<1>2. Child => exercise' = exercise
  BY DEF Child, gy2!Child, gy2!Send, gy3!Child, gy3!Signal, gy3!Ppoll,
         gy3!Hear, gy3!TimesOut, gy3!ChildWrite, gy3!ChildUnlink,
         drafts!Child, drafts!given, drafts!ChildGuard, drafts!ChildCount,
         drafts!ChildRelease, drafts!ChildTurn, drafts!ChildRead,
         drafts!ChildGive
<1>3. Deliver \/ Stop => exercise' = exercise
  BY DEF Deliver, Stop, gy2!Deliver, gy2!Handler, gy2!Tick, gy2!Stop,
         gy2!ForkFails, gy2!TimerFails, gy3!Stop, gy3!ForkFails, gy3!Kill,
         drafts!Stop, drafts!given, drafts!ForkFails, drafts!Kill
<1> QED
  BY <1>1, <1>2, <1>3 DEF Next, vars

-----------------------------------------------------------------------------
(***************************************************************************)
(* Pollers.  A child that has stopped listening has heard what it may; a   *)
(* name in the directory without a run is that of a killed one.            *)
(***************************************************************************)
PipesKnown ==
  /\ exercise = "pipe" => ~name
  /\ exercise = "ppoll_cso" => ~pipe
  /\ parent = "off" /\ name => stops > 0
  /\ parent \in {"first", "fork"} /\ exercise # "pipe" => name
  /\ parent \in {"off", "first", "fork", "alone", "stuck", "failed"} =>
       child = "none"
  /\ parent \in {"speak", "wait"} => exercise # "nevcso" /\ child # "none"
  /\ parent \in {"open", "read"} => exercise = "nevcso"
  /\ parent = "alone" => exercise \in {"poll_cso", "ppoll_cso"}
  /\ child \in {"unlink", "end"} /\ exercise # "nevcso" =>
       heard \in gy3!Expected[exercise]
  /\ parent = "unlink" => heard \in gy3!Expected[exercise]
  /\ exercise = "nevcso" => child \in {"none", "open", "write", "end"}
  /\ child = "write" => exercise = "nevcso"
  /\ child = "open" => parent = "open" /\ name
  /\ parent \in {"off", "first", "fork", "alone", "open", "read"} =>
       heard = "nothing"
  /\ child \in {"signal", "ppoll", "listen"} => heard = "nothing"
  /\ pipe => child # "none" /\ gy3!Spoken
PipesInv == gy3!TypeOK /\ PipesKnown /\ gy3!PipesEndWell
Pipes == exercise \in gy3!Piped => PipesInv

LEMMA PipesRun == exercise \in gy3!Piped /\ [Next]_vars => [gy3!Next]_(gy3!vars)
  BY DEF gy3!Piped, gy2!Demo, drafts!Draft, Next, Parent, Child, Deliver, Stop,
         Piped, gy3!Next, gy3!vars, vars, procs, pipeVars

LEMMA PipesType ==
  gy3!TypeOK /\ exercise \in gy3!Piped /\ [gy3!Next]_(gy3!vars) => gy3!TypeOK'
<1> SUFFICES ASSUME gy3!TypeOK, exercise \in gy3!Piped, [gy3!Next]_(gy3!vars)
             PROVE  gy3!TypeOK'
    OBVIOUS
<1>0. MaxStops \in Nat /\ stops \in 0..MaxStops
  BY ExercisesAssumption DEF gy3!TypeOK
<1> USE DEF gy3!Parent, gy3!MakePipe, gy3!NameExists, gy3!FirstLook, gy3!Fork,
            gy3!Meet, gy3!Speak, gy3!SendSignal, gy3!Read, gy3!WaitChild,
            gy3!Unlink, gy3!Alone, gy3!Child, gy3!Signal, gy3!Ppoll, gy3!Hear,
            gy3!TimesOut, gy3!ChildWrite, gy3!ChildUnlink, gy3!Stop,
            gy3!ForkFails, gy3!Kill, gy3!Next, gy3!vars
<1>1. {name, pipe}' \subseteq BOOLEAN
  BY Zenon DEF gy3!TypeOK
<1>2. stops' \in 0..MaxStops
  BY <1>0
<1>3. /\ parent' \in {"off", "first", "fork", "open", "speak", "read", "wait",
                     "unlink", "done", "alone", "stuck", "failed"}
      /\ child' \in {"none", "open", "write", "signal", "ppoll", "listen",
                    "unlink", "end"}
      /\ heard' \in {"nothing", "data", "timeout", "signal", "death"}
  BY DEF gy3!TypeOK
<1> QED
  BY <1>1, <1>2, <1>3 DEF gy3!TypeOK

LEMMA PipesParent == PipesInv /\ exercise \in gy3!Piped /\ gy3!Parent => (PipesKnown /\ gy3!PipesEndWell)'
<1> SUFFICES ASSUME PipesInv, exercise \in gy3!Piped, gy3!Parent
             PROVE  (PipesKnown /\ gy3!PipesEndWell)'
    OBVIOUS
<1>0. MaxStops \in Nat
  BY ExercisesAssumption
<1> USE <1>0 DEF PipesInv, PipesKnown, gy3!TypeOK, gy3!Piped, gy3!Expected,
                 gy3!Spoken, gy3!PipesEndWell
<1>1. CASE gy3!MakePipe
  BY <1>1 DEF gy3!MakePipe
<1>2. CASE gy3!NameExists \/ gy3!FirstLook
  BY <1>2 DEF gy3!NameExists, gy3!FirstLook
<1>3. CASE gy3!Fork
  <2>1. CASE exercise \in {"nevcso", "ppoll_cso"}
    BY <1>3, <2>1 DEF gy3!Fork
  <2>2. CASE exercise \in {"pipe", "poll_cso", "sel_cso"}
    BY <1>3, <2>2 DEF gy3!Fork
  <2> QED BY <2>1, <2>2
<1>4. CASE gy3!Meet \/ gy3!Speak
  BY <1>4 DEF gy3!Meet, gy3!Speak
<1>5. CASE gy3!SendSignal
  BY <1>5 DEF gy3!SendSignal
<1>6. CASE gy3!Read
  BY <1>6 DEF gy3!Read
<1>7. CASE gy3!WaitChild
  BY <1>7 DEF gy3!WaitChild
<1>8. CASE gy3!Unlink \/ gy3!Alone
  BY <1>8 DEF gy3!Unlink, gy3!Alone
<1> QED
  BY <1>1, <1>2, <1>3, <1>4, <1>5, <1>6, <1>7, <1>8 DEF gy3!Parent

LEMMA PipesChild == PipesInv /\ exercise \in gy3!Piped /\ gy3!Child => (PipesKnown /\ gy3!PipesEndWell)'
<1> SUFFICES ASSUME PipesInv, exercise \in gy3!Piped, gy3!Child
             PROVE  (PipesKnown /\ gy3!PipesEndWell)'
    OBVIOUS
<1>0. MaxStops \in Nat
  BY ExercisesAssumption
<1> USE <1>0 DEF PipesInv, PipesKnown, gy3!TypeOK, gy3!Piped, gy3!Expected,
                 gy3!Spoken, gy3!PipesEndWell
<1>1. CASE gy3!Signal \/ gy3!Ppoll
  BY <1>1 DEF gy3!Signal, gy3!Ppoll
<1>2. CASE gy3!Hear
  BY <1>2 DEF gy3!Hear
<1>3. CASE gy3!TimesOut
  BY <1>3 DEF gy3!TimesOut
<1>4. CASE gy3!ChildUnlink
  BY <1>4 DEF gy3!ChildUnlink
<1>5. CASE gy3!ChildWrite
  BY <1>5 DEF gy3!ChildWrite
<1> QED
  BY <1>1, <1>2, <1>3, <1>4, <1>5 DEF gy3!Child

LEMMA PipesStep == Pipes /\ [Next]_vars => Pipes'
<1> SUFFICES ASSUME PipesInv, exercise \in gy3!Piped, [Next]_vars
             PROVE  PipesInv'
  BY ExerciseStays DEF Pipes, gy3!Piped
<1>1. [gy3!Next]_(gy3!vars)
  BY PipesRun
<1>2. gy3!TypeOK'
  BY <1>1, PipesType DEF PipesInv
<1>3. CASE gy3!Stop
  BY <1>2, <1>3, ExercisesAssumption
  DEF PipesInv, PipesKnown, gy3!TypeOK, gy3!Piped, gy3!PipesEndWell,
      gy3!Spoken, gy3!Stop, gy3!ForkFails, gy3!Kill
<1>4. CASE UNCHANGED gy3!vars
  BY <1>2, <1>4 DEF gy3!vars, PipesInv, PipesKnown, gy3!Piped,
                    gy3!PipesEndWell, gy3!Expected, gy3!Spoken
<1> QED
  BY <1>1, <1>2, <1>3, <1>4, PipesParent, PipesChild DEF gy3!Next, PipesInv

LEMMA PipesInit == Init => Pipes
<1> SUFFICES ASSUME Init, exercise \in gy3!Piped
             PROVE  PipesInv
  BY DEF Pipes
<1>1. gy3!TypeOK
  <2>1. {name, pipe} \subseteq BOOLEAN
    BY Zenon DEF Init, gy3!Init
  <2>2. stops \in 0..MaxStops
    BY ExercisesAssumption DEF Init, gy3!Init
  <2> QED BY <2>1, <2>2 DEF Init, gy3!Init, gy3!TypeOK
<1>2. PipesKnown /\ gy3!PipesEndWell
  BY DEF Init, gy3!Init, PipesKnown, gy3!PipesEndWell, gy3!Piped
<1> QED BY <1>1, <1>2 DEF PipesInv

\* The programs of gy3 leave no name behind, having heard what they waited for.
THEOREM PipesEndWellCorrect == Spec => []PipesEndWell
<1>1. Pipes => PipesEndWell
  BY DEF Pipes, PipesInv, PipesEndWell
<1> QED
  BY <1>1, PipesInit, PipesStep, PTL DEF Spec

-----------------------------------------------------------------------------
(***************************************************************************)
(* SharedMessage, for the two programs that share it.                      *)
(***************************************************************************)
Posted ==
  /\ exercise = "pos_szemafor" => pos!SharedInv
  /\ exercise = "szemafor" => sysv!SharedInv

LEMMA PosRun == exercise = "pos_szemafor" /\ [Next]_vars => [pos!Next]_(pos!vars)
<1> SUFFICES ASSUME exercise = "pos_szemafor", [Next]_vars
             PROVE  [pos!Next]_(pos!vars)
    OBVIOUS
<1>1. pos_szemafor!Parent \/ pos_szemafor!Child \/ pos_szemafor!Stop \/ UNCHANGED vars
  BY DEF gy2!Demo, gy3!Piped, drafts!Draft, Next, Parent, Child, Deliver, Stop,
         Shared
<1>2. CASE pos_szemafor!Parent
  BY <1>2
  DEF pos_szemafor!Parent, pos_szemafor!Attach, pos_szemafor!szemafor_letrehozas,
      pos_szemafor!Fork, pos_szemafor!CopyBegins, pos_szemafor!CopyEnds,
      pos_szemafor!ParentUp, pos_szemafor!WaitChild,
      pos_szemafor!szemafor_torles, pos_szemafor!RemovePage,
      pos!Parent, pos!Attach, pos!szemafor_letrehozas, pos!Fork,
      pos!CopyBegins, pos!CopyEnds, pos!ParentUp, pos!WaitChild,
      pos!szemafor_torles, pos!RemovePage, pos!Next,
      pos_szemafor!NoSem, pos!NoSem
<1>3. CASE pos_szemafor!Child
  BY <1>3
  DEF pos_szemafor!Child, pos_szemafor!Down, pos_szemafor!PrintPage,
      pos_szemafor!ChildUp, pos!Child, pos!Down, pos!PrintPage, pos!ChildUp,
      pos!Next
<1>4. CASE pos_szemafor!Stop
  BY <1>4, Zenon
  DEF pos_szemafor!Stop, pos_szemafor!ForkFails, pos_szemafor!Kill,
      pos_szemafor!Rebuild, pos!Stop, pos!ForkFails, pos!Kill, pos!Rebuild,
      pos_szemafor!NoSem, pos!NoSem, pos!Next
<1>5. CASE UNCHANGED vars
  BY <1>5 DEF vars, procs, sharedVars, pos!vars
<1> QED BY <1>1, <1>2, <1>3, <1>4, <1>5

LEMMA SysvRun == exercise = "szemafor" /\ [Next]_vars => [sysv!Next]_(sysv!vars)
<1> SUFFICES ASSUME exercise = "szemafor", [Next]_vars
             PROVE  [sysv!Next]_(sysv!vars)
    OBVIOUS
<1>1. szemafor!Parent \/ szemafor!Child \/ szemafor!Stop \/ UNCHANGED vars
  BY DEF gy2!Demo, gy3!Piped, drafts!Draft, Next, Parent, Child, Deliver, Stop,
         Shared
<1>2. CASE szemafor!Parent
  BY <1>2
  DEF szemafor!Parent, szemafor!Attach, szemafor!szemafor_letrehozas,
      szemafor!Fork, szemafor!CopyBegins, szemafor!CopyEnds,
      szemafor!ParentUp, szemafor!WaitChild,
      szemafor!szemafor_torles, szemafor!RemovePage,
      sysv!Parent, sysv!Attach, sysv!szemafor_letrehozas, sysv!Fork,
      sysv!CopyBegins, sysv!CopyEnds, sysv!ParentUp, sysv!WaitChild,
      sysv!szemafor_torles, sysv!RemovePage, sysv!Next,
      szemafor!NoSem, sysv!NoSem
<1>3. CASE szemafor!Child
  BY <1>3
  DEF szemafor!Child, szemafor!Down, szemafor!PrintPage,
      szemafor!ChildUp, sysv!Child, sysv!Down, sysv!PrintPage, sysv!ChildUp,
      sysv!Next
<1>4. CASE szemafor!Stop
  BY <1>4, Zenon
  DEF szemafor!Stop, szemafor!ForkFails, szemafor!Kill,
      szemafor!Rebuild, sysv!Stop, sysv!ForkFails, sysv!Kill, sysv!Rebuild,
      szemafor!NoSem, sysv!NoSem, sysv!Next
<1>5. CASE UNCHANGED vars
  BY <1>5 DEF vars, procs, sharedVars, sysv!vars
<1> QED BY <1>1, <1>2, <1>3, <1>4, <1>5

LEMMA PostedStep == Posted /\ [Next]_vars => Posted'
<1>1. ASSUME exercise = "pos_szemafor", pos!SharedInv, [Next]_vars
      PROVE  pos!SharedInv'
  BY <1>1, PosRun, pos!TypeStep, pos!LifecycleStep, pos!GuardedStep,
     pos!FirstRunStep
  DEF pos!SharedInv
<1>2. ASSUME exercise = "szemafor", sysv!SharedInv, [Next]_vars
      PROVE  sysv!SharedInv'
  BY <1>2, SysvRun, sysv!TypeStep, sysv!LifecycleStep, sysv!GuardedStep,
     sysv!FirstRunStep
  DEF sysv!SharedInv
<1> QED BY <1>1, <1>2, ExerciseStays DEF Posted

LEMMA PostedInit == Init => Posted
  BY pos!InitInv, sysv!InitInv
  DEF Init, Posted, pos_szemafor!Init, pos!Init, sysv!Init,
      pos_szemafor!NoSem, pos!NoSem, sysv!NoSem

LEMMA TextGuarded ==
  Posted => /\ exercise = "pos_szemafor" => pos_szemafor!TextIsGuarded
            /\ exercise = "szemafor" => szemafor!TextIsGuarded
  BY DEF Posted, pos!SharedInv, pos!Guarded, pos!TextIsGuarded,
         sysv!SharedInv, sysv!Guarded, sysv!TextIsGuarded,
         pos_szemafor!TextIsGuarded, szemafor!TextIsGuarded

-----------------------------------------------------------------------------
(***************************************************************************)
(* Drafts.  van_meg of sub2_a.c is a token that parent and child pass to   *)
(* each other, next to those that the run has found; "read" is posted once *)
(* in a run, after the order.  A killed run leaves one token of each.      *)
(***************************************************************************)
DraftsType ==
  /\ drafts!TypeOK
  /\ parent \in {"off", "fork", "failed"} => child = "none"
  /\ child \in {"loop", "give"} => todo > 0
  /\ child = "read" /\ exercise = "sub2_a" => todo > 0

One(b) == IF b THEN 1 ELSE 0
Unannounced == {"fork", "failed", "announce"}
Announced ==
  {"guard", "filter", "release", "open", "turn", "show", "write", "pass",
   "last", "wait", "unlink_van_meg", "crashed"}
Unlinked == {"unlink_write", "unlink_read", "done"}
Passed == {"last", "wait", "unlink_van_meg", "unlink_write", "unlink_read"}
BeforeFilter == Unannounced \cup {"guard", "filter"}

TokensOfVanMeg ==
  /\ found["van_meg"] <= stops
  /\ parent = "off" => sems["van_meg"] <= stops
  /\ parent # "off" => found["van_meg"] \in Nat
  /\ parent \in Unannounced =>
       /\ sems["van_meg"] \in Nat
       /\ sems["van_meg"] + One(drafts!InChild) = found["van_meg"]
  /\ parent \in Announced =>
       /\ sems["van_meg"] \in Nat
       /\ sems["van_meg"] + One(drafts!InParent) + One(drafts!InChild)
            = found["van_meg"] + 1
  /\ parent \in Unlinked => sems["van_meg"] = drafts!NoSem

TokensOfRead ==
  /\ found["read"] <= stops
  /\ parent = "off" => sems["read"] <= stops
  /\ parent # "off" => found["read"] \in Nat
  /\ parent \in (Unannounced \cup Announced) \ Passed =>
       sems["read"] \in 0..found["read"]
  /\ parent \in Passed => sems["read"] \in 0..(found["read"] + 1)

Counted ==
  /\ parent \in {"unlink_van_meg"} \cup Unlinked => child = "end"
  /\ parent # "off" => count = IF parent \in BeforeFilter THEN 0 ELSE drafts!filter
  /\ child = "release" => todo \in {0, count}
  /\ child \in {"loop", "read", "give"} => count > 0
  /\ child = "loop" /\ found["read"] = 0 =>
       todo = count \/ (parent \in {"last", "wait"} /\ sems["read"] = 0)
  /\ child \in {"read", "give"} /\ found["read"] = 0 =>
       sems["read"] = 0 /\ parent \in {"last", "wait"} /\ todo = count

Tokens == TokensOfVanMeg /\ TokensOfRead /\ Counted
Draft ==
  exercise \in drafts!Draft => DraftsType /\ (exercise = "sub2_a" => Tokens)

LEMMA DraftRun == exercise \in drafts!Draft /\ [Next]_vars => [drafts!Next]_(drafts!vars)
  BY DEF gy3!Piped, gy2!Demo, drafts!Draft, Next, Parent, Child, Deliver, Stop,
         Drafted, drafts!Next, drafts!vars, vars, procs, draftVars

LEMMA DraftsTypeStep ==
  DraftsType /\ exercise \in drafts!Draft /\ [drafts!Next]_(drafts!vars) =>
    DraftsType'
<1> SUFFICES ASSUME DraftsType, exercise \in drafts!Draft,
                    [drafts!Next]_(drafts!vars)
             PROVE  DraftsType'
    OBVIOUS
<1>0. MaxStops \in Nat /\ Lines \subseteq Nat
  BY ExercisesAssumption
<1> USE <1>0 DEF DraftsType, drafts!TypeOK, drafts!Draft, drafts!Names,
                 drafts!NoSem, drafts!given, drafts!page, drafts!Guarded,
                 drafts!Goes, drafts!Comes, drafts!sem_post, drafts!sem_wait,
                 drafts!filter
<1>1. CASE drafts!Start
  <2>1. order_buffer' \in BOOLEAN
    BY <1>1, Zenon DEF drafts!Start
  <2>2. /\ sems' \in [drafts!Names -> Nat \cup {drafts!NoSem}]
        /\ found' \in [drafts!Names -> Nat \cup {drafts!NoSem}]
    BY <1>1 DEF drafts!Start
  <2> QED BY <1>1, <2>1, <2>2 DEF drafts!Start
<1>2. CASE drafts!Fork \/ drafts!Announce \/ drafts!TakeGuard \/ drafts!Filter
  BY <1>2 DEF drafts!Fork, drafts!Announce, drafts!TakeGuard, drafts!Filter
<1>3. CASE drafts!Release \/ drafts!OpenWrite \/ drafts!MyTurn \/ drafts!Pass
  BY <1>3 DEF drafts!Release, drafts!OpenWrite, drafts!MyTurn, drafts!Pass
<1>4. CASE drafts!Show \/ drafts!Write \/ drafts!Last \/ drafts!WaitChild
  BY <1>4 DEF drafts!Show, drafts!Write, drafts!Last, drafts!WaitChild
<1>5. CASE drafts!Remove
  BY <1>5 DEF drafts!Remove, drafts!szemafor_torles
<1>6. CASE drafts!ChildGuard \/ drafts!ChildCount \/ drafts!ChildTurn
  BY <1>6 DEF drafts!ChildGuard, drafts!ChildCount, drafts!ChildTurn
<1>7. CASE drafts!ChildRelease \/ drafts!ChildRead \/ drafts!ChildGive
  BY <1>7 DEF drafts!ChildRelease, drafts!ChildRead, drafts!ChildGive
<1>8. CASE drafts!Stop
  BY <1>8 DEF drafts!Stop, drafts!ForkFails, drafts!Kill
<1>9. CASE UNCHANGED drafts!vars
  BY <1>9 DEF drafts!vars
<1> QED
  BY <1>1, <1>2, <1>3, <1>4, <1>5, <1>6, <1>7, <1>8, <1>9
  DEF drafts!Next, drafts!Parent, drafts!Child

LEMMA TokensParent ==
  ASSUME exercise = "sub2_a", DraftsType, DraftsType', Tokens, drafts!Parent
  PROVE  Tokens'
<1>0. MaxStops \in Nat /\ Lines \subseteq Nat
  BY ExercisesAssumption
<1> USE <1>0 DEF Tokens, TokensOfVanMeg, TokensOfRead, Counted, One, Unannounced,
                 Announced, Unlinked, Passed, BeforeFilter,
                 drafts!InParent, drafts!InChild, drafts!Guarded,
                 DraftsType, drafts!TypeOK, drafts!Names, drafts!NoSem,
                 drafts!given, drafts!page, drafts!Goes, drafts!sem_post,
                 drafts!sem_wait, drafts!filter
<1>1. CASE drafts!Start
  BY <1>1 DEF drafts!Start
<1>2. CASE drafts!Fork
  BY <1>2 DEF drafts!Fork
<1>3. CASE drafts!Announce
  BY <1>3 DEF drafts!Announce
<1>4. CASE drafts!TakeGuard
  BY <1>4 DEF drafts!TakeGuard
<1>5. CASE drafts!Filter
  BY <1>5 DEF drafts!Filter
<1>6. CASE drafts!Release
  BY <1>6 DEF drafts!Release
<1>7. CASE drafts!OpenWrite
  BY <1>7 DEF drafts!OpenWrite
<1>8. CASE drafts!MyTurn
  BY <1>8 DEF drafts!MyTurn
<1>9. CASE drafts!Show
  BY <1>9 DEF drafts!Show
<1>10. CASE drafts!Write
  BY <1>10 DEF drafts!Write
<1>11. CASE drafts!Pass
  BY <1>11 DEF drafts!Pass
<1>12. CASE drafts!Last
  BY <1>12 DEF drafts!Last
<1>13. CASE drafts!WaitChild
  BY <1>13 DEF drafts!WaitChild
<1>14. CASE drafts!Remove
  BY <1>14 DEF drafts!Remove, drafts!szemafor_torles
<1> QED
  BY <1>1, <1>2, <1>3, <1>4, <1>5, <1>6, <1>7, <1>8, <1>9, <1>10, <1>11, <1>12, <1>13, <1>14
  DEF drafts!Parent

LEMMA TokensChild ==
  ASSUME exercise = "sub2_a", DraftsType, DraftsType', Tokens, drafts!Child
  PROVE  Tokens'
<1>0. MaxStops \in Nat /\ Lines \subseteq Nat
  BY ExercisesAssumption
<1> USE <1>0 DEF Tokens, TokensOfVanMeg, TokensOfRead, Counted, One, Unannounced,
                 Announced, Unlinked, Passed, BeforeFilter,
                 drafts!InParent, drafts!InChild, drafts!Guarded,
                 DraftsType, drafts!TypeOK, drafts!Names, drafts!NoSem,
                 drafts!given, drafts!page, drafts!Comes, drafts!sem_post,
                 drafts!sem_wait, drafts!filter
<1>1. CASE drafts!ChildGuard
  BY <1>1 DEF drafts!ChildGuard
<1>2. CASE drafts!ChildCount
  BY <1>2 DEF drafts!ChildCount
<1>3. CASE drafts!ChildRelease
  BY <1>3 DEF drafts!ChildRelease
<1>4. CASE drafts!ChildTurn
  BY <1>4 DEF drafts!ChildTurn
<1>5. CASE drafts!ChildRead
  BY <1>5 DEF drafts!ChildRead
<1>6. CASE drafts!ChildGive
  BY <1>6 DEF drafts!ChildGive
<1> QED
  BY <1>1, <1>2, <1>3, <1>4, <1>5, <1>6
  DEF drafts!Child

LEMMA TokensStop ==
  ASSUME exercise = "sub2_a", DraftsType, DraftsType', Tokens, drafts!Stop
  PROVE  Tokens'
<1>0. MaxStops \in Nat /\ Lines \subseteq Nat
  BY ExercisesAssumption
<1> USE <1>0 DEF Tokens, TokensOfVanMeg, TokensOfRead, Counted, One, Unannounced,
                 Announced, Unlinked, Passed, BeforeFilter,
                 drafts!InParent, drafts!InChild, drafts!Guarded,
                 DraftsType, drafts!TypeOK, drafts!Names, drafts!NoSem,
                 drafts!given, drafts!page, drafts!Goes, drafts!sem_post,
                 drafts!sem_wait, drafts!filter
<1>1. CASE drafts!ForkFails
  BY <1>1 DEF drafts!ForkFails
<1>2. CASE drafts!Kill
  BY <1>2 DEF drafts!Kill
<1> QED
  BY <1>1, <1>2
  DEF drafts!Stop

LEMMA DraftStep == Draft /\ [Next]_vars => Draft'
<1> SUFFICES ASSUME Draft, [Next]_vars, exercise \in drafts!Draft
             PROVE  Draft'
    BY ExerciseStays DEF Draft, drafts!Draft
<1>1. [drafts!Next]_(drafts!vars) /\ exercise' = exercise
  BY DraftRun, ExerciseStays
<1>2. DraftsType /\ DraftsType'
  BY <1>1, DraftsTypeStep DEF Draft
<1>3. ASSUME exercise = "sub2_a"
      PROVE  Tokens'
  <2>1. Tokens
    BY <1>3 DEF Draft
  <2>2. CASE UNCHANGED drafts!vars
    BY <2>1, <2>2
    DEF Tokens, TokensOfVanMeg, TokensOfRead, Counted, drafts!vars, drafts!Names,
        drafts!InParent, drafts!InChild, drafts!filter
  <2> QED
    BY <1>1, <1>2, <1>3, <2>1, <2>2, TokensParent, TokensChild, TokensStop
    DEF drafts!Next
<1> QED BY <1>1, <1>2, <1>3 DEF Draft

LEMMA DraftInit == Init => Draft
<1> SUFFICES ASSUME Init PROVE DraftsType /\ Tokens
    BY DEF Draft
<1>1. order_buffer \in BOOLEAN
  BY Zenon DEF Init, drafts!Init
<1>2. sems \in [drafts!Names -> Nat \cup {drafts!NoSem}]
  BY DEF Init, drafts!Init
<1>3. DraftsType
  BY <1>1, <1>2, ExercisesAssumption
  DEF Init, drafts!Init, DraftsType, drafts!TypeOK
<1>4. Tokens
  BY DEF Init, drafts!Init, Tokens, TokensOfVanMeg, TokensOfRead, Counted,
         Unannounced, Announced, Unlinked, Passed, drafts!Names, drafts!NoSem
<1> QED BY <1>3, <1>4

(***************************************************************************)
(* What gets past the semaphore of pos_szemafor.c and of szemafor.c finds  *)
(* the whole text, after any number of kills.  van_meg of sub2_a.c guards  *)
(* the number of orders in every run that did not find a permit of a       *)
(* killed one, of which each leaves at most one.                           *)
(***************************************************************************)
THEOREM SemaphoresGuardCorrect == Spec => []SemaphoresGuard
<1>1. Draft => (exercise \in drafts!Draft => drafts!CountIsGuarded)
  <2> SUFFICES ASSUME DraftsType, Tokens, exercise = "sub2_a"
               PROVE  drafts!CountIsGuarded
    BY DEF Draft, drafts!CountIsGuarded, drafts!Guarded
  <2>1. found["van_meg"] <= stops /\ found["read"] <= stops
    BY DEF Tokens, TokensOfVanMeg, TokensOfRead
  <2>2. drafts!InParent /\ drafts!InChild => found["van_meg"] > 0
    BY ExercisesAssumption
    DEF Tokens, TokensOfVanMeg, One, Announced, drafts!InParent, drafts!InChild
  <2>3. ASSUME child \in {"read", "give"}, found["read"] = 0
        PROVE  parent \in {"last", "wait"} /\ todo = count /\ count = lines
    BY <2>3, ExercisesAssumption
    DEF Tokens, Counted, BeforeFilter, Unannounced, drafts!filter
  <2>4. child \in {"read", "give"} => found["read"] = 0 \/ found["read"] > 0
    <3> SUFFICES ASSUME child \in {"read", "give"} PROVE found["read"] \in Nat
        OBVIOUS
    <3>1. parent # "off"
      BY DEF DraftsType
    <3> QED BY <3>1 DEF Tokens, TokensOfRead
  <2> QED BY <2>1, <2>2, <2>3, <2>4 DEF drafts!CountIsGuarded
<1>2. Posted /\ Draft => SemaphoresGuard
  BY <1>1, TextGuarded DEF SemaphoresGuard
<1> QED
  BY <1>2, PostedInit, PostedStep, DraftInit, DraftStep, PTL DEF Spec

-----------------------------------------------------------------------------
(***************************************************************************)
(* Tour.  What the child has written is in the pipe or has been read, in   *)
(* that order, and belongs to the tour that the parent has drawn.          *)
(***************************************************************************)
Rows == 5 * newTour.count
Cost == newTour.count * newTour.price

Asked ==
  /\ child \in {"none", "call", "read"}
  /\ toChild = <<>> /\ toParent = <<>> /\ answer = <<>>
Sent ==
  /\ newTour \in shaq_bead2!Tours
  /\ \/ /\ child \in {"call", "read"}
        /\ toChild = <<newTour>> /\ toParent = <<>> /\ answer = <<>>
     \/ /\ child \in {"rows", "price", "ready", "gone"}
        /\ toChild = <<>> /\ booked = newTour
        /\ \/ child = "rows" /\ answer = <<>> /\ toParent = <<>>
           \/ child = "price" /\ answer = <<>> /\ toParent = <<Rows>>
           \/ child = "price" /\ answer = <<Rows>> /\ toParent = <<>>
           \/ child \in {"ready", "gone"} /\ answer = <<>> /\ toParent = <<Rows, Cost>>
           \/ child \in {"ready", "gone"} /\ answer = <<Rows>> /\ toParent = <<Cost>>
           \/ child \in {"ready", "gone"} /\ answer = <<Rows, Cost>> /\ toParent = <<>>
Answered == {"answered", "paused2", "awake2", "done"}
Dialogue ==
  /\ parent \in {"off", "draw", "ready", "paused", "awake", "failed"} => Asked
  /\ parent \in {"ready", "paused", "awake"} => newTour \in shaq_bead2!Tours
  /\ parent \in {"off", "failed"} <=> child = "none"
  /\ parent \in {"read"} \cup Answered => Sent
  /\ parent = "read" => answer # <<Rows, Cost>>
  /\ parent \in Answered => answer = <<Rows, Cost>>

\* Each of the two signals is sent, is pending, and wakes somebody or not.
Wakes ==
  /\ "SIGUSR1" \in signals => child \notin {"none", "call"}
  /\ "SIGTERM" \in signals => child = "gone"
  /\ lost + (IF "SIGUSR1" \in signals THEN 1 ELSE 0)
          + (IF "SIGTERM" \in signals THEN 1 ELSE 0) <=
       CASE child \in {"none", "call"} -> 0 [] child = "gone" -> 2 [] OTHER -> 1
TourInv == shaq_bead2!TypeOK /\ Dialogue /\ Wakes
Touring == exercise = "shaq_bead2" => TourInv

LEMMA InSeq ==
  ASSUME NEW S, NEW x \in S, NEW y \in S
  PROVE  /\ <<>> \in Seq(S) /\ <<x>> \in Seq(S) /\ <<x, y>> \in Seq(S)
         /\ Len(<<x>>) = 1 /\ Len(<<x, y>>) = 2
<1>1. Append(<<>>, x) = <<x>>
  OBVIOUS
<1>2. <<x>> \in Seq(S) /\ Len(<<x>>) = 1
  BY <1>1, AppendProperties, EmptySeq
<1>3. <<x, y>> \in Seq(S) /\ Len(<<x, y>>) = 2
  OBVIOUS
<1> QED BY <1>2, <1>3, EmptySeq

LEMMA Short ==
  \A x, y : /\ Append(<<>>, x) = <<x>> /\ Append(<<x>>, y) = <<x, y>>
           /\ Head(<<x>>) = x /\ Tail(<<x>>) = <<>>
           /\ Head(<<x, y>>) = x /\ Tail(<<x, y>>) = <<y>>
           /\ <<x>> # <<>> /\ <<x, y>> # <<>> /\ <<x>> # <<x, y>>
<1> SUFFICES ASSUME NEW x, NEW y
             PROVE  /\ Append(<<>>, x) = <<x>> /\ Append(<<x>>, y) = <<x, y>>
                    /\ Head(<<x>>) = x /\ Tail(<<x>>) = <<>>
                    /\ Head(<<x, y>>) = x /\ Tail(<<x, y>>) = <<y>>
                    /\ <<x>> # <<>> /\ <<x, y>> # <<>> /\ <<x>> # <<x, y>>
    OBVIOUS
<1>1. Append(<<>>, x) = <<x>>
  OBVIOUS
<1>2. Append(<<x>>, y) = <<x, y>>
  <2>1. <<x>> \in Seq({x, y}) /\ Len(<<x>>) = 1 /\ <<x>>[1] = x
    BY InSeq
  <2>2. /\ Append(<<x>>, y) \in Seq({x, y}) /\ Len(Append(<<x>>, y)) = 2
        /\ Append(<<x>>, y)[1] = x /\ Append(<<x>>, y)[2] = y
    BY <2>1, AppendProperties
  <2>3. /\ <<x, y>> \in Seq({x, y}) /\ Len(<<x, y>>) = 2
        /\ <<x, y>>[1] = x /\ <<x, y>>[2] = y
    BY InSeq
  <2>4. \A i \in 1..2 : Append(<<x>>, y)[i] = <<x, y>>[i]
    BY <2>2, <2>3
  <2> QED BY <2>2, <2>3, <2>4, SeqEqual
<1>3. Head(<<x>>) = x /\ Head(<<x, y>>) = x
  OBVIOUS
<1>4. Tail(<<x>>) = <<>>
  <2>1. <<x>> \in Seq({x}) /\ <<x>> # <<>> /\ Len(<<x>>) = 1
    BY InSeq
  <2>2. Tail(<<x>>) \in Seq({x}) /\ Len(Tail(<<x>>)) = 0
    BY <2>1, HeadTailProperties
  <2> QED BY <2>2, EmptySeq
<1>5. Tail(<<x, y>>) = <<y>>
  OBVIOUS
<1>6. <<x>> # <<>> /\ <<x, y>> # <<>>
  OBVIOUS
<1>7. <<x>> # <<x, y>>
  OBVIOUS
<1> QED BY <1>1, <1>2, <1>3, <1>4, <1>5, <1>6, <1>7

LEMMA NatTimes == \A x, y \in Nat : x * y \in Nat
  OBVIOUS

LEMMA TourRun == exercise = "shaq_bead2" /\ [Next]_vars => [shaq_bead2!Next]_(shaq_bead2!vars)
  BY DEF gy3!Piped, gy2!Demo, drafts!Draft, Next, Parent, Child, Deliver, Stop,
         Toured, shaq_bead2!Next, shaq_bead2!vars, vars, procs, tourVars,
         shaq_bead2!pipes, shaq_bead2!data

LEMMA DialogueParent ==
  ASSUME shaq_bead2!TypeOK, Dialogue, shaq_bead2!Parent
  PROVE  Dialogue'
<1> USE DEF Dialogue, Asked, Sent, Answered, shaq_bead2!TypeOK,
            shaq_bead2!pipes, shaq_bead2!data
<1>1. CASE shaq_bead2!Draw
  BY <1>1 DEF shaq_bead2!Draw
<1>2. ASSUME UNCHANGED newTour
      PROVE  Dialogue'
  <2>1. Rows' = Rows /\ Cost' = Cost
    BY <1>2 DEF Rows, Cost
  <2>2. CASE shaq_bead2!Fork \/ shaq_bead2!Pause \/ shaq_bead2!Wait
    BY <1>2, <2>1, <2>2 DEF shaq_bead2!Fork, shaq_bead2!Pause, shaq_bead2!Wait
  <2>3. CASE shaq_bead2!WriteTour
    BY <1>2, <2>1, <2>3, Short DEF shaq_bead2!WriteTour
  <2>4. CASE shaq_bead2!ReadAnswer
    <3>0. parent = "read" /\ Sent /\ toParent # <<>>
      BY <2>4 DEF shaq_bead2!ReadAnswer
    <3>1. CASE answer = <<>> /\ toParent = <<Rows>>
      <4>1. answer' = <<Rows>> /\ toParent' = <<>> /\ parent' = "read"
        BY <2>4, <3>1, Short DEF shaq_bead2!ReadAnswer
      <4> QED BY <1>2, <2>1, <2>4, <3>0, <3>1, <4>1, Short DEF shaq_bead2!ReadAnswer
    <3>2. CASE answer = <<>> /\ toParent = <<Rows, Cost>>
      <4>1. answer' = <<Rows>> /\ toParent' = <<Cost>> /\ parent' = "read"
        BY <2>4, <3>2, Short DEF shaq_bead2!ReadAnswer
      <4> QED BY <1>2, <2>1, <2>4, <3>0, <3>2, <4>1, Short DEF shaq_bead2!ReadAnswer
    <3>3. CASE answer = <<Rows>> /\ toParent = <<Cost>>
      <4>1. answer' = <<Rows, Cost>> /\ toParent' = <<>> /\ parent' = "answered"
        BY <2>4, <3>3, Short DEF shaq_bead2!ReadAnswer
      <4> QED BY <1>2, <2>1, <2>4, <3>0, <3>3, <4>1, Short DEF shaq_bead2!ReadAnswer
    <3> QED BY <3>0, <3>1, <3>2, <3>3
  <2> QED BY <1>2, <2>2, <2>3, <2>4, <1>1 DEF shaq_bead2!Parent
<1> QED
  BY <1>1, <1>2
  DEF shaq_bead2!Parent, shaq_bead2!Fork, shaq_bead2!Pause, shaq_bead2!Wait,
      shaq_bead2!WriteTour, shaq_bead2!ReadAnswer

LEMMA DialogueChild ==
  ASSUME shaq_bead2!TypeOK, Dialogue, shaq_bead2!Child
  PROVE  Dialogue'
<1> USE DEF Dialogue, Asked, Sent, Answered, shaq_bead2!TypeOK,
            shaq_bead2!pipes, shaq_bead2!data
<1>1. UNCHANGED newTour /\ Rows' = Rows /\ Cost' = Cost
  BY DEF Rows, Cost, shaq_bead2!Child, shaq_bead2!Call, shaq_bead2!ReadTour,
         shaq_bead2!WriteRows, shaq_bead2!WritePrice, shaq_bead2!Report
<1>2. CASE shaq_bead2!Call \/ shaq_bead2!Report
  BY <1>1, <1>2 DEF shaq_bead2!Call, shaq_bead2!Report
<1>3. CASE shaq_bead2!ReadTour
  BY <1>1, <1>3, Short DEF shaq_bead2!ReadTour
<1>4. CASE shaq_bead2!WriteRows
  <2>1. toParent' = <<Rows>>
    BY <1>4, Short DEF shaq_bead2!WriteRows, Rows
  <2> QED BY <1>1, <1>4, <2>1, Short DEF shaq_bead2!WriteRows
<1>5. CASE shaq_bead2!WritePrice
  <2>1. toParent' = Append(toParent, Cost)
    BY <1>5 DEF shaq_bead2!WritePrice, Cost
  <2> QED BY <1>1, <1>5, <2>1, Short DEF shaq_bead2!WritePrice
<1> QED
  BY <1>2, <1>3, <1>4, <1>5 DEF shaq_bead2!Child

LEMMA WakesStep ==
  ASSUME shaq_bead2!TypeOK, Dialogue, Wakes, [shaq_bead2!Next]_(shaq_bead2!vars)
  PROVE  Wakes'
<1> USE DEF Wakes, shaq_bead2!TypeOK, shaq_bead2!Signal
<1>1. CASE shaq_bead2!Parent
  BY <1>1
  DEF Dialogue, shaq_bead2!Parent, shaq_bead2!Fork, shaq_bead2!Pause,
      shaq_bead2!Wait, shaq_bead2!Draw, shaq_bead2!WriteTour,
      shaq_bead2!ReadAnswer
<1>2. CASE shaq_bead2!Child
  BY <1>2
  DEF shaq_bead2!Child, shaq_bead2!Call, shaq_bead2!ReadTour,
      shaq_bead2!WriteRows, shaq_bead2!WritePrice, shaq_bead2!Report
<1>3. CASE shaq_bead2!Handler
  BY <1>3 DEF shaq_bead2!Handler
<1>4. CASE shaq_bead2!ForkFails \/ UNCHANGED shaq_bead2!vars
  BY <1>4 DEF shaq_bead2!ForkFails, shaq_bead2!vars
<1> QED
  BY <1>1, <1>2, <1>3, <1>4 DEF shaq_bead2!Next

LEMMA TourTypeStep == TourInv /\ [shaq_bead2!Next]_(shaq_bead2!vars) => TourInv'
<1> SUFFICES ASSUME TourInv, [shaq_bead2!Next]_(shaq_bead2!vars)
             PROVE  TourInv'
    OBVIOUS
<1> USE DEF TourInv
<1>1. Dialogue'
  <2>1. CASE shaq_bead2!Handler
    BY <2>1 DEF shaq_bead2!Handler, Dialogue, Asked, Sent, Answered, Rows, Cost,
                shaq_bead2!pipes, shaq_bead2!data
  <2>2. CASE shaq_bead2!ForkFails
    BY <2>2 DEF shaq_bead2!ForkFails, Dialogue, Asked, Answered,
                shaq_bead2!pipes, shaq_bead2!data
  <2>3. CASE UNCHANGED shaq_bead2!vars
    BY <2>3 DEF shaq_bead2!vars, Dialogue, Asked, Sent, Answered, Rows, Cost,
                shaq_bead2!pipes, shaq_bead2!data
  <2> QED
    BY <2>1, <2>2, <2>3, DialogueParent, DialogueChild DEF shaq_bead2!Next
<1>2. Wakes'
  BY WakesStep
<1>3. shaq_bead2!TypeOK'
  <2> USE DEF shaq_bead2!Next, shaq_bead2!vars, shaq_bead2!pipes,
              shaq_bead2!data, shaq_bead2!Parent, shaq_bead2!Fork,
              shaq_bead2!Pause, shaq_bead2!Wait, shaq_bead2!Draw,
              shaq_bead2!WriteTour, shaq_bead2!ReadAnswer, shaq_bead2!Child,
              shaq_bead2!Call, shaq_bead2!ReadTour, shaq_bead2!WriteRows,
              shaq_bead2!WritePrice, shaq_bead2!Report, shaq_bead2!Handler,
              shaq_bead2!ForkFails
  <2>1. /\ parent' \in {"off", "draw", "ready", "paused", "awake", "read",
                       "answered", "paused2", "awake2", "done", "failed"}
        /\ child' \in {"none", "call", "read", "rows", "price", "ready", "gone"}
        /\ signals' \subseteq shaq_bead2!Signal
    BY DEF shaq_bead2!TypeOK, shaq_bead2!Signal
  <2>2. lost' \in 0..2
    <3>1. lost' \in Nat
      BY DEF shaq_bead2!TypeOK
    <3>2. lost' <= 2
      BY <1>2, <3>1 DEF Wakes
    <3> QED BY <3>1, <3>2
  <2>3. /\ newTour' \in shaq_bead2!Tours \cup {shaq_bead2!NoTour}
        /\ booked' \in shaq_bead2!Tours \cup {shaq_bead2!NoTour}
    BY DEF shaq_bead2!TypeOK, Dialogue, Asked, Sent, Answered
  <2>4. toChild' \in Seq(shaq_bead2!Tours)
    <3>1. Asked' \/ Sent'
      BY <1>1, <2>1 DEF Dialogue, Answered
    <3>2. \/ toChild' = <<>>
          \/ newTour' \in shaq_bead2!Tours /\ toChild' = <<newTour'>>
      BY <3>1 DEF Asked, Sent
    <3> QED BY <3>2, InSeq, EmptySeq
  <2>5. toParent' \in Seq(Nat) /\ answer' \in Seq(Nat)
    <3>1. CASE toParent' = <<>> /\ answer' = <<>>
      BY <3>1, EmptySeq
    <3>2. CASE newTour' \in shaq_bead2!Tours
      <4>1. Rows' \in Nat /\ Cost' \in Nat
        BY <3>2, NatTimes, ExercisesAssumption DEF shaq_bead2!Tours, Rows, Cost
      <4>2. /\ toParent' \in {<<>>, <<Rows'>>, <<Cost'>>, <<Rows', Cost'>>}
            /\ answer' \in {<<>>, <<Rows'>>, <<Rows', Cost'>>}
        BY <1>1, <2>1 DEF Dialogue, Asked, Sent, Answered
      <4> QED BY <4>1, <4>2, InSeq, EmptySeq
    <3> QED BY <1>1, <2>1, <3>1, <3>2 DEF Dialogue, Asked, Sent, Answered
  <2> QED BY <2>1, <2>2, <2>3, <2>4, <2>5 DEF shaq_bead2!TypeOK
<1> QED BY <1>1, <1>2, <1>3

LEMMA TouringStep == Touring /\ [Next]_vars => Touring'
  BY ExerciseStays, TourRun, TourTypeStep DEF Touring

LEMMA TouringInit == Init => Touring
<1> SUFFICES ASSUME Init PROVE TourInv
    BY DEF Touring
<1>1. shaq_bead2!TypeOK
  BY EmptySeq DEF Init, shaq_bead2!Init, shaq_bead2!TypeOK, shaq_bead2!Signal
<1>2. Dialogue /\ Wakes
  BY DEF Init, shaq_bead2!Init, Dialogue, Asked, Answered, Wakes
<1> QED BY <1>1, <1>2 DEF TourInv

\* The parent of shaq-bead2.c prints the answer to its own tour.
THEOREM AnswerFitsCorrect == Spec => []AnswerFits
<1>1. Touring => AnswerFits
  BY DEF Touring, TourInv, Dialogue, Answered, Rows, Cost, AnswerFits,
         shaq_bead2!AnswerFits
<1> QED
  BY <1>1, TouringInit, TouringStep, PTL DEF Spec

-----------------------------------------------------------------------------
(***************************************************************************)
(* FileLock, for the program that locks and for the one that does not.     *)
(***************************************************************************)
Writing ==
  /\ exercise = "fcntl" => lock!IInv /\ lock!TextInv
  /\ exercise = "fcntl_0" => free!TextInv

LEMMA LockRun == exercise = "fcntl" /\ [Next]_vars => [lock!Next]_(lock!vars)
<1> SUFFICES ASSUME exercise = "fcntl", [Next]_vars
             PROVE  [lock!Next]_(lock!vars)
    OBVIOUS
<1>1. fcntl!Parent \/ fcntl!Child \/ fcntl!Stop \/ UNCHANGED vars
  BY DEF gy2!Demo, gy3!Piped, drafts!Draft, Next, Parent, Child, Deliver, Stop,
         Filed
<1>2. CASE fcntl!Parent \/ fcntl!Child \/ fcntl!Stop
  BY <1>2
  DEF fcntl!Parent, lock!Parent, fcntl!Child, lock!Child, fcntl!Stop,
      lock!Stop, fcntl!Open, lock!Open, fcntl!Fork, lock!Fork,
      fcntl!Writer, lock!Writer, fcntl!Lock, lock!Lock, fcntl!Write,
      lock!Write, fcntl!Unlock, lock!Unlock, fcntl!Leave, lock!Leave,
      fcntl!WaitChild, lock!WaitChild, fcntl!ForkFails, lock!ForkFails,
      fcntl!LockFails, lock!LockFails, fcntl!Kill, lock!Kill, fcntl!Moves,
      lock!Moves, fcntl!At, lock!At, fcntl!Process, lock!Process,
      fcntl!Newline, lock!Newline, lock!Next
<1>3. CASE UNCHANGED vars
  BY <1>3 DEF vars, procs, lockVars, lock!vars
<1> QED BY <1>1, <1>2, <1>3

LEMMA FreeRun == exercise = "fcntl_0" /\ [Next]_vars => [free!Next]_(free!vars)
<1> SUFFICES ASSUME exercise = "fcntl_0", [Next]_vars
             PROVE  [free!Next]_(free!vars)
    OBVIOUS
<1>1. fcntl_0!Parent \/ fcntl_0!Child \/ fcntl_0!Stop \/ UNCHANGED vars
  BY DEF gy2!Demo, gy3!Piped, drafts!Draft, Next, Parent, Child, Deliver, Stop,
         Filed
<1>2. CASE fcntl_0!Parent \/ fcntl_0!Child \/ fcntl_0!Stop
  BY <1>2
  DEF fcntl_0!Parent, free!Parent, fcntl_0!Child, free!Child,
      fcntl_0!Stop, free!Stop, fcntl_0!Open, free!Open, fcntl_0!Fork,
      free!Fork, fcntl_0!Writer, free!Writer, fcntl_0!Lock, free!Lock,
      fcntl_0!Write, free!Write, fcntl_0!Unlock, free!Unlock,
      fcntl_0!Leave, free!Leave, fcntl_0!WaitChild, free!WaitChild,
      fcntl_0!ForkFails, free!ForkFails, fcntl_0!LockFails,
      free!LockFails, fcntl_0!Kill, free!Kill, fcntl_0!Moves, free!Moves,
      fcntl_0!At, free!At, fcntl_0!Process, free!Process, fcntl_0!Newline,
      free!Newline, free!Next
<1>3. CASE UNCHANGED vars
  BY <1>3 DEF vars, procs, lockVars, free!vars
<1> QED BY <1>1, <1>2, <1>3

LEMMA WritingStep == Writing /\ [Next]_vars => Writing'
<1>0. Length \in Nat /\ Rounds \in Nat
  BY ExercisesAssumption
<1>1. ASSUME exercise = "fcntl", lock!IInv, lock!TextInv, [Next]_vars
      PROVE  lock!IInv' /\ lock!TextInv'
  <2>1. [lock!Next]_(lock!vars)
    BY <1>1, LockRun
  <2>2. lock!TextInv'
    BY <1>0, <1>1, <2>1, lock!TextStep
  <2>3. lock!Held' /\ lock!EndKnown' /\ lock!Whole(file')
    BY <1>0, <1>1, <2>1, lock!HeldStep, lock!EndStep DEF lock!IInv
  <2> QED BY <2>2, <2>3 DEF lock!IInv, lock!TextInv, lock!Whole, lock!Follows
<1>2. ASSUME exercise = "fcntl_0", free!TextInv, [Next]_vars
      PROVE  free!TextInv'
  BY <1>0, <1>2, FreeRun, free!TextStep
<1> QED BY <1>1, <1>2, ExerciseStays DEF Writing

LEMMA WritingInit == Init => Writing
<1> SUFFICES ASSUME Init PROVE Writing
    OBVIOUS
<1>0. Length \in Nat /\ Rounds \in Nat
  BY ExercisesAssumption
<1>1. lock!Init /\ free!Init
  BY DEF Init, fcntl!Init, lock!Init, free!Init, fcntl!Process, lock!Process,
         free!Process
<1>2. lock!TextInv /\ free!TextInv
  BY <1>0, <1>1, lock!TextInit, free!TextInit
<1>3. lock!Held /\ lock!EndKnown /\ lock!Whole(file)
  BY <1>1, EmptySeq DEF lock!Init, lock!Held, lock!EndKnown, lock!Whole, lock!At, lock!Process
<1> QED BY <1>2, <1>3 DEF Writing, lock!IInv, lock!TextInv

(***************************************************************************)
(* The lock of fcntl.c keeps the lines whole, and with or without it each  *)
(* process finds its own characters in order.                              *)
(***************************************************************************)
THEOREM LinesWholeCorrect == Spec => []LinesWhole
<1>1. Writing => LinesWhole
  <2>0. Length \in Nat /\ Rounds \in Nat
    BY ExercisesAssumption
  <2>1. ASSUME Writing, exercise = "fcntl"
        PROVE  fcntl!LinesWhole /\ fcntl!TextsComplete
    <3>1. lock!TextsComplete
      BY <2>0, <2>1, lock!TextDone DEF Writing
    <3> QED
      BY <2>1, <3>1
      DEF Writing, lock!IInv, lock!Whole, lock!Follows, lock!Newline,
          lock!TextsComplete, lock!Neighbours, fcntl!LinesWhole, fcntl!Follows,
          fcntl!Newline, fcntl!TextsComplete, fcntl!Neighbours
  <2>2. ASSUME Writing, exercise = "fcntl_0"
        PROVE  fcntl_0!TextsComplete
    <3>1. free!TextsComplete
      BY <2>0, <2>2, free!TextDone DEF Writing
    <3> QED
      BY <3>1
      DEF free!TextsComplete, free!Neighbours, free!Newline,
          fcntl_0!TextsComplete, fcntl_0!Neighbours, fcntl_0!Newline
  <2> QED BY <2>1, <2>2 DEF LinesWhole
<1> QED
  BY <1>1, WritingInit, WritingStep, PTL DEF Spec

-----------------------------------------------------------------------------
(***************************************************************************)
(* Queues.  What is in the queue of mq_uzenet1.c, and of uzenet.c in its   *)
(* first run, is what was sent and not yet received, in that order.        *)
(***************************************************************************)
Without(q, k) == SubSeq(q, 1, k - 1) \o SubSeq(q, k + 1, Len(q))

LEMMA WithoutSeq ==
  ASSUME NEW S, NEW q \in Seq(S), NEW k \in 1..Len(q)
  PROVE  /\ Without(q, k) \in Seq(S) /\ Len(Without(q, k)) = Len(q) - 1
         /\ \A i \in 1..Len(q) - 1 :
              Without(q, k)[i] = IF i < k THEN q[i] ELSE q[i + 1]
<1> DEFINE a == SubSeq(q, 1, k - 1)
           b == SubSeq(q, k + 1, Len(q))
<1>1. PICK n \in Nat : n = Len(q)
  BY LenProperties
<1>2. k \in 1..n
  BY <1>1
<1>3. /\ a \in Seq(S) /\ Len(a) = k - 1
      /\ \A i \in 1..k - 1 : a[i] = q[i]
  BY <1>1, <1>2, SubSeqProperties
<1>4. /\ b \in Seq(S) /\ Len(b) = n - k
      /\ \A i \in 1..n - k : b[i] = q[k + i]
  BY <1>1, <1>2, SubSeqProperties
<1>5. /\ a \o b \in Seq(S) /\ Len(a \o b) = n - 1
      /\ \A i \in 1..n - 1 :
           (a \o b)[i] = IF i <= k - 1 THEN a[i] ELSE b[i - (k - 1)]
  <2> HIDE DEF a, b
  <2>1. /\ a \o b \in Seq(S) /\ Len(a \o b) = Len(a) + Len(b)
        /\ \A i \in 1..Len(a) + Len(b) :
             (a \o b)[i] = IF i <= Len(a) THEN a[i] ELSE b[i - Len(a)]
    BY <1>3, <1>4, ConcatProperties
  <2>2. Len(a) + Len(b) = n - 1
    BY <1>2, <1>3, <1>4
  <2> QED BY <1>3, <2>1, <2>2
<1>6. ASSUME NEW i \in 1..n - 1
      PROVE  (a \o b)[i] = IF i < k THEN q[i] ELSE q[i + 1]
  <2> HIDE DEF a, b
  <2>1. CASE i < k
    BY <1>2, <1>3, <1>5, <2>1
  <2>2. CASE ~(i < k)
    <3>1. i - (k - 1) \in 1..n - k /\ k + (i - (k - 1)) = i + 1 /\ ~(i <= k - 1)
      BY <1>2, <2>2
    <3> QED BY <1>4, <1>5, <2>2, <3>1
  <2> QED BY <2>1, <2>2
<1> QED BY <1>1, <1>5, <1>6 DEF Without

LEMMA WithoutShort ==
  ASSUME NEW S, NEW x \in S, NEW y \in S
  PROVE  /\ Without(<<x>>, 1) = <<>>
         /\ Without(<<x, y>>, 1) = <<y>> /\ Without(<<x, y>>, 2) = <<x>>
<1> DEFINE p == <<x, y>>
<1>1. /\ <<x>> \in Seq(S) /\ Len(<<x>>) = 1 /\ <<x>>[1] = x
      /\ <<y>> \in Seq(S) /\ Len(<<y>>) = 1 /\ <<y>>[1] = y
      /\ p \in Seq(S) /\ Len(p) = 2 /\ p[1] = x /\ p[2] = y
  BY InSeq
<1> HIDE DEF p
<1>2. Without(<<x>>, 1) = <<>>
  <2> DEFINE q == <<x>>
  <2>1. q \in Seq(S) /\ Len(q) = 1
    BY <1>1
  <2> HIDE DEF q
  <2>2. 1 \in 1..Len(q)
    BY <2>1
  <2>3. Without(q, 1) \in Seq(S) /\ Len(Without(q, 1)) = Len(q) - 1
    BY <2>1, <2>2, WithoutSeq
  <2>4. Without(q, 1) = <<>>
    BY <2>1, <2>3, EmptySeq
  <2> QED BY <2>4 DEF q
<1>3. 1 \in 1..Len(p) /\ 2 \in 1..Len(p) /\ 1 \in 1..Len(p) - 1
  BY <1>1
<1>4. \A k \in 1..2 : /\ Without(p, k) \in Seq(S) /\ Len(Without(p, k)) = 1
                      /\ Without(p, k)[1] = IF 1 < k THEN p[1] ELSE p[1 + 1]
  <2> SUFFICES ASSUME NEW k \in 1..2
               PROVE  /\ Without(p, k) \in Seq(S) /\ Len(Without(p, k)) = 1
                      /\ Without(p, k)[1] = IF 1 < k THEN p[1] ELSE p[1 + 1]
    OBVIOUS
  <2>1. k \in 1..Len(p)
    BY <1>1
  <2>2. /\ Without(p, k) \in Seq(S) /\ Len(Without(p, k)) = Len(p) - 1
        /\ \A i \in 1..Len(p) - 1 :
             Without(p, k)[i] = IF i < k THEN p[i] ELSE p[i + 1]
    BY <1>1, <2>1, WithoutSeq
  <2> QED BY <1>1, <1>3, <2>2
<1>5. Without(p, 1) = <<y>>
  <2>1. \A i \in 1..1 : Without(p, 1)[i] = <<y>>[i]
    BY <1>1, <1>4
  <2>2. Without(p, 1) \in Seq(S) /\ Len(Without(p, 1)) = 1
    BY <1>4
  <2> QED BY <1>1, <2>1, <2>2, SeqEqual
<1>6. Without(p, 2) = <<x>>
  <2>1. \A i \in 1..1 : Without(p, 2)[i] = <<x>>[i]
    BY <1>1, <1>4
  <2>2. Without(p, 2) \in Seq(S) /\ Len(Without(p, 2)) = 1
    BY <1>4
  <2> QED BY <1>1, <2>1, <2>2, SeqEqual
<1> QED BY <1>2, <1>5, <1>6 DEF p

Fresh == sent = <<>> /\ received = <<>>
Old   == queue \in Seq({5, 4})

\* mq_uzenet1.c.
PosixInv ==
  /\ stops \in 0..MaxStops
  /\ \/ parent = "off" /\ child = "none" /\ Fresh /\ (Old \/ queue = <<0>>)
     \/ parent = "fork" /\ child = "none" /\ Fresh /\ queue = <<>>
     \/ parent = "forkless" /\ child = "receive" /\ Fresh /\ queue = <<>>
     \/ /\ parent = "send" /\ child = "receive"
        /\ \/ Fresh /\ queue = <<>>
           \/ sent = <<5>> /\ received = <<>> /\ queue = <<5>>
           \/ sent = <<5>> /\ received = <<5>> /\ queue = <<>>
     \/ /\ parent = "wait" /\ sent = <<5, 4>>
        /\ \/ child = "receive" /\ received = <<>> /\ queue = <<5, 4>>
           \/ child = "receive" /\ received = <<5>> /\ queue = <<4>>
           \/ child = "end" /\ received = <<5, 4>> /\ queue = <<>>
     \/ /\ parent = "done" /\ child = "end" /\ queue = <<0>>
        /\ sent = <<5, 4>> /\ received = <<5, 4>>

\* uzenet.c, whose queue may hold a letter of a run that was killed.
SystemVInv ==
  /\ stops \in 0..MaxStops
  /\ \/ /\ parent = "off" /\ child = "none" /\ Fresh
        /\ Old \/ queue = <<0>>
        /\ stops = 0 => queue = <<0>>
     \/ /\ parent = "fork" /\ child = "none" /\ Fresh /\ Old
        /\ stops = 0 => queue = <<>>
     \/ /\ parent = "send" /\ sent = <<>> /\ Old
        /\ \/ child = "receive" /\ received = <<>>
           \/ child = "end" /\ stops > 0 /\ \E x \in {5, 4} : received = <<x>>
        /\ stops = 0 => queue = <<>>
     \/ /\ parent = "wait" /\ sent = <<5>> /\ Old
        /\ \/ child = "receive" /\ received = <<>> /\ (stops = 0 => queue = <<5>>)
           \/ /\ child = "end" /\ \E x \in {5, 4} : received = <<x>>
              /\ stops = 0 => received = <<5>>
     \/ /\ parent = "done" /\ child = "end" /\ sent = <<5>> /\ queue = <<0>>
        /\ \E x \in {5, 4} : received = <<x>>
        /\ stops = 0 => received = <<5>>
Mailed ==
  /\ exercise = "uzenet" => SystemVInv
  /\ exercise = "mq_uzenet1" => PosixInv

LEMMA PosixRun == exercise = "mq_uzenet1" /\ [Next]_vars => [mq_uzenet1!Next]_(mq_uzenet1!vars)
  BY DEF gy2!Demo, gy3!Piped, drafts!Draft, Next, Parent, Child, Deliver, Stop,
         Queued, mq_uzenet1!Next, mq_uzenet1!vars, vars, procs, queueVars

LEMMA SystemVRun == exercise = "uzenet" /\ [Next]_vars => [uzenet!Next]_(uzenet!vars)
  BY DEF gy2!Demo, gy3!Piped, drafts!Draft, Next, Parent, Child, Deliver, Stop,
         Queued, uzenet!Next, uzenet!vars, vars, procs, queueVars

LEMMA FiveFour ==
  /\ <<5, 4>> # <<0>> /\ <<5>> # <<0>> /\ <<4>> # <<0>> /\ <<>> # <<0>>
  /\ Len(<<5>>) = 1 /\ Len(<<4>>) = 1 /\ Len(<<5, 4>>) = 2
  /\ <<5>>[1] = 5 /\ <<4>>[1] = 4 /\ <<5, 4>>[1] = 5 /\ <<5, 4>>[2] = 4
  /\ Append(<<>>, 5) = <<5>> /\ Append(<<5>>, 4) = <<5, 4>>
  /\ Without(<<5>>, 1) = <<>> /\ Without(<<4>>, 1) = <<>>
  /\ Without(<<5, 4>>, 1) = <<4>>
  /\ <<>> \in Seq({5, 4}) /\ <<5>> \in Seq({5, 4}) /\ <<4>> \in Seq({5, 4})
  /\ <<5, 4>> \in Seq({5, 4})
<1>1. 5 \in {5, 4} /\ 4 \in {5, 4}
  OBVIOUS
<1>2. /\ Without(<<5>>, 1) = <<>> /\ Without(<<4>>, 1) = <<>>
      /\ Without(<<5, 4>>, 1) = <<4>>
  BY <1>1, WithoutShort
<1>3. /\ <<>> \in Seq({5, 4}) /\ <<5>> \in Seq({5, 4}) /\ <<4>> \in Seq({5, 4})
      /\ <<5, 4>> \in Seq({5, 4})
      /\ Len(<<5>>) = 1 /\ Len(<<4>>) = 1 /\ Len(<<5, 4>>) = 2
  BY <1>1, InSeq
<1>4. Append(<<>>, 5) = <<5>> /\ Append(<<5>>, 4) = <<5, 4>>
  BY Short
<1>5. /\ <<5, 4>> # <<0>> /\ <<5>> # <<0>> /\ <<4>> # <<0>> /\ <<>> # <<0>>
      /\ <<5>>[1] = 5 /\ <<4>>[1] = 4 /\ <<5, 4>>[1] = 5 /\ <<5, 4>>[2] = 4
  OBVIOUS
<1> QED BY <1>2, <1>3, <1>4, <1>5

LEMMA PosixSend ==
  ASSUME PosixInv, mq_uzenet1!Send
  PROVE  PosixInv' /\ mq_uzenet1!Box!Next
<1>0. parent = "send" /\ mq_uzenet1!Letters = <<5, 4>>
  BY DEF mq_uzenet1!Send, mq_uzenet1!Letters
<1>1. CASE sent = <<>>
  <2>1. /\ Fresh /\ queue = <<>> /\ sent' = <<5>> /\ queue' = <<5>>
        /\ parent' = "send"
    BY <1>0, <1>1, FiveFour, EmptySeq DEF PosixInv, Fresh, mq_uzenet1!Send
  <2>2. sent' = Append(sent, 5) /\ received' = received
    BY <1>1, <2>1, FiveFour DEF mq_uzenet1!Send
  <2>3. mq_uzenet1!Box!Next
    BY <2>2 DEF mq_uzenet1!Box!Next, mq_uzenet1!Box!Put, mq_uzenet1!Letter
  <2> QED BY <1>0, <2>1, <2>2, <2>3 DEF PosixInv, Fresh, mq_uzenet1!Send
<1>2. CASE sent # <<>>
  <2>1. /\ sent = <<5>> /\ sent' = <<5, 4>> /\ parent' = "wait"
        /\ queue' = Append(queue, 4)
    BY <1>0, <1>2, FiveFour DEF PosixInv, Fresh, mq_uzenet1!Send
  <2>2. sent' = Append(sent, 4) /\ received' = received
    BY <2>1, FiveFour DEF mq_uzenet1!Send
  <2>3. mq_uzenet1!Box!Next
    BY <2>2 DEF mq_uzenet1!Box!Next, mq_uzenet1!Box!Put, mq_uzenet1!Letter
  <2>4. \/ received = <<>> /\ queue' = <<5, 4>>
        \/ received = <<5>> /\ queue' = <<4>>
    BY <1>0, <1>2, <2>1, FiveFour, Short DEF PosixInv, Fresh
  <2> QED BY <1>0, <2>1, <2>2, <2>3, <2>4 DEF PosixInv, mq_uzenet1!Send
<1> QED BY <1>1, <1>2

LEMMA PosixReceive ==
  ASSUME PosixInv, mq_uzenet1!Receive
  PROVE  PosixInv' /\ mq_uzenet1!Box!Next
<1>0. mq_uzenet1!Letters = <<5, 4>> /\ child = "receive"
  BY DEF mq_uzenet1!Receive, mq_uzenet1!Letters
<1>1. PICK k \in DOMAIN queue : /\ mq_uzenet1!First(k)
                               /\ received' = Append(received, queue[k])
                               /\ queue' = Without(queue, k)
  BY DEF mq_uzenet1!Receive, Without
<1>2. UNCHANGED <<parent, sent, stops>>
  BY DEF mq_uzenet1!Receive
<1>3. CASE queue = <<5>> /\ received = <<>> /\ sent = <<5>>
  <2>1. k = 1 /\ received' = <<5>> /\ queue' = <<>>
    BY <1>1, <1>3, FiveFour
  <2>2. mq_uzenet1!Box!Next
    BY <1>2, <1>3, <2>1, FiveFour, EmptySeq
    DEF mq_uzenet1!Box!Next, mq_uzenet1!Box!Take
  <2> QED BY <1>0, <1>2, <1>3, <2>1, <2>2, FiveFour
          DEF PosixInv, Fresh, mq_uzenet1!Receive
<1>4. CASE queue = <<5, 4>> /\ received = <<>> /\ sent = <<5, 4>>
  <2>1. k = 1
    BY <1>1, <1>4, FiveFour DEF mq_uzenet1!First
  <2>2. received' = <<5>> /\ queue' = <<4>>
    BY <1>1, <1>4, <2>1, FiveFour
  <2>3. mq_uzenet1!Box!Next
    BY <1>2, <1>4, <2>2, FiveFour, EmptySeq
    DEF mq_uzenet1!Box!Next, mq_uzenet1!Box!Take
  <2>4. child' = "receive"
    BY <1>0, <2>2, FiveFour DEF mq_uzenet1!Receive
  <2>5. parent = "wait" /\ stops \in 0..MaxStops
    BY <1>4, FiveFour DEF PosixInv, Fresh
  <2> QED BY <1>2, <1>4, <2>2, <2>3, <2>4, <2>5 DEF PosixInv
<1>5. CASE queue = <<4>> /\ received = <<5>> /\ sent = <<5, 4>>
  <2>1. k = 1 /\ received' = <<5, 4>> /\ queue' = <<>>
    BY <1>1, <1>5, FiveFour
  <2>2. mq_uzenet1!Box!Next
    BY <1>2, <1>5, <2>1, FiveFour
    DEF mq_uzenet1!Box!Next, mq_uzenet1!Box!Take
  <2> QED BY <1>0, <1>2, <1>5, <2>1, <2>2, FiveFour
          DEF PosixInv, Fresh, mq_uzenet1!Receive
<1>6. queue # <<>>
  BY <1>1, EmptySeq
<1> QED BY <1>0, <1>3, <1>4, <1>5, <1>6 DEF PosixInv, Fresh

LEMMA PosixStep ==
  ASSUME PosixInv, [mq_uzenet1!Next]_(mq_uzenet1!vars)
  PROVE  PosixInv' /\ [mq_uzenet1!HandsOver]_<<sent, received>>
<1>0. MaxStops \in Nat /\ stops \in 0..MaxStops
  BY ExercisesAssumption DEF PosixInv
<1>1. CASE mq_uzenet1!Send \/ mq_uzenet1!Receive
  BY <1>1, PosixSend, PosixReceive DEF mq_uzenet1!HandsOver
<1>2. CASE mq_uzenet1!Open \/ mq_uzenet1!Fork \/ mq_uzenet1!Remove
  BY <1>2, FiveFour DEF PosixInv, Fresh, mq_uzenet1!Open, mq_uzenet1!Fork,
                        mq_uzenet1!Remove, mq_uzenet1!NoQueue
<1>3. CASE mq_uzenet1!ForkFails
  BY <1>0, <1>3 DEF PosixInv, Fresh, mq_uzenet1!ForkFails
<1>4. CASE mq_uzenet1!Kill
  <2>1. PosixInv'
    <3>1. Old'
      BY <1>4, FiveFour DEF PosixInv, Old, mq_uzenet1!Kill
    <3> QED BY <1>0, <1>4, <3>1 DEF PosixInv, Fresh, mq_uzenet1!Kill
  <2>2. mq_uzenet1!Box!Next
    BY <1>4 DEF mq_uzenet1!Kill, mq_uzenet1!Box!Next, mq_uzenet1!Box!Restart
  <2> QED BY <2>1, <2>2 DEF mq_uzenet1!HandsOver
<1>5. CASE UNCHANGED mq_uzenet1!vars
  BY <1>5 DEF mq_uzenet1!vars, PosixInv, Fresh, Old
<1> QED
  BY <1>1, <1>2, <1>3, <1>4, <1>5
  DEF mq_uzenet1!Next, mq_uzenet1!Parent, mq_uzenet1!Child, mq_uzenet1!Stop

LEMMA SystemVReceive ==
  ASSUME SystemVInv, uzenet!Receive
  PROVE  SystemVInv' /\ uzenet!HandsOver
<1>0. uzenet!Letters = <<5>> /\ child = "receive" /\ stops \in 0..MaxStops
  BY DEF uzenet!Receive, uzenet!Letters, SystemVInv
<1>1. PICK k \in DOMAIN queue : /\ received' = Append(received, queue[k])
                               /\ queue' = Without(queue, k)
  BY DEF uzenet!Receive, Without
<1>2. UNCHANGED <<parent, sent, stops>>
  BY DEF uzenet!Receive
<1>3. /\ parent \in {"send", "wait"} /\ Old /\ received = <<>>
      /\ sent = IF parent = "send" THEN <<>> ELSE <<5>>
      /\ stops = 0 => parent = "wait" /\ queue = <<5>>
  <2>1. queue # <<>>
    BY <1>1, EmptySeq
  <2> QED BY <1>0, <1>1, <2>1, EmptySeq DEF SystemVInv, Fresh
<1>4. queue[k] \in {5, 4} /\ k \in 1..Len(queue)
  BY <1>1, <1>3, ElementOfSeq, LenProperties DEF Old
<1>5. received' = <<queue[k]>> /\ Len(received') = 1
  BY <1>1, <1>3, Short, InSeq
<1>6. child' = "end"
  BY <1>0, <1>5, FiveFour DEF uzenet!Receive
<1>7. Old'
  BY <1>1, <1>3, <1>4, WithoutSeq DEF Old
<1>8. stops = 0 => queue[k] = 5
  BY <1>1, <1>3, FiveFour
<1>9. uzenet!HandsOver
  <2> SUFFICES ASSUME stops = 0
               PROVE  uzenet!Box!Next
    BY <1>2 DEF uzenet!HandsOver
  <2> QED BY <1>2, <1>3, <1>5, <1>8, FiveFour, EmptySeq, Short
          DEF uzenet!Box!Next, uzenet!Box!Take
<1> QED BY <1>0, <1>2, <1>3, <1>4, <1>5, <1>6, <1>7, <1>8, <1>9 DEF SystemVInv

LEMMA SystemVStep ==
  ASSUME SystemVInv, [uzenet!Next]_(uzenet!vars)
  PROVE  SystemVInv' /\ [uzenet!HandsOver]_<<sent, received>>
<1>0. MaxStops \in Nat /\ stops \in 0..MaxStops
  BY ExercisesAssumption DEF SystemVInv
<1>1. CASE uzenet!Receive
  BY <1>1, SystemVReceive
<1>2. CASE uzenet!Send
  <2>1. parent = "send" /\ uzenet!Letters = <<5>> /\ sent = <<>> /\ Old
    BY <1>2 DEF uzenet!Send, uzenet!Letters, SystemVInv
  <2>2. /\ sent' = Append(sent, 5) /\ queue' = Append(queue, 5)
        /\ received' = received /\ child' = child /\ stops' = stops
    BY <1>2, <2>1, FiveFour, EmptySeq DEF uzenet!Send
  <2>3. sent' = <<5>> /\ parent' = "wait"
    BY <1>2, <2>1, <2>2, FiveFour DEF uzenet!Send
  <2>4. Old' /\ (stops = 0 => queue' = <<5>>)
    <3>1. queue' \in Seq({5, 4})
      BY <2>1, <2>2, AppendProperties DEF Old
    <3> QED BY <1>0, <2>1, <2>2, <3>1, FiveFour DEF Old, SystemVInv
  <2>5. uzenet!Box!Next
    BY <2>2 DEF uzenet!Box!Next, uzenet!Box!Put, uzenet!Letter
  <2>6. \/ child = "receive" /\ received = <<>>
        \/ child = "end" /\ stops > 0 /\ \E x \in {5, 4} : received = <<x>>
    BY <2>1 DEF SystemVInv
  <2>7. CASE child = "receive" /\ received = <<>>
    BY <1>0, <2>2, <2>3, <2>4, <2>5, <2>7 DEF SystemVInv, uzenet!HandsOver
  <2>8. CASE child = "end" /\ stops > 0 /\ \E x \in {5, 4} : received = <<x>>
    <3>1. stops' # 0 /\ child' = "end" /\ stops' \in 0..MaxStops
      BY <1>0, <2>2, <2>8
    <3>2. \E x \in {5, 4} : received' = <<x>>
      BY <2>2, <2>8
    <3> QED
      BY <2>3, <2>4, <2>5, <3>1, <3>2 DEF SystemVInv, uzenet!HandsOver
  <2> QED BY <2>6, <2>7, <2>8
<1>3. CASE uzenet!Open \/ uzenet!Fork
  BY <1>3, FiveFour DEF SystemVInv, Fresh, Old, uzenet!Open, uzenet!Fork,
                        uzenet!NoQueue
<1>4. CASE uzenet!Remove
  BY <1>4 DEF SystemVInv, uzenet!Remove, uzenet!NoQueue
<1>5. CASE uzenet!ForkFails
  BY <1>0, <1>5 DEF SystemVInv, Fresh, Old, uzenet!ForkFails
<1>6. CASE uzenet!Kill
  BY <1>0, <1>6 DEF SystemVInv, Fresh, Old, uzenet!Kill, uzenet!HandsOver,
                    uzenet!Box!Next, uzenet!Box!Restart
<1>7. CASE UNCHANGED uzenet!vars
  BY <1>7 DEF uzenet!vars, SystemVInv, Fresh, Old
<1> QED
  BY <1>1, <1>2, <1>3, <1>4, <1>5, <1>6, <1>7
  DEF uzenet!Next, uzenet!Parent, uzenet!Child, uzenet!Stop

LEMMA MailedStep ==
  Mailed /\ [Next]_vars => Mailed' /\ [HandsOver]_<<sent, received>>
<1> SUFFICES ASSUME Mailed, [Next]_vars
             PROVE  Mailed' /\ [HandsOver]_<<sent, received>>
    OBVIOUS
<1>1. ASSUME exercise = "mq_uzenet1"
      PROVE  PosixInv' /\ [mq_uzenet1!HandsOver]_<<sent, received>>
  BY <1>1, PosixRun, PosixStep DEF Mailed
<1>2. ASSUME exercise = "uzenet"
      PROVE  SystemVInv' /\ [uzenet!HandsOver]_<<sent, received>>
  BY <1>2, SystemVRun, SystemVStep DEF Mailed
<1>3. exercise' = exercise
  BY ExerciseStays
<1> QED BY <1>1, <1>2, <1>3 DEF Mailed, HandsOver

LEMMA MailedInit == Init => Mailed
  BY ExercisesAssumption
  DEF Init, uzenet!Init, uzenet!NoQueue, Mailed, PosixInv, SystemVInv, Fresh

LEMMA MailedType ==
  Mailed => /\ exercise = "uzenet" => uzenet!TypeOK
            /\ exercise = "mq_uzenet1" => mq_uzenet1!TypeOK
<1> USE DEF uzenet!Letter, mq_uzenet1!Letter, uzenet!NoQueue, mq_uzenet1!NoQueue
<1>1. PosixInv => mq_uzenet1!TypeOK
  BY FiveFour DEF PosixInv, Fresh, Old, mq_uzenet1!TypeOK
<1>2. SystemVInv => uzenet!TypeOK
  <2>1. \A x \in {5, 4} : <<x>> \in Seq({5, 4})
    BY InSeq
  <2> QED BY <2>1, FiveFour DEF SystemVInv, Fresh, Old, uzenet!TypeOK
<1> QED BY <1>1, <1>2 DEF Mailed

-----------------------------------------------------------------------------
(***************************************************************************)
(* What is written to the pipes of gy3 is handed over.                     *)
(***************************************************************************)
LEMMA DataSeq ==
  /\ Append(<<>>, "data") = <<"data">> /\ <<"data">>[1] = "data"
  /\ Len(<<"data">>) = 1 /\ Len(<<>>) = 0 /\ <<"data">> # <<>>
  BY Short, EmptySeq

LEMMA PipesHandOver ==
  ASSUME exercise \in gy3!Piped, PipesInv, [gy3!Next]_(gy3!vars)
  PROVE  [gy3!HandsOver]_<<gy3!sent, gy3!received>>
<1> USE DEF gy3!HandsOver, gy3!Piped
<1>1. CASE gy3!Speak \/ gy3!ChildWrite
  <2>1. gy3!received' = gy3!received
    BY <1>1 DEF gy3!Speak, gy3!ChildWrite, gy3!received
  <2>2. gy3!sent = <<>> /\ gy3!sent' = <<"data">>
    BY <1>1 DEF gy3!Speak, gy3!ChildWrite, gy3!sent, gy3!Spoken, PipesInv, PipesKnown
  <2> QED
    BY <2>1, <2>2, DataSeq DEF gy3!Box!Next, gy3!Box!Put
<1>2. CASE gy3!Read \/ gy3!Hear
  <2>1. gy3!received = <<>> /\ gy3!received' = <<"data">>
    BY <1>2 DEF gy3!Read, gy3!Hear, gy3!received, PipesInv, PipesKnown
  <2>2. gy3!sent = <<"data">> /\ gy3!sent' = <<"data">>
    BY <1>2 DEF gy3!Read, gy3!Hear, gy3!sent, gy3!Spoken, PipesInv, PipesKnown
  <2> QED
    BY <2>1, <2>2, DataSeq DEF gy3!Box!Next, gy3!Box!Take
<1>3. CASE gy3!Kill
  <2>1. gy3!sent' = <<>> /\ gy3!received' = <<>>
    BY <1>3 DEF gy3!Kill, gy3!sent, gy3!Spoken, gy3!received
  <2> QED BY <2>1 DEF gy3!Box!Next, gy3!Box!Restart
<1>4. CASE \/ gy3!MakePipe \/ gy3!NameExists \/ gy3!FirstLook \/ gy3!Fork
           \/ gy3!Meet \/ gy3!SendSignal
  BY <1>4 DEF gy3!MakePipe, gy3!NameExists, gy3!FirstLook, gy3!Fork, gy3!Meet,
              gy3!SendSignal, gy3!sent, gy3!Spoken, gy3!received, PipesInv,
              PipesKnown
<1>5. CASE \/ gy3!WaitChild \/ gy3!Unlink \/ gy3!Alone \/ gy3!Signal
           \/ gy3!Ppoll \/ gy3!TimesOut \/ gy3!ChildUnlink \/ gy3!ForkFails
  BY <1>5 DEF gy3!WaitChild, gy3!Unlink, gy3!Alone, gy3!Signal, gy3!Ppoll,
              gy3!TimesOut, gy3!ChildUnlink, gy3!ForkFails, gy3!sent,
              gy3!Spoken, gy3!received, PipesInv, PipesKnown
<1>6. CASE UNCHANGED gy3!vars
  BY <1>6 DEF gy3!vars, gy3!sent, gy3!Spoken, gy3!received
<1> QED
  BY <1>1, <1>2, <1>3, <1>4, <1>5, <1>6
  DEF gy3!Next, gy3!Parent, gy3!Child, gy3!Stop

LEMMA PosHandOver ==
  Posted /\ [Next]_vars =>
    [exercise = "pos_szemafor" => pos_szemafor!HandsOver]_
      <<pos_szemafor!sent, pos_szemafor!received>>
<1> SUFFICES ASSUME exercise = "pos_szemafor", pos!SharedInv, [Next]_vars
             PROVE  [pos_szemafor!HandsOver]_<<pos_szemafor!sent, pos_szemafor!received>>
    BY DEF Posted
<1>1. [pos!HandsOver]_<<pos!sent, pos!received>>
  BY PosRun, pos!HandsOverStep
<1>2. pos!sent = pos_szemafor!sent /\ pos!received = pos_szemafor!received
  BY DEF pos!sent, pos!received, pos!Written, pos_szemafor!sent,
         pos_szemafor!received, pos_szemafor!Written
<1>3. pos!sent' = pos_szemafor!sent' /\ pos!received' = pos_szemafor!received'
  BY DEF pos!sent, pos!received, pos!Written, pos_szemafor!sent,
         pos_szemafor!received, pos_szemafor!Written
<1>4. pos!Box!Next => pos_szemafor!Box!Next
  BY <1>2, <1>3
  DEF pos!Box!Next, pos!Box!Put, pos!Box!Take, pos!Box!Restart,
      pos_szemafor!Box!Next, pos_szemafor!Box!Put, pos_szemafor!Box!Take,
      pos_szemafor!Box!Restart
<1> QED BY <1>1, <1>2, <1>3, <1>4 DEF pos!HandsOver, pos_szemafor!HandsOver

LEMMA SysvHandOver ==
  Posted /\ [Next]_vars =>
    [exercise = "szemafor" => szemafor!HandsOver]_
      <<szemafor!sent, szemafor!received>>
<1> SUFFICES ASSUME exercise = "szemafor", sysv!SharedInv, [Next]_vars
             PROVE  [szemafor!HandsOver]_<<szemafor!sent, szemafor!received>>
    BY DEF Posted
<1>1. [sysv!HandsOver]_<<sysv!sent, sysv!received>>
  BY SysvRun, sysv!HandsOverStep
<1>2. sysv!sent = szemafor!sent /\ sysv!received = szemafor!received
  BY DEF sysv!sent, sysv!received, sysv!Written, szemafor!sent,
         szemafor!received, szemafor!Written
<1>3. sysv!sent' = szemafor!sent' /\ sysv!received' = szemafor!received'
  BY DEF sysv!sent, sysv!received, sysv!Written, szemafor!sent,
         szemafor!received, szemafor!Written
<1>4. sysv!Box!Next => szemafor!Box!Next
  BY <1>2, <1>3
  DEF sysv!Box!Next, sysv!Box!Put, sysv!Box!Take, sysv!Box!Restart,
      szemafor!Box!Next, szemafor!Box!Put, szemafor!Box!Take,
      szemafor!Box!Restart
<1> QED BY <1>1, <1>2, <1>3, <1>4 DEF sysv!HandsOver, szemafor!HandsOver

(***************************************************************************)
(* Texts, letters and the words in the pipes are handed over in order,     *)
(* each once and after they were sent, as Handover demands.                *)
(***************************************************************************)
THEOREM ImplementsHandover == Spec => Implements
<1>1. Init => pos_szemafor!Box!Init /\ uzenet!Box!Init
  BY DEF Init, pos_szemafor!Init, uzenet!Init, pos_szemafor!Box!Init,
         uzenet!Box!Init, pos_szemafor!sent, pos_szemafor!received,
         pos_szemafor!Written
<1>2. Pipes /\ [Next]_vars =>
        [(exercise \in gy3!Piped) => gy3!HandsOver]_<<gy3!sent, gy3!received>>
  BY PipesRun, PipesHandOver DEF Pipes
<1>3. Mailed /\ [Next]_vars => [HandsOver]_<<sent, received>>
  BY MailedStep
<1> QED
  BY <1>1, <1>2, <1>3, PostedInit, PostedStep, PosHandOver, SysvHandOver,
     MailedInit, MailedStep, PipesInit, PipesStep, PTL
  DEF Spec, Implements

-----------------------------------------------------------------------------
(***************************************************************************)
(* Notify.  There is no letter in the queue before the child sends one.    *)
(***************************************************************************)
NotifyInv ==
  /\ parent \in {"off", "notify", "fork"} => child = "none"
  /\ parent \in {"notify", "fork"} => mail <= 0
  /\ child = "open" => mail <= 0
  /\ child = "send" => mail = 0
  /\ parent \in {"waitpid", "poll", "receive"} /\ mail > 0 => child = "end"
  /\ parent \in {"unlink", "done"} => child = "end"
  /\ mq_uzenet!TypeOK
Notifying == exercise = "mq_uzenet" => NotifyInv

LEMMA NotifyRun == exercise = "mq_uzenet" /\ [Next]_vars => [mq_uzenet!Next]_(mq_uzenet!vars)
  BY DEF gy2!Demo, gy3!Piped, drafts!Draft, Next, Parent, Child, Deliver, Stop,
         Notified, mq_uzenet!Next, mq_uzenet!vars, vars, procs, notifyVars

LEMMA NotifyStep ==
  ASSUME NotifyInv, [mq_uzenet!Next]_(mq_uzenet!vars)
  PROVE  NotifyInv'
<1>0. /\ MaxStops \in Nat /\ stops \in 0..MaxStops /\ mail \in -1..1
      /\ {mqdes1, armed, signal, code} \subseteq BOOLEAN
  BY ExercisesAssumption DEF NotifyInv, mq_uzenet!TypeOK
<1> USE DEF mq_uzenet!Next, mq_uzenet!vars, mq_uzenet!Parent, mq_uzenet!Open,
            mq_uzenet!mq_notify, mq_uzenet!Fork, mq_uzenet!Waitpid,
            mq_uzenet!Poll, mq_uzenet!Receive, mq_uzenet!Unlink,
            mq_uzenet!Child, mq_uzenet!ChildOpen, mq_uzenet!Send,
            mq_uzenet!Handler, mq_uzenet!Stop, mq_uzenet!OpenFails,
            mq_uzenet!ForkFails, mq_uzenet!ChildOpenFails, mq_uzenet!Kill
<1>1. {mqdes1, armed, signal, code}' \subseteq BOOLEAN
  BY <1>0, Zenon
<1>2. stops' \in 0..MaxStops
  BY <1>0
<1>3. mail' \in -1..1
  BY <1>0 DEF NotifyInv, mq_uzenet!NoMail
<1>4. /\ parent' \in {"off", "notify", "fork", "waitpid", "poll", "receive",
                     "unlink", "done"}
      /\ child' \in {"none", "open", "send", "end"}
  BY DEF NotifyInv, mq_uzenet!TypeOK
<1>5. /\ parent' \in {"off", "notify", "fork"} => child' = "none"
      /\ parent' \in {"notify", "fork"} => mail' <= 0
      /\ child' = "open" => mail' <= 0
      /\ child' = "send" => mail' = 0
      /\ parent' \in {"waitpid", "poll", "receive"} /\ mail' > 0 => child' = "end"
      /\ parent' \in {"unlink", "done"} => child' = "end"
  BY <1>0 DEF NotifyInv, mq_uzenet!TypeOK, mq_uzenet!NoMail
<1> QED BY <1>1, <1>2, <1>3, <1>4, <1>5 DEF NotifyInv, mq_uzenet!TypeOK

LEMMA NotifyingStep == Notifying /\ [Next]_vars => Notifying'
  BY ExerciseStays, NotifyRun, NotifyStep DEF Notifying

LEMMA NotifyingInit == Init => Notifying
<1> SUFFICES ASSUME Init PROVE NotifyInv
    BY DEF Notifying
<1>1. {mqdes1, armed, signal, code} \subseteq BOOLEAN
  BY Zenon DEF Init, mq_uzenet!Init
<1> QED
  BY <1>1, ExercisesAssumption
  DEF Init, mq_uzenet!Init, NotifyInv, mq_uzenet!TypeOK, mq_uzenet!NoMail

-----------------------------------------------------------------------------
(***************************************************************************)
(* Signals.  A signal that was sent is pending or has been handled, but    *)
(* for those that were merged; and the calls before the last wait end only *)
(* with the signals that the programs send.                                *)
(***************************************************************************)
Names == gy2!Handled

\* The call that forks is the first one, after the pause of sigaction_value.c.
ForkAt == IF exercise = "sigaction_value" THEN 2 ELSE 1
Course ==
  /\ parent = "off" => pc = 0 /\ pending = <<>> /\ handled = <<>> /\ ~timer
  /\ parent \in {"off", "failed"} => child = "none" /\ ~inside
  /\ parent = "run" => /\ pc \in 1..Len(gy2!Calls[exercise])
                       /\ child = "none" <=> pc <= ForkAt
  /\ parent = "done" => child = "end" /\ pc = Len(gy2!Calls[exercise]) /\ ~inside
  /\ child = "none" => said = 0
  /\ child = "send" => said < Len(gy2!Says[exercise])
  /\ child = "end" => said = Len(gy2!Says[exercise])
  /\ inside => gy2!Call \in {"pause", "sigsuspend", "wait"}
  /\ exercise # "sigaction_value" => ~timer

Holds(p, h) == pending = p /\ Names = h
SignalCourse ==
  \/ said = 0 /\ pc <= 2 /\ Holds(<<>>, <<>>)
  \/ said = 1 /\ pc = 2 /\ Holds(<<"SIGTERM">>, <<>>)
  \/ said = 1 /\ pc \in 2..3 /\ Holds(<<>>, <<"SIGTERM">>)
SigactionCourse ==
  \/ said = 0 /\ pc <= 2 /\ Holds(<<>>, <<>>)
  \/ said = 1 /\ pc = 2 /\ Holds(<<"SIGUSR1">>, <<>>)
  \/ said = 1 /\ pc = 2 /\ Holds(<<>>, <<"SIGUSR1">>)
  \/ said = 2 /\ pc = 2 /\ Holds(<<"SIGUSR1", "SIGTERM">>, <<>>)
  \/ said = 2 /\ pc = 2 /\ Holds(<<"SIGTERM">>, <<"SIGUSR1">>)
  \/ said = 2 /\ pc \in 2..3 /\ Holds(<<"SIGUSR1">>, <<"SIGTERM">>)
  \/ said = 2 /\ pc \in 2..3 /\ Holds(<<>>, <<"SIGUSR1", "SIGTERM">>)
  \/ said = 2 /\ pc \in 2..3 /\ Holds(<<>>, <<"SIGTERM", "SIGUSR1">>)
SigprocmaskCourse ==
  \/ said = 0 /\ pc <= 2 /\ Holds(<<>>, <<>>)
  \/ said = 1 /\ pc = 2 /\ Holds(<<"SIGTERM">>, <<>>)
  \/ said = 2 /\ pc = 2 /\ Holds(<<"SIGTERM", "SIGUSR1">>, <<>>)
  \/ said = 2 /\ pc \in 2..4 /\ Holds(<<"SIGTERM">>, <<"SIGUSR1">>)
  \/ said = 2 /\ pc = 4 /\ Holds(<<>>, <<"SIGUSR1", "SIGTERM">>)
ValueCourse ==
  \/ pc <= 1 /\ Holds(<<>>, <<>>)
  \/ pc = 1 /\ Holds(<<"timer">>, <<>>)
  \/ pc \in 1..3 /\ ~timer /\ said = 0 /\ Holds(<<>>, <<"timer">>)
  \/ pc = 3 /\ ~timer /\ said \in 1..2 /\ Holds(<<"kill">>, <<"timer">>)
  \/ pc \in 3..4 /\ ~timer /\ said \in 1..2 /\ Holds(<<>>, <<"timer", "kill">>)
  \/ pc \in 3..4 /\ ~timer /\ said = 2 /\ Holds(<<"sigqueue">>, <<"timer", "kill">>)
  \/ pc \in 3..5 /\ ~timer /\ said = 2 /\ Holds(<<>>, <<"timer", "kill", "sigqueue">>)
Amount(q, s) == Cardinality({i \in DOMAIN q : q[i] = s})
MultipleCourse ==
  /\ Amount(pending, "SIGRTMIN") + Amount(Names, "SIGRTMIN") = said \div 2
  /\ Amount(pending, "SIGUSR1") + Amount(Names, "SIGUSR1") <= (said + 1) \div 2
  /\ said > 0 => Amount(pending, "SIGUSR1") + Amount(Names, "SIGUSR1") > 0

DemoCourse ==
  CASE exercise = "signal" -> SignalCourse
    [] exercise = "sigaction" -> SigactionCourse
    [] exercise = "sigprocmask" -> SigprocmaskCourse
    [] exercise = "sigaction_value" -> ValueCourse
    [] exercise = "sigaction_multiple" -> MultipleCourse
SignalsInv ==
  /\ gy2!TypeOK /\ Course
  /\ parent # "failed" => DemoCourse
  /\ inside /\ gy2!Call = "wait" /\ exercise # "sigaction_multiple" => pending = <<>>
  /\ parent = "done" => pending = <<>>
Signalling == exercise \in gy2!Demo => SignalsInv

LEMMA SignalsRun == exercise \in gy2!Demo /\ [Next]_vars => [gy2!Next]_(gy2!vars)
  BY DEF gy2!Demo, gy3!Piped, drafts!Draft, Next, Parent, Child, Deliver, Stop,
         Signalled, gy2!Next, gy2!vars, vars, procs, signalVars

\* A sequence with one more, and with one fewer, signal.
LEMMA AmountAppend ==
  ASSUME NEW S, NEW q \in Seq(S), NEW x \in S, NEW s
  PROVE  /\ Amount(q, s) \in Nat
         /\ Amount(Append(q, x), s) =
              IF x = s THEN Amount(q, s) + 1 ELSE Amount(q, s)
<1> DEFINE A == {i \in DOMAIN q : q[i] = s}
           B == {i \in DOMAIN Append(q, x) : Append(q, x)[i] = s}
<1>1. PICK n \in Nat : n = Len(q) /\ DOMAIN q = 1..n
  BY LenProperties
<1>2. /\ DOMAIN Append(q, x) = 1..n + 1
      /\ \A i \in 1..n : Append(q, x)[i] = q[i]
      /\ Append(q, x)[n + 1] = x
  <2>1. Append(q, x) \in Seq(S) /\ Len(Append(q, x)) = n + 1
    BY <1>1, AppendProperties
  <2>2. DOMAIN Append(q, x) = 1..n + 1
    BY <2>1, LenProperties
  <2> QED BY <1>1, <2>2, AppendProperties
<1>3. IsFiniteSet(A)
  <2>1. IsFiniteSet(1..n) /\ A \in SUBSET (1..n)
    BY <1>1, FS_Interval
  <2> QED BY <2>1, FS_Subset
<1>4. B = IF x = s THEN A \cup {n + 1} ELSE A
  BY <1>1, <1>2
<1>5. n + 1 \notin A
  BY <1>1
<1>6. Cardinality(A) \in Nat
  BY <1>3, FS_CardinalityType
<1>7. Cardinality(B) = IF x = s THEN Cardinality(A) + 1 ELSE Cardinality(A)
  <2> HIDE DEF A, B
  <2> QED BY <1>3, <1>4, <1>5, FS_AddElement
<1> QED BY <1>6, <1>7 DEF Amount

LEMMA AmountWithout ==
  ASSUME NEW S, NEW q \in Seq(S), NEW k \in 1..Len(q), NEW s
  PROVE  Amount(q, s) =
           IF q[k] = s THEN Amount(Without(q, k), s) + 1
                       ELSE Amount(Without(q, k), s)
<1> DEFINE w == Without(q, k)
           A == {i \in DOMAIN q : q[i] = s}
           B == {i \in DOMAIN w : w[i] = s}
           f == [i \in A \ {k} |-> IF i < k THEN i ELSE i - 1]
<1>1. PICK n \in Nat : n = Len(q) /\ DOMAIN q = 1..n
  BY LenProperties
<1>2. /\ DOMAIN w = 1..n - 1
      /\ \A i \in 1..n - 1 : w[i] = IF i < k THEN q[i] ELSE q[i + 1]
  <2>1. w \in Seq(S) /\ Len(w) = n - 1
    BY <1>1, WithoutSeq
  <2>2. DOMAIN w = 1..n - 1
    BY <2>1, LenProperties
  <2> QED BY <1>1, <2>2, WithoutSeq
<1>3. IsFiniteSet(A) /\ A \subseteq 1..n /\ k \in 1..n
  <2>1. IsFiniteSet(1..n) /\ A \in SUBSET (1..n)
    BY <1>1, FS_Interval
  <2> QED BY <1>1, <2>1, FS_Subset
<1>4. /\ IsFiniteSet(A \ {k})
      /\ Cardinality(A \ {k}) =
           IF k \in A THEN Cardinality(A) - 1 ELSE Cardinality(A)
  <2> HIDE DEF A
  <2> QED BY <1>3, FS_RemoveElement
<1>5. k \in A <=> q[k] = s
  BY <1>1
<1>6. Cardinality(A) \in Nat
  BY <1>3, FS_CardinalityType
<1>7. ExistsBijection(A \ {k}, B)
  <2>1. f \in [A \ {k} -> B]
    <3> SUFFICES ASSUME NEW i \in A \ {k}
                 PROVE  (IF i < k THEN i ELSE i - 1) \in B
        OBVIOUS
    <3>1. i \in 1..n /\ i # k /\ q[i] = s
      BY <1>3
    <3>2. CASE i < k
      <4>1. i \in 1..n - 1 /\ w[i] = q[i]
        BY <1>2, <1>3, <3>1, <3>2
      <4> HIDE DEF w
      <4> QED BY <1>2, <3>1, <3>2, <4>1
    <3>3. CASE i > k
      <4>1. i - 1 \in 1..n - 1 /\ w[i - 1] = q[i]
        BY <1>2, <1>3, <3>1, <3>3
      <4> HIDE DEF w
      <4> QED BY <1>2, <1>3, <3>1, <3>3, <4>1
    <3> QED BY <1>3, <3>1, <3>2, <3>3
  <2>2. \A a, b \in A \ {k} : f[a] = f[b] => a = b
    BY <1>3
  <2>3. \A j \in B : \E i \in A \ {k} : f[i] = j
    <3> SUFFICES ASSUME NEW j \in B PROVE \E i \in A \ {k} : f[i] = j
        OBVIOUS
    <3>1. j \in 1..n - 1 /\ w[j] = s
      BY <1>2
    <3>2. CASE j < k
      <4>1. j \in A \ {k} /\ f[j] = j
        BY <1>1, <1>2, <1>3, <3>1, <3>2
      <4> QED BY <4>1
    <3>3. CASE j >= k
      <4>1. j + 1 \in A \ {k}
        BY <1>1, <1>2, <1>3, <3>1, <3>3
      <4>2. f[j + 1] = j
        BY <1>3, <3>1, <3>3, <4>1
      <4> QED BY <4>1, <4>2
    <3> QED BY <1>3, <3>1, <3>2, <3>3
  <2> HIDE DEF f, A, B
  <2>4. f \in Bijection(A \ {k}, B)
    BY <2>1, <2>2, <2>3 DEF Bijection, Injection, Surjection, IsInjective
  <2> QED BY <2>4 DEF ExistsBijection
<1>8. Cardinality(B) = Cardinality(A \ {k})
  <2> HIDE DEF A, B
  <2> QED BY <1>4, <1>7, FS_Bijection
<1> QED BY <1>4, <1>5, <1>6, <1>8 DEF Amount

\* What the children say, and the parents call.
SaysMultiple == [i \in 1..2 * Repeats |-> IF i % 2 = 1 THEN "SIGUSR1" ELSE "SIGRTMIN"]

LEMMA CallsAt ==
  /\ Len(gy2!Calls["signal"]) = 3
  /\ gy2!Calls["signal"][1] = "fork" /\ gy2!Calls["signal"][2] = "pause"
  /\ gy2!Calls["signal"][3] = "wait"
  /\ Len(gy2!Calls["sigaction"]) = 3
  /\ gy2!Calls["sigaction"][1] = "fork"
  /\ gy2!Calls["sigaction"][2] = "sigsuspend"
  /\ gy2!Calls["sigaction"][3] = "wait"
  /\ Len(gy2!Calls["sigaction_multiple"]) = 2
  /\ gy2!Calls["sigaction_multiple"][1] = "fork"
  /\ gy2!Calls["sigaction_multiple"][2] = "wait"
  /\ Len(gy2!Calls["sigprocmask"]) = 4
  /\ gy2!Calls["sigprocmask"][1] = "fork"
  /\ gy2!Calls["sigprocmask"][2] = "pause"
  /\ gy2!Calls["sigprocmask"][3] = "unblock"
  /\ gy2!Calls["sigprocmask"][4] = "wait"
  /\ Len(gy2!Calls["sigaction_value"]) = 5
  /\ gy2!Calls["sigaction_value"][1] = "pause"
  /\ gy2!Calls["sigaction_value"][2] = "fork"
  /\ gy2!Calls["sigaction_value"][3] = "pause"
  /\ gy2!Calls["sigaction_value"][4] = "pause"
  /\ gy2!Calls["sigaction_value"][5] = "wait"
  BY DEF gy2!Calls

LEMMA SaysKnown ==
  /\ gy2!Says["signal"] = <<"SIGTERM">> /\ Len(gy2!Says["signal"]) = 1
  /\ gy2!Says["sigaction"] = <<"SIGUSR1", "SIGTERM">>
  /\ Len(gy2!Says["sigaction"]) = 2
  /\ gy2!Says["sigprocmask"] = <<"SIGTERM", "SIGUSR1">>
  /\ Len(gy2!Says["sigprocmask"]) = 2
  /\ gy2!Says["sigaction_value"] = <<"kill", "sigqueue">>
  /\ Len(gy2!Says["sigaction_value"]) = 2
  /\ gy2!Says["sigaction_multiple"] = SaysMultiple
  /\ Len(gy2!Says["sigaction_multiple"]) = 2 * Repeats
<1>1. 2 * Repeats \in Nat
  BY ExercisesAssumption
<1>2. Len(SaysMultiple) = 2 * Repeats
  <2>1. SaysMultiple \in Seq({"SIGUSR1", "SIGRTMIN"})
    BY <1>1, SeqDef DEF SaysMultiple
  <2>2. DOMAIN SaysMultiple = 1..2 * Repeats
    BY DEF SaysMultiple
  <2> QED BY <1>1, <2>1, <2>2, LenProperties
<1> QED BY <1>2 DEF gy2!Says, SaysMultiple

\* The names of the handled signals grow with them.
LEMMA NamesAppend ==
  ASSUME handled \in Seq(gy2!Signal \X BOOLEAN), NEW s \in gy2!Signal,
         NEW b \in BOOLEAN, handled' = Append(handled, <<s, b>>)
  PROVE  /\ handled' \in Seq(gy2!Signal \X BOOLEAN)
         /\ Names \in Seq(gy2!Signal) /\ Names' = Append(Names, s)
<1>1. PICK n \in Nat : n = Len(handled) /\ DOMAIN handled = 1..n
  BY LenProperties
<1>2. <<s, b>> \in gy2!Signal \X BOOLEAN /\ <<s, b>>[1] = s
  OBVIOUS
<1>3. /\ handled' \in Seq(gy2!Signal \X BOOLEAN)
      /\ Len(handled') = n + 1 /\ handled'[n + 1] = <<s, b>>
      /\ \A i \in 1..n : handled'[i] = handled[i]
  BY <1>1, <1>2, AppendProperties
<1>4. DOMAIN handled' = 1..n + 1
  BY <1>3, LenProperties
<1>5. Names = [i \in 1..n |-> handled[i][1]]
  BY <1>1 DEF Names, gy2!Handled
<1>6. Names' = [i \in 1..n + 1 |-> handled'[i][1]]
  BY <1>4 DEF Names, gy2!Handled
<1>7. \A i \in 1..n : handled[i][1] \in gy2!Signal
  <2>1. \A i \in 1..n : handled[i] \in gy2!Signal \X BOOLEAN
    BY <1>1, ElementOfSeq
  <2> QED BY <2>1
<1>8. Names \in Seq(gy2!Signal) /\ Len(Names) = n
  <2>1. Names \in Seq(gy2!Signal) /\ DOMAIN Names = 1..n
    BY <1>5, <1>7, SeqDef
  <2> QED BY <2>1, LenProperties
<1>9. /\ Append(Names, s) \in Seq(gy2!Signal) /\ Len(Append(Names, s)) = n + 1
      /\ Append(Names, s)[n + 1] = s
      /\ \A i \in 1..n : Append(Names, s)[i] = Names[i]
  BY <1>8, AppendProperties
<1>10. /\ Names' \in Seq(gy2!Signal) /\ Len(Names') = n + 1
  <2>1. \A i \in 1..n + 1 : handled'[i][1] \in gy2!Signal
    BY <1>1, <1>2, <1>3, <1>7
  <2>2. Names' \in Seq(gy2!Signal) /\ DOMAIN Names' = 1..n + 1
    <3>1. PICK m \in Nat : m = n + 1
      OBVIOUS
    <3>2. Names' \in [1..m -> gy2!Signal]
      BY <1>6, <2>1, <3>1
    <3> QED BY <3>1, <3>2, SeqDef
  <2> QED BY <2>2, LenProperties
<1>11. \A i \in 1..n + 1 : Names'[i] = Append(Names, s)[i]
  BY <1>1, <1>2, <1>3, <1>5, <1>6, <1>9
<1> QED BY <1>3, <1>8, <1>9, <1>10, <1>11, SeqEqual

LEMMA Three ==
  ASSUME NEW x, NEW y, NEW z
  PROVE  Append(<<x, y>>, z) = <<x, y, z>>
<1> DEFINE S == {x, y, z}
           p == <<x, y>>
           q == <<x, y, z>>
<1>1. p \in Seq(S) /\ Len(p) = 2 /\ p[1] = x /\ p[2] = y
  BY InSeq
<1>2. /\ q \in Seq(S) /\ Len(q) = 3
      /\ q[1] = x /\ q[2] = y /\ q[3] = z
  OBVIOUS
<1>3. z \in S /\ q \in Seq(S) /\ Len(q) = 3
  BY <1>2
<1> HIDE DEF p, q, S
<1>4. /\ Append(p, z) \in Seq(S) /\ Len(Append(p, z)) = 3
      /\ Append(p, z)[1] = x /\ Append(p, z)[2] = y /\ Append(p, z)[3] = z
  <2>1. /\ Append(p, z) \in Seq(S) /\ Len(Append(p, z)) = Len(p) + 1
        /\ \A i \in 1..Len(p) : Append(p, z)[i] = p[i]
        /\ Append(p, z)[Len(p) + 1] = z
    <3>1. p \in Seq(S) /\ z \in S
      BY <1>1, <1>3
    <3> QED BY <3>1, AppendProperties
  <2> QED BY <1>1, <2>1
<1>5. \A i \in 1..3 : Append(p, z)[i] = q[i]
  BY <1>2, <1>4
<1>6. Append(p, z) = q
  BY <1>2, <1>4, <1>5, SeqEqual
<1> QED BY <1>6 DEF p, q

\* A handler takes one signal off; only in a pause does the parent go on.
LEMMA HandlerTaken ==
  ASSUME exercise \in gy2!Demo, SignalsInv,
         NEW i \in DOMAIN pending, gy2!Handler(i)
  PROVE  /\ parent = "run" /\ parent' = "run" /\ child' = child
         /\ said' = said /\ exercise' = exercise /\ stops' = stops
         /\ i \in 1..Len(pending) /\ pending[i] \in gy2!Signal
         /\ gy2!Deliverable(i) /\ \A j \in 1..i - 1 : pending[j] # pending[i]
         /\ pending' = Without(pending, i) /\ Names' = Append(Names, pending[i])
         /\ handled' \in Seq(gy2!Signal \X BOOLEAN)
         /\ timer' = (timer /\ pending[i] # "timer")
         /\ exercise = "sigaction_multiple" => pc' = pc /\ inside' = inside
         /\ exercise # "sigaction_multiple" =>
              /\ inside' = FALSE /\ pc' = IF inside THEN pc + 1 ELSE pc
              /\ inside => gy2!Call \in {"pause", "sigsuspend"}
<1> DEFINE ends == inside /\ (gy2!Call # "wait" \/ ~gy2!Restarts)
<1>1. /\ parent = "run" /\ gy2!Deliverable(i)
      /\ \A j \in 1..i - 1 : pending[j] # pending[i]
      /\ pending' = gy2!RemoveAt(pending, i)
      /\ handled' = Append(handled, <<pending[i], ends>>)
      /\ inside' = (inside /\ ~ends)
      /\ pc' = IF ends THEN pc + 1 ELSE pc
      /\ parent' = IF ends /\ gy2!Call = "wait" THEN "done" ELSE "run"
      /\ timer' = (timer /\ pending[i] # "timer")
      /\ UNCHANGED <<exercise, child, said, stops>>
  BY DEF gy2!Handler
<1>2. /\ pending \in Seq(gy2!Signal) /\ handled \in Seq(gy2!Signal \X BOOLEAN)
      /\ inside \in BOOLEAN
  BY DEF SignalsInv, gy2!TypeOK
<1>3. i \in 1..Len(pending) /\ pending[i] \in gy2!Signal
  BY <1>2, LenProperties, ElementOfSeq
<1>4. inside => gy2!Call \in {"pause", "sigsuspend", "wait"}
  BY DEF SignalsInv, Course
<1>5. pending # <<>>
  BY <1>3, EmptySeq
<1>6. exercise # "sigaction_multiple" => (ends <=> inside) /\ ~(inside /\ gy2!Call = "wait")
  BY <1>5 DEF SignalsInv, gy2!Restarts
<1>7. exercise = "sigaction_multiple" => (inside => gy2!Call = "wait") /\ ~ends
  <2> SUFFICES ASSUME exercise = "sigaction_multiple", inside
               PROVE  gy2!Call = "wait" /\ ~ends
      OBVIOUS
  <2>1. pc \in 1..2
    <3>1. Len(gy2!Calls["sigaction_multiple"]) = 2
      BY CallsAt
    <3>2. pc \in 1..Len(gy2!Calls[exercise])
      BY <1>1 DEF SignalsInv, Course
    <3> QED BY <3>1, <3>2
  <2>2. gy2!Call \in {"fork", "wait"}
    BY <2>1, <1>1, CallsAt DEF gy2!Call
  <2> QED BY <1>4, <2>2 DEF gy2!Restarts
<1>8. ends \in BOOLEAN
  OBVIOUS
<1>9. /\ handled' \in Seq(gy2!Signal \X BOOLEAN)
      /\ Names' = Append(Names, pending[i])
  <2> HIDE DEF ends
  <2> QED BY <1>1, <1>2, <1>3, <1>8, NamesAppend
<1>10. pending' = Without(pending, i)
  BY <1>1 DEF gy2!RemoveAt, Without
<1>11. exercise = "sigaction_multiple" =>
         pc' = pc /\ inside' = inside /\ parent' = "run"
  <2>1. exercise = "sigaction_multiple" => inside' = inside
    BY <1>1, <1>2, <1>7, Zenon
  <2> QED BY <1>1, <1>7, <2>1
<1>12. exercise # "sigaction_multiple" =>
         /\ inside' = FALSE /\ pc' = IF inside THEN pc + 1 ELSE pc
         /\ inside => gy2!Call \in {"pause", "sigsuspend"}
         /\ parent' = "run"
  BY <1>1, <1>4, <1>6
<1> HIDE DEF ends
<1> QED BY <1>1, <1>3, <1>9, <1>10, <1>11, <1>12

\* A child that sends has a parent that runs.
LEMMA SendTaken ==
  ASSUME exercise \in gy2!Demo, SignalsInv, gy2!Send
  PROVE  /\ parent = "run" /\ parent' = "run" /\ pc' = pc /\ inside' = inside
         /\ child = "send" /\ said < Len(gy2!Says[exercise]) /\ said' = said + 1
         /\ child' = IF said' = Len(gy2!Says[exercise]) THEN "end" ELSE "send"
         /\ pending' = gy2!Posted(gy2!Says[exercise][said + 1])
         /\ handled' = handled /\ Names' = Names /\ timer' = timer
         /\ pc > ForkAt /\ exercise' = exercise /\ stops' = stops
<1>1. /\ parent \in {"off", "run", "done", "failed"} /\ child = "send"
      /\ parent \in {"off", "failed"} => child = "none"
      /\ parent = "done" => child = "end"
      /\ said < Len(gy2!Says[exercise])
      /\ parent = "run" =>
           pc \in 1..Len(gy2!Calls[exercise]) /\ (child = "none" <=> pc <= ForkAt)
  BY DEF gy2!Send, SignalsInv, gy2!TypeOK, Course
<1>2. parent = "run"
  BY <1>1
<1>3. Len(gy2!Calls[exercise]) \in Nat
  BY CallsAt DEF gy2!Demo
<1>4. pc > ForkAt
  BY <1>1, <1>2, <1>3 DEF ForkAt
<1> QED BY <1>1, <1>2, <1>4 DEF gy2!Send, Names, gy2!Handled

\* Nothing that is pending is blocked in the last wait.
LEMMA WaitsQuietly ==
  ASSUME exercise \in gy2!Demo, SignalsInv, gy2!Call = "wait", ~gy2!Disturbed
  PROVE  pending = <<>> /\ parent = "run" /\ pc = Len(gy2!Calls[exercise])
<1>1. parent = "run"
  BY DEF gy2!Call
<1>2. pc \in 1..Len(gy2!Calls[exercise]) /\ pending \in Seq(gy2!Signal)
  BY <1>1 DEF SignalsInv, Course, gy2!TypeOK
<1>3. pc = Len(gy2!Calls[exercise])
  <2>1. gy2!Calls[exercise][pc] = "wait"
    BY <1>1 DEF gy2!Call
  <2>2. CASE exercise = "signal"
    BY <1>2, <2>1, <2>2, CallsAt
  <2>3. CASE exercise = "sigaction"
    BY <1>2, <2>1, <2>3, CallsAt
  <2>4. CASE exercise = "sigaction_multiple"
    BY <1>2, <2>1, <2>4, CallsAt
  <2>5. CASE exercise = "sigprocmask"
    BY <1>2, <2>1, <2>5, CallsAt
  <2>6. CASE exercise = "sigaction_value"
    BY <1>2, <2>1, <2>6, CallsAt
  <2> QED BY <2>2, <2>3, <2>4, <2>5, <2>6 DEF gy2!Demo
<1>4. gy2!Blocked = {}
  <2>1. exercise = "sigprocmask" => ~(pc <= 3)
    BY <1>3, CallsAt
  <2> QED BY <2>1 DEF gy2!Blocked
<1>5. DOMAIN pending = {}
  BY <1>4 DEF gy2!Disturbed, gy2!Deliverable
<1>6. pending = <<>>
  <2>1. Len(pending) \in Nat /\ DOMAIN pending = 1..Len(pending)
    BY <1>2, LenProperties
  <2>2. Len(pending) = 0
    BY <1>5, <2>1
  <2> QED BY <1>2, <2>2, EmptySeq
<1> QED BY <1>1, <1>3, <1>6

\* What the other steps do to the course of the parent.
LEMMA QuietTaken ==
  ASSUME exercise \in gy2!Demo, SignalsInv,
         gy2!Parent \/ gy2!Stop \/ UNCHANGED gy2!vars
  PROVE  /\ pending' = pending /\ handled' = handled /\ Names' = Names
         /\ said' = said /\ exercise' = exercise
         /\ \/ pc' = pc /\ timer' = timer
            \/ parent = "off" /\ pc = 0 /\ pc' = 1
            \/ /\ gy2!Call \in {"fork", "unblock"} /\ parent = "run"
               /\ pc' = pc + 1 /\ timer' = timer
  BY DEF gy2!Parent, gy2!Stop, gy2!vars, gy2!Start, gy2!Fork, gy2!Enter,
         gy2!Unblock, gy2!Wait, gy2!ForkFails, gy2!TimerFails, SignalsInv,
         Course, gy2!Call, Names, gy2!Handled

\* A signal is posted to no or one pending signal, and taken from one or two.
LEMMA PostedShort ==
  ASSUME NEW s
  PROVE  /\ pending = <<>> => gy2!Posted(s) = <<s>>
         /\ \A x : pending = <<x>> =>
              gy2!Posted(s) = IF s # "SIGRTMIN" /\ gy2!Number(x) = gy2!Number(s)
                              THEN <<x>> ELSE <<x, s>>
<1>1. ASSUME pending = <<>> PROVE gy2!Posted(s) = <<s>>
  <2>1. DOMAIN pending = {}
    BY <1>1
  <2> QED BY <1>1, <2>1, Short DEF gy2!Posted
<1>2. ASSUME NEW x, pending = <<x>>
      PROVE  gy2!Posted(s) = IF s # "SIGRTMIN" /\ gy2!Number(x) = gy2!Number(s)
                             THEN <<x>> ELSE <<x, s>>
  <2>1. DOMAIN pending = {1} /\ pending[1] = x /\ Append(pending, s) = <<x, s>>
    BY <1>2, Short
  <2>2. (\E i \in DOMAIN pending : gy2!Number(pending[i]) = gy2!Number(s))
          <=> gy2!Number(x) = gy2!Number(s)
    BY <2>1
  <2> QED BY <1>2, <2>1, <2>2 DEF gy2!Posted
<1> QED BY <1>1, <1>2

LEMMA TakenShort ==
  ASSUME NEW i \in DOMAIN pending
  PROVE  /\ pending # <<>>
         /\ \A x : pending = <<x>> =>
              i = 1 /\ pending[i] = x /\ Without(pending, i) = <<>>
         /\ \A x, y : pending = <<x, y>> =>
              \/ i = 1 /\ pending[i] = x /\ Without(pending, i) = <<y>>
              \/ i = 2 /\ pending[i] = y /\ Without(pending, i) = <<x>>
<1>1. pending # <<>>
  OBVIOUS
<1>2. ASSUME NEW x, pending = <<x>>
      PROVE  i = 1 /\ pending[i] = x /\ Without(pending, i) = <<>>
  <2>1. i = 1 /\ pending[i] = x
    BY <1>2
  <2>2. x \in {x}
    OBVIOUS
  <2>3. Without(<<x>>, 1) = <<>>
    BY <2>2, WithoutShort
  <2> QED BY <1>2, <2>1, <2>3
<1>3. ASSUME NEW x, NEW y, pending = <<x, y>>
      PROVE  \/ i = 1 /\ pending[i] = x /\ Without(pending, i) = <<y>>
             \/ i = 2 /\ pending[i] = y /\ Without(pending, i) = <<x>>
  <2>1. \/ i = 1 /\ pending[i] = x
        \/ i = 2 /\ pending[i] = y
    <3>1. DOMAIN <<x, y>> = {1, 2}
      OBVIOUS
    <3>2. i = 1 \/ i = 2
      BY <1>3, <3>1
    <3>3. pending[1] = x /\ pending[2] = y
      BY <1>3
    <3> QED BY <3>2, <3>3
  <2>2. x \in {x, y} /\ y \in {x, y}
    OBVIOUS
  <2>3. Without(<<x, y>>, 1) = <<y>> /\ Without(<<x, y>>, 2) = <<x>>
    BY <2>2, WithoutShort
  <2> QED BY <1>3, <2>1, <2>3
<1> QED BY <1>1, <1>2, <1>3

\* The parent of signal.c.
LEMMA SignalCourseStep ==
  ASSUME exercise = "signal", SignalsInv, [gy2!Next]_(gy2!vars),
         parent' # "failed"
  PROVE  SignalCourse'
<1>0. /\ exercise \in gy2!Demo
      /\ parent # "failed" => SignalCourse
      /\ pc \in Nat /\ said \in Nat /\ ForkAt = 1 /\ ~timer
  BY CallsAt, SaysKnown DEF gy2!Demo, SignalsInv, DemoCourse, gy2!TypeOK, Course, ForkAt
<1>1. CASE gy2!Send
  <2>1. /\ parent = "run" /\ pc' = pc /\ said' = said + 1 /\ pc > 1
        /\ pending' = gy2!Posted(gy2!Says["signal"][said + 1]) /\ Names' = Names
        /\ said < 1
    BY <1>0, <1>1, SendTaken, SaysKnown
  <2>2. said = 0 /\ pc = 2 /\ Holds(<<>>, <<>>)
    BY <1>0, <2>1 DEF SignalCourse
  <2>3. pending' = <<"SIGTERM">>
    <3>1. gy2!Says["signal"][1] = "SIGTERM"
      BY SaysKnown
    <3> QED BY <2>1, <2>2, <3>1, PostedShort DEF Holds
  <2> QED BY <2>1, <2>2, <2>3 DEF SignalCourse, Holds
<1>2. ASSUME NEW i \in DOMAIN pending, gy2!Handler(i)
      PROVE  SignalCourse'
  <2>1. /\ parent = "run" /\ said' = said /\ pending' = Without(pending, i)
        /\ Names' = Append(Names, pending[i]) /\ pc' \in {pc, pc + 1}
    BY <1>0, <1>2, HandlerTaken
  <2>2. said = 1 /\ pc = 2 /\ Holds(<<"SIGTERM">>, <<>>)
    BY <1>0, <1>2, <2>1, TakenShort DEF SignalCourse, Holds
  <2> QED
    BY <1>2, <2>1, <2>2, TakenShort, Short DEF SignalCourse, Holds
<1>3. CASE gy2!Tick
  BY <1>0, <1>3 DEF gy2!Tick
<1>4. CASE gy2!Parent \/ gy2!Stop \/ UNCHANGED gy2!vars
  <2>1. parent # "failed"
    BY <1>4 DEF gy2!Parent, gy2!Stop, gy2!vars, gy2!Start, gy2!Fork, gy2!Enter,
                gy2!Unblock, gy2!Wait, gy2!ForkFails, gy2!TimerFails, gy2!Call
  <2>2. /\ pending' = pending /\ Names' = Names /\ said' = said
        /\ \/ pc' = pc
           \/ pc = 0 /\ pc' = 1
           \/ gy2!Call \in {"fork", "unblock"} /\ parent = "run" /\ pc' = pc + 1
    BY <1>0, <1>4, QuietTaken
  <2>3. gy2!Call \in {"fork", "unblock"} /\ parent = "run" => pc = 1
    <3>1. parent = "run" => pc \in 1..3 /\ gy2!Call = gy2!Calls["signal"][pc]
      BY <1>0, CallsAt DEF SignalsInv, Course, gy2!Call
    <3> QED BY <3>1, CallsAt
  <2> QED BY <1>0, <2>1, <2>2, <2>3 DEF SignalCourse, Holds
<1> QED
  BY <1>1, <1>2, <1>3, <1>4
  DEF gy2!Next, gy2!Child, gy2!Deliver

\* The parent of sigaction.c, whose mask in sigsuspend lets SIGTERM through.
LEMMA SigactionCourseStep ==
  ASSUME exercise = "sigaction", SignalsInv, [gy2!Next]_(gy2!vars),
         parent' # "failed"
  PROVE  SigactionCourse'
<1>0. /\ exercise \in gy2!Demo
      /\ parent # "failed" => SigactionCourse
      /\ pc \in Nat /\ said \in Nat /\ ForkAt = 1 /\ ~timer
  BY CallsAt, SaysKnown DEF gy2!Demo, SignalsInv, DemoCourse, gy2!TypeOK, Course, ForkAt
<1>1. CASE gy2!Send
  <2>1. /\ parent = "run" /\ pc' = pc /\ said' = said + 1 /\ pc > 1
        /\ pending' = gy2!Posted(gy2!Says["sigaction"][said + 1])
        /\ Names' = Names /\ said < 2
    BY <1>0, <1>1, SendTaken, SaysKnown
  <2>2. /\ gy2!Says["sigaction"][1] = "SIGUSR1"
        /\ gy2!Says["sigaction"][2] = "SIGTERM"
        /\ gy2!Number("SIGUSR1") # gy2!Number("SIGTERM")
    BY SaysKnown DEF gy2!Number
  <2>3. \/ said = 0 /\ pc = 2 /\ Holds(<<>>, <<>>)
        \/ said = 1 /\ pc = 2 /\ Holds(<<"SIGUSR1">>, <<>>)
        \/ said = 1 /\ pc = 2 /\ Holds(<<>>, <<"SIGUSR1">>)
    BY <1>0, <2>1 DEF SigactionCourse
  <2> QED
    BY <2>1, <2>2, <2>3, PostedShort DEF SigactionCourse, Holds
<1>2. ASSUME NEW i \in DOMAIN pending, gy2!Handler(i)
      PROVE  SigactionCourse'
  <2>1. /\ parent = "run" /\ said' = said /\ pending' = Without(pending, i)
        /\ Names' = Append(Names, pending[i])
        /\ pc' = IF inside THEN pc + 1 ELSE pc
        /\ inside => gy2!Call \in {"pause", "sigsuspend"}
        /\ gy2!Deliverable(i)
    BY <1>0, <1>2, HandlerTaken
  <2>2. inside => pc = 2 /\ pending[i] # "SIGUSR1"
    <3>1. pc \in 1..3 /\ gy2!Call = gy2!Calls["sigaction"][pc]
      BY <1>0, <2>1, CallsAt DEF SignalsInv, Course, gy2!Call
    <3>2. inside => pc = 2 /\ gy2!Call = "sigsuspend"
      BY <2>1, <3>1, CallsAt
    <3>3. inside => gy2!Blocked = {"SIGUSR1", "SIGRTMIN"}
      BY <3>2 DEF gy2!Blocked
    <3>4. gy2!Number("SIGUSR1") = "SIGUSR1"
      BY DEF gy2!Number
    <3> QED BY <2>1, <3>2, <3>3, <3>4 DEF gy2!Deliverable
  <2>3. \/ said = 1 /\ pc = 2 /\ Holds(<<"SIGUSR1">>, <<>>)
        \/ said = 2 /\ pc = 2 /\ Holds(<<"SIGUSR1", "SIGTERM">>, <<>>)
        \/ said = 2 /\ pc = 2 /\ Holds(<<"SIGTERM">>, <<"SIGUSR1">>)
        \/ said = 2 /\ pc \in 2..3 /\ Holds(<<"SIGUSR1">>, <<"SIGTERM">>)
    BY <1>0, <1>2, <2>1, TakenShort DEF SigactionCourse, Holds
  <2>4. CASE said = 1 /\ pc = 2 /\ Holds(<<"SIGUSR1">>, <<>>)
    BY <1>2, <2>1, <2>2, <2>4, TakenShort, Short DEF SigactionCourse, Holds
  <2>5. CASE said = 2 /\ pc = 2 /\ Holds(<<"SIGUSR1", "SIGTERM">>, <<>>)
    <3>1. \/ /\ pending[i] = "SIGUSR1" /\ pending' = <<"SIGTERM">>
             /\ Names' = <<"SIGUSR1">>
          \/ /\ pending[i] = "SIGTERM" /\ pending' = <<"SIGUSR1">>
             /\ Names' = <<"SIGTERM">>
      BY <1>2, <2>1, <2>5, TakenShort, Short DEF Holds
    <3> QED BY <2>1, <2>2, <2>5, <3>1 DEF SigactionCourse, Holds
  <2>6. CASE said = 2 /\ pc = 2 /\ Holds(<<"SIGTERM">>, <<"SIGUSR1">>)
    <3>1. pending' = <<>> /\ Names' = <<"SIGUSR1", "SIGTERM">>
      BY <1>2, <2>1, <2>6, TakenShort, Short DEF Holds
    <3>2. pc' \in 2..3 /\ said' = 2
      BY <2>1, <2>6
    <3> QED BY <3>1, <3>2 DEF SigactionCourse, Holds
  <2>7. CASE said = 2 /\ pc \in 2..3 /\ Holds(<<"SIGUSR1">>, <<"SIGTERM">>)
    <3>1. /\ pending' = <<>> /\ Names' = <<"SIGTERM", "SIGUSR1">>
          /\ pending[i] = "SIGUSR1"
      BY <1>2, <2>1, <2>7, TakenShort, Short DEF Holds
    <3> QED BY <2>1, <2>2, <2>7, <3>1 DEF SigactionCourse, Holds
  <2> QED BY <2>3, <2>4, <2>5, <2>6, <2>7
<1>3. CASE gy2!Tick
  BY <1>0, <1>3 DEF gy2!Tick
<1>4. CASE gy2!Parent \/ gy2!Stop \/ UNCHANGED gy2!vars
  <2>1. parent # "failed"
    BY <1>4 DEF gy2!Parent, gy2!Stop, gy2!vars, gy2!Start, gy2!Fork, gy2!Enter,
                gy2!Unblock, gy2!Wait, gy2!ForkFails, gy2!TimerFails, gy2!Call
  <2>2. /\ pending' = pending /\ Names' = Names /\ said' = said
        /\ \/ pc' = pc
           \/ pc = 0 /\ pc' = 1
           \/ gy2!Call \in {"fork", "unblock"} /\ parent = "run" /\ pc' = pc + 1
    BY <1>0, <1>4, QuietTaken
  <2>3. gy2!Call \in {"fork", "unblock"} /\ parent = "run" => pc = 1
    <3>1. parent = "run" => pc \in 1..3 /\ gy2!Call = gy2!Calls["sigaction"][pc]
      BY <1>0, CallsAt DEF SignalsInv, Course, gy2!Call
    <3> QED BY <3>1, CallsAt
  <2> QED BY <1>0, <2>1, <2>2, <2>3 DEF SigactionCourse, Holds
<1> QED
  BY <1>1, <1>2, <1>3, <1>4
  DEF gy2!Next, gy2!Child, gy2!Deliver

\* The parent of sigprocmask.c, which keeps SIGTERM blocked up to its unblock.
LEMMA SigprocmaskCourseStep ==
  ASSUME exercise = "sigprocmask", SignalsInv, [gy2!Next]_(gy2!vars),
         parent' # "failed"
  PROVE  SigprocmaskCourse'
<1>0. /\ exercise \in gy2!Demo
      /\ parent # "failed" => SigprocmaskCourse
      /\ pc \in Nat /\ said \in Nat /\ ForkAt = 1 /\ ~timer
  BY CallsAt, SaysKnown DEF gy2!Demo, SignalsInv, DemoCourse, gy2!TypeOK, Course, ForkAt
<1>1. CASE gy2!Send
  <2>1. /\ parent = "run" /\ pc' = pc /\ said' = said + 1 /\ pc > 1
        /\ pending' = gy2!Posted(gy2!Says["sigprocmask"][said + 1])
        /\ Names' = Names /\ said < 2
    BY <1>0, <1>1, SendTaken, SaysKnown
  <2>2. /\ gy2!Says["sigprocmask"][1] = "SIGTERM"
        /\ gy2!Says["sigprocmask"][2] = "SIGUSR1"
        /\ gy2!Number("SIGUSR1") # gy2!Number("SIGTERM")
    BY SaysKnown DEF gy2!Number
  <2>3. \/ said = 0 /\ pc = 2 /\ Holds(<<>>, <<>>)
        \/ said = 1 /\ pc = 2 /\ Holds(<<"SIGTERM">>, <<>>)
    BY <1>0, <2>1 DEF SigprocmaskCourse
  <2> QED
    BY <2>1, <2>2, <2>3, PostedShort DEF SigprocmaskCourse, Holds
<1>2. ASSUME NEW i \in DOMAIN pending, gy2!Handler(i)
      PROVE  SigprocmaskCourse'
  <2>1. /\ parent = "run" /\ said' = said /\ pending' = Without(pending, i)
        /\ Names' = Append(Names, pending[i])
        /\ pc' = IF inside THEN pc + 1 ELSE pc
        /\ inside => gy2!Call \in {"pause", "sigsuspend"}
        /\ gy2!Deliverable(i)
    BY <1>0, <1>2, HandlerTaken
  <2>2. /\ inside => pc = 2
        /\ pc <= 3 => pending[i] # "SIGTERM"
    <3>1. pc \in 1..4 /\ gy2!Call = gy2!Calls["sigprocmask"][pc]
      BY <1>0, <2>1, CallsAt DEF SignalsInv, Course, gy2!Call
    <3>2. inside => pc = 2
      BY <2>1, <3>1, CallsAt
    <3>3. gy2!Call # "sigsuspend"
      BY <3>1, CallsAt
    <3>4. pc <= 3 => gy2!Blocked = {"SIGTERM"}
      BY <3>3 DEF gy2!Blocked
    <3>5. gy2!Number("SIGTERM") = "SIGTERM"
      BY DEF gy2!Number
    <3> QED BY <2>1, <3>2, <3>4, <3>5 DEF gy2!Deliverable
  <2>3. \/ said = 1 /\ pc = 2 /\ Holds(<<"SIGTERM">>, <<>>)
        \/ said = 2 /\ pc = 2 /\ Holds(<<"SIGTERM", "SIGUSR1">>, <<>>)
        \/ said = 2 /\ pc \in 2..4 /\ Holds(<<"SIGTERM">>, <<"SIGUSR1">>)
    BY <1>0, <1>2, <2>1, TakenShort DEF SigprocmaskCourse, Holds
  <2>4. CASE said = 1 /\ pc = 2 /\ Holds(<<"SIGTERM">>, <<>>)
    <3>1. pending[i] = "SIGTERM"
      BY <1>2, <2>4, TakenShort DEF Holds
    <3> QED BY <2>2, <2>4, <3>1
  <2>5. CASE said = 2 /\ pc = 2 /\ Holds(<<"SIGTERM", "SIGUSR1">>, <<>>)
    <3>1. \/ pending[i] = "SIGTERM"
          \/ pending' = <<"SIGTERM">> /\ Names' = <<"SIGUSR1">>
      BY <1>2, <2>1, <2>5, TakenShort, Short DEF Holds
    <3> QED BY <2>1, <2>2, <2>5, <3>1 DEF SigprocmaskCourse, Holds
  <2>6. CASE said = 2 /\ pc \in 2..4 /\ Holds(<<"SIGTERM">>, <<"SIGUSR1">>)
    <3>1. /\ pending' = <<>> /\ Names' = <<"SIGUSR1", "SIGTERM">>
          /\ pending[i] = "SIGTERM"
      BY <1>2, <2>1, <2>6, TakenShort, Short DEF Holds
    <3>2. pc' = 4 /\ said' = 2
      BY <2>1, <2>2, <2>6, <3>1
    <3> QED BY <3>1, <3>2 DEF SigprocmaskCourse, Holds
  <2> QED BY <2>3, <2>4, <2>5, <2>6
<1>3. CASE gy2!Tick
  BY <1>0, <1>3 DEF gy2!Tick
<1>4. CASE gy2!Parent \/ gy2!Stop \/ UNCHANGED gy2!vars
  <2>1. parent # "failed"
    BY <1>4 DEF gy2!Parent, gy2!Stop, gy2!vars, gy2!Start, gy2!Fork, gy2!Enter,
                gy2!Unblock, gy2!Wait, gy2!ForkFails, gy2!TimerFails, gy2!Call
  <2>2. /\ pending' = pending /\ Names' = Names /\ said' = said
        /\ \/ pc' = pc
           \/ pc = 0 /\ pc' = 1
           \/ gy2!Call \in {"fork", "unblock"} /\ parent = "run" /\ pc' = pc + 1
    BY <1>0, <1>4, QuietTaken
  <2>3. gy2!Call \in {"fork", "unblock"} /\ parent = "run" => pc \in {1, 3}
    <3>1. parent = "run" => pc \in 1..4 /\ gy2!Call = gy2!Calls["sigprocmask"][pc]
      BY <1>0, CallsAt DEF SignalsInv, Course, gy2!Call
    <3> QED BY <3>1, CallsAt
  <2> QED BY <1>0, <2>1, <2>2, <2>3 DEF SigprocmaskCourse, Holds
<1> QED
  BY <1>1, <1>2, <1>3, <1>4
  DEF gy2!Next, gy2!Child, gy2!Deliver

\* The parent of sigaction_value.c, whose timer runs out before it forks.
LEMMA ValueCourseStep ==
  ASSUME exercise = "sigaction_value", SignalsInv, [gy2!Next]_(gy2!vars),
         parent' # "failed"
  PROVE  ValueCourse'
<1>0. /\ exercise \in gy2!Demo
      /\ parent # "failed" => ValueCourse
      /\ pc \in Nat /\ said \in Nat /\ ForkAt = 2
      /\ parent = "off" => ~timer /\ pc = 0
      /\ child = "none" => said = 0
      /\ parent = "run" => /\ pc \in 1..5
                           /\ gy2!Call = gy2!Calls["sigaction_value"][pc]
                           /\ pc <= 2 => child = "none"
  BY CallsAt, SaysKnown
  DEF gy2!Demo, SignalsInv, DemoCourse, gy2!TypeOK, Course, ForkAt, gy2!Call
<1>1. CASE gy2!Send
  <2>1. /\ parent = "run" /\ pc' = pc /\ said' = said + 1 /\ pc > 2
        /\ pending' = gy2!Posted(gy2!Says["sigaction_value"][said + 1])
        /\ Names' = Names /\ said < 2 /\ timer' = timer
    BY <1>0, <1>1, SendTaken, SaysKnown
  <2>2. /\ gy2!Says["sigaction_value"][1] = "kill"
        /\ gy2!Says["sigaction_value"][2] = "sigqueue"
        /\ gy2!Number("kill") = gy2!Number("sigqueue")
    BY SaysKnown DEF gy2!Number
  <2>3. \/ said = 0 /\ pc = 3 /\ ~timer /\ Holds(<<>>, <<"timer">>)
        \/ said = 1 /\ pc = 3 /\ ~timer /\ Holds(<<"kill">>, <<"timer">>)
        \/ said = 1 /\ pc \in 3..4 /\ ~timer /\ Holds(<<>>, <<"timer", "kill">>)
    BY <1>0, <2>1 DEF ValueCourse
  <2>4. CASE said = 0 /\ pc = 3 /\ ~timer /\ Holds(<<>>, <<"timer">>)
    BY <2>1, <2>2, <2>4, PostedShort DEF ValueCourse, Holds
  <2>5. CASE said = 1 /\ pc = 3 /\ ~timer /\ Holds(<<"kill">>, <<"timer">>)
    <3>1. pending' = <<"kill">>
      BY <2>1, <2>2, <2>5, PostedShort DEF Holds
    <3> QED BY <2>1, <2>5, <3>1 DEF ValueCourse, Holds
  <2>6. CASE said = 1 /\ pc \in 3..4 /\ ~timer /\ Holds(<<>>, <<"timer", "kill">>)
    <3>1. pending' = <<"sigqueue">> /\ Names' = <<"timer", "kill">>
      BY <2>1, <2>2, <2>6, PostedShort DEF Holds
    <3>2. pc' \in 3..4 /\ ~timer' /\ said' = 2
      BY <2>1, <2>6
    <3> QED BY <3>1, <3>2 DEF ValueCourse, Holds
  <2> QED BY <2>3, <2>4, <2>5, <2>6
<1>2. ASSUME NEW i \in DOMAIN pending, gy2!Handler(i)
      PROVE  ValueCourse'
  <2>1. /\ parent = "run" /\ said' = said /\ pending' = Without(pending, i)
        /\ Names' = Append(Names, pending[i]) /\ pc' \in {pc, pc + 1}
        /\ timer' = (timer /\ pending[i] # "timer")
    BY <1>0, <1>2, HandlerTaken
  <2>2. \/ pc = 1 /\ Holds(<<"timer">>, <<>>)
        \/ pc = 3 /\ ~timer /\ said \in 1..2 /\ Holds(<<"kill">>, <<"timer">>)
        \/ pc \in 3..4 /\ ~timer /\ said = 2 /\ Holds(<<"sigqueue">>, <<"timer", "kill">>)
    BY <1>0, <1>2, <2>1, TakenShort DEF ValueCourse, Holds
  <2>3. CASE pc = 1 /\ Holds(<<"timer">>, <<>>)
    <3>1. pending[i] = "timer" /\ pending' = <<>> /\ Names' = <<"timer">>
      BY <1>2, <2>1, <2>3, TakenShort, Short DEF Holds
    <3>2. pc' \in 1..3 /\ said' = 0
      BY <1>0, <2>1, <2>3
    <3>3. ~timer'
      BY <2>1, <3>1, Zenon
    <3> QED BY <3>1, <3>2, <3>3 DEF ValueCourse, Holds
  <2>4. CASE pc = 3 /\ ~timer /\ said \in 1..2 /\ Holds(<<"kill">>, <<"timer">>)
    <3>1. pending' = <<>> /\ Names' = <<"timer", "kill">>
      BY <1>2, <2>1, <2>4, TakenShort, Short DEF Holds
    <3>2. pc' \in 3..4 /\ said' \in 1..2
      BY <2>1, <2>4
    <3>3. ~timer'
      BY <2>1, <2>4, Zenon
    <3> QED BY <3>1, <3>2, <3>3 DEF ValueCourse, Holds
  <2>5. CASE pc \in 3..4 /\ ~timer /\ said = 2 /\ Holds(<<"sigqueue">>, <<"timer", "kill">>)
    <3>1. pending' = <<>> /\ Names' = <<"timer", "kill", "sigqueue">>
      BY <1>2, <2>1, <2>5, TakenShort, Three DEF Holds
    <3>2. pc' \in 3..5 /\ said' = 2
      BY <2>1, <2>5
    <3>3. ~timer'
      BY <2>1, <2>5, Zenon
    <3> QED BY <3>1, <3>2, <3>3 DEF ValueCourse, Holds
  <2> QED BY <2>2, <2>3, <2>4, <2>5
<1>3. CASE gy2!Tick
  <2>1. /\ timer /\ pending = <<>> /\ pending' = gy2!Posted("timer")
        /\ pc' = pc /\ said' = said /\ Names' = Names /\ parent' = parent
    BY <1>3 DEF gy2!Tick, Names, gy2!Handled
  <2>2. pending' = <<"timer">>
    BY <2>1, PostedShort
  <2>3. pc = 1 /\ Names = <<>>
    <3>1. parent \in {"run", "done"}
      BY <1>0, <2>1 DEF SignalsInv, gy2!TypeOK
    <3>2. pc > 0
      BY <1>0, <3>1, CallsAt DEF SignalsInv, Course
    <3> QED BY <1>0, <2>1, <3>1, <3>2 DEF ValueCourse, Holds
  <2> QED BY <2>1, <2>2, <2>3 DEF ValueCourse, Holds
<1>4. CASE gy2!Parent \/ gy2!Stop \/ UNCHANGED gy2!vars
  <2>1. parent # "failed"
    BY <1>4 DEF gy2!Parent, gy2!Stop, gy2!vars, gy2!Start, gy2!Fork, gy2!Enter,
                gy2!Unblock, gy2!Wait, gy2!ForkFails, gy2!TimerFails, gy2!Call
  <2>2. /\ pending' = pending /\ Names' = Names /\ said' = said
        /\ \/ pc' = pc /\ timer' = timer
           \/ pc = 0 /\ pc' = 1
           \/ /\ gy2!Call \in {"fork", "unblock"} /\ parent = "run"
              /\ pc' = pc + 1 /\ timer' = timer
    BY <1>0, <1>4, QuietTaken
  <2>3. gy2!Call \in {"fork", "unblock"} /\ parent = "run" => pc = 2
    BY <1>0, CallsAt
  <2>4. CASE pc' = pc /\ timer' = timer
    BY <1>0, <2>1, <2>2, <2>4 DEF ValueCourse, Holds
  <2>5. CASE pc = 0 /\ pc' = 1
    BY <1>0, <2>1, <2>2, <2>5 DEF ValueCourse, Holds
  <2>6. CASE pc = 2 /\ pc' = 3 /\ timer' = timer
    BY <1>0, <2>1, <2>2, <2>6 DEF ValueCourse, Holds
  <2> QED BY <2>2, <2>3, <2>4, <2>5, <2>6
<1> QED
  BY <1>1, <1>2, <1>3, <1>4
  DEF gy2!Next, gy2!Child, gy2!Deliver

LEMMA NamesSeq ==
  ASSUME handled \in Seq(gy2!Signal \X BOOLEAN)
  PROVE  Names \in Seq(gy2!Signal) /\ DOMAIN Names = DOMAIN handled
<1>1. PICK n \in Nat : n = Len(handled) /\ DOMAIN handled = 1..n
  BY LenProperties
<1>2. Names = [i \in 1..n |-> handled[i][1]]
  BY <1>1 DEF Names, gy2!Handled
<1>3. \A i \in 1..n : handled[i][1] \in gy2!Signal
  <2>1. \A i \in 1..n : handled[i] \in gy2!Signal \X BOOLEAN
    BY <1>1, ElementOfSeq
  <2> QED BY <2>1
<1>4. Names \in Seq(gy2!Signal)
  BY <1>2, <1>3, SeqDef
<1> QED BY <1>1, <1>2, <1>4

LEMMA AmountKnown ==
  ASSUME NEW S, NEW q \in Seq(S), NEW s
  PROVE  /\ Amount(q, s) \in Nat
         /\ \A i \in DOMAIN q : q[i] = s => Amount(q, s) > 0
         /\ q = <<>> => Amount(q, s) = 0
<1>1. PICK n \in Nat : n = Len(q) /\ DOMAIN q = 1..n
  BY LenProperties
<1> DEFINE A == {i \in DOMAIN q : q[i] = s}
<1>2. IsFiniteSet(A)
  <2>1. IsFiniteSet(1..n) /\ A \in SUBSET (1..n)
    BY <1>1, FS_Interval
  <2> QED BY <2>1, FS_Subset
<1>3. Cardinality(A) \in Nat /\ (Cardinality(A) = 0 <=> A = {})
  <2> HIDE DEF A
  <2> QED BY <1>2, FS_CardinalityType, FS_EmptySet
<1>4. ASSUME NEW i \in DOMAIN q, q[i] = s PROVE Cardinality(A) > 0
  <2>1. A # {}
    BY <1>4
  <2> HIDE DEF A
  <2> QED BY <1>3, <2>1
<1>5. ASSUME q = <<>> PROVE Cardinality(A) = 0
  <2>1. A = {}
    BY <1>5
  <2> QED BY <1>3, <2>1
<1> QED BY <1>3, <1>4, <1>5 DEF Amount

\* A signal of sigaction_multiple.c that is posted.
LEMMA MultipleSend ==
  ASSUME exercise = "sigaction_multiple", SignalsInv, MultipleCourse, gy2!Send
  PROVE  MultipleCourse'
<1> DEFINE s == gy2!Says[exercise][said + 1]
           r == Amount(pending, "SIGRTMIN")
           u == Amount(pending, "SIGUSR1")
           hr == Amount(Names, "SIGRTMIN")
           hu == Amount(Names, "SIGUSR1")
<1>1. /\ exercise \in gy2!Demo /\ said \in Nat
      /\ pending \in Seq(gy2!Signal) /\ handled \in Seq(gy2!Signal \X BOOLEAN)
  BY SaysKnown, ExercisesAssumption DEF SignalsInv, gy2!TypeOK, gy2!Demo
<1>2. /\ said < 2 * Repeats /\ said' = said + 1 /\ Names' = Names
      /\ pending' = gy2!Posted(s)
  BY <1>1, SendTaken, SaysKnown
<1>3. s = IF (said + 1) % 2 = 1 THEN "SIGUSR1" ELSE "SIGRTMIN"
  <2>1. said + 1 \in 1..2 * Repeats
    BY <1>1, <1>2, ExercisesAssumption
  <2> QED BY <2>1, SaysKnown DEF SaysMultiple
<1>4. Names \in Seq(gy2!Signal)
  BY <1>1, NamesSeq
<1>5. r \in Nat /\ u \in Nat /\ hr \in Nat /\ hu \in Nat
  BY <1>1, <1>4, AmountKnown
<1>6. s \in gy2!Signal
  BY <1>3 DEF gy2!Signal
<1>7. /\ Amount(Append(pending, s), "SIGRTMIN") = IF s = "SIGRTMIN" THEN r + 1 ELSE r
      /\ Amount(Append(pending, s), "SIGUSR1") = IF s = "SIGUSR1" THEN u + 1 ELSE u
  BY <1>1, <1>6, AmountAppend
<1>8. CASE s = "SIGRTMIN"
  <2>1. (said + 1) % 2 = 0
    BY <1>1, <1>3, <1>8
  <2>2. /\ Amount(pending', "SIGRTMIN") = r + 1
        /\ Amount(pending', "SIGUSR1") = u
    BY <1>2, <1>7, <1>8 DEF gy2!Posted
  <2>3. /\ said > 0 /\ (said + 1) \div 2 = said \div 2 + 1
        /\ (said + 2) \div 2 = (said + 1) \div 2
    BY <1>1, <2>1
  <2> HIDE DEF s, r, u, hr, hu
  <2> QED BY <1>1, <1>2, <1>5, <2>2, <2>3 DEF MultipleCourse, r, u, hr, hu
<1>9. CASE s = "SIGUSR1"
  <2>1. (said + 1) % 2 = 1
    BY <1>1, <1>3, <1>9
  <2>2. /\ Amount(pending', "SIGRTMIN") = r
        /\ Amount(pending', "SIGUSR1") \in {u, u + 1}
        /\ Amount(pending', "SIGUSR1") > 0
    <3>1. CASE pending' = Append(pending, s)
      BY <1>5, <1>7, <1>9, <3>1
    <3>2. CASE pending' # Append(pending, s)
      <4>1. pending' = pending /\ \E i \in DOMAIN pending : gy2!Number(pending[i]) = gy2!Number(s)
        BY <1>2, <3>2 DEF gy2!Posted
      <4>2. PICK i \in DOMAIN pending : pending[i] = "SIGUSR1"
        BY <1>9, <4>1 DEF gy2!Number
      <4> QED BY <1>1, <4>1, <4>2, AmountKnown
    <3> QED BY <3>1, <3>2
  <2>3. /\ (said + 1) \div 2 = said \div 2
        /\ (said + 2) \div 2 = (said + 1) \div 2 + 1
    BY <1>1, <2>1
  <2>4. r + hr = said \div 2 /\ u + hu <= (said + 1) \div 2
    BY DEF MultipleCourse
  <2>5. PICK v : v = Amount(pending', "SIGUSR1")
    OBVIOUS
  <2>6. /\ r + hr = (said + 1) \div 2
        /\ v + hu <= (said + 2) \div 2 /\ v + hu > 0
    <3> HIDE DEF s, r, u, hr, hu
    <3> QED BY <1>1, <1>5, <2>2, <2>3, <2>4, <2>5
  <2>7. (said' + 1) \div 2 = (said + 2) \div 2 /\ said' \div 2 = (said + 1) \div 2
    <3>1. said' + 1 = said + 2
      BY <1>1, <1>2
    <3> QED BY <1>2, <3>1
  <2> QED BY <1>2, <2>2, <2>5, <2>6, <2>7 DEF MultipleCourse
<1> QED BY <1>3, <1>8, <1>9

\* sigaction_multiple.c, where what is taken off is counted as handled.
LEMMA MultipleCourseStep ==
  ASSUME exercise = "sigaction_multiple", SignalsInv, [gy2!Next]_(gy2!vars),
         parent' # "failed"
  PROVE  MultipleCourse'
<1>0. /\ exercise \in gy2!Demo
      /\ parent # "failed" => MultipleCourse
      /\ pending \in Seq(gy2!Signal) /\ handled \in Seq(gy2!Signal \X BOOLEAN)
      /\ ~timer
  BY DEF gy2!Demo, SignalsInv, DemoCourse, gy2!TypeOK, Course
<1>1. CASE gy2!Send
  <2>1. parent = "run"
    BY <1>0, <1>1, SendTaken
  <2> QED BY <1>0, <1>1, <2>1, MultipleSend
<1>2. ASSUME NEW i \in DOMAIN pending, gy2!Handler(i)
      PROVE  MultipleCourse'
  <2>1. /\ parent = "run" /\ said' = said /\ pending' = Without(pending, i)
        /\ Names' = Append(Names, pending[i]) /\ i \in 1..Len(pending)
        /\ pending[i] \in gy2!Signal
    BY <1>0, <1>2, HandlerTaken
  <2>2. Names \in Seq(gy2!Signal) /\ Without(pending, i) \in Seq(gy2!Signal)
    BY <1>0, <2>1, NamesSeq, WithoutSeq
  <2>3. ASSUME NEW s
        PROVE  /\ Amount(pending', s) + Amount(Names', s)
                    = Amount(pending, s) + Amount(Names, s)
    <3>1. /\ Amount(pending, s) \in Nat /\ Amount(Names, s) \in Nat
          /\ Amount(Without(pending, i), s) \in Nat
      BY <1>0, <2>2, AmountKnown
    <3>2. Amount(pending, s) =
            IF pending[i] = s THEN Amount(pending', s) + 1 ELSE Amount(pending', s)
      BY <1>0, <2>1, AmountWithout
    <3>3. Amount(Names', s) =
            IF pending[i] = s THEN Amount(Names, s) + 1 ELSE Amount(Names, s)
      BY <2>1, <2>2, AmountAppend
    <3> QED BY <2>1, <3>1, <3>2, <3>3
  <2> QED BY <1>0, <2>1, <2>3 DEF MultipleCourse
<1>3. CASE gy2!Tick
  BY <1>0, <1>3 DEF gy2!Tick
<1>4. CASE gy2!Parent \/ gy2!Stop \/ UNCHANGED gy2!vars
  <2>1. parent # "failed"
    BY <1>4 DEF gy2!Parent, gy2!Stop, gy2!vars, gy2!Start, gy2!Fork, gy2!Enter,
                gy2!Unblock, gy2!Wait, gy2!ForkFails, gy2!TimerFails, gy2!Call
  <2>2. pending' = pending /\ Names' = Names /\ said' = said
    BY <1>0, <1>4, QuietTaken
  <2> QED BY <1>0, <2>1, <2>2 DEF MultipleCourse
<1> QED
  BY <1>1, <1>2, <1>3, <1>4
  DEF gy2!Next, gy2!Child, gy2!Deliver

LEMMA DemoCourseStep ==
  ASSUME exercise \in gy2!Demo, SignalsInv, [gy2!Next]_(gy2!vars),
         parent' # "failed", exercise' = exercise
  PROVE  DemoCourse'
<1>1. CASE exercise = "signal"
  BY <1>1, SignalCourseStep DEF DemoCourse
<1>2. CASE exercise = "sigaction"
  BY <1>2, SigactionCourseStep DEF DemoCourse
<1>3. CASE exercise = "sigprocmask"
  BY <1>3, SigprocmaskCourseStep DEF DemoCourse
<1>4. CASE exercise = "sigaction_value"
  BY <1>4, ValueCourseStep DEF DemoCourse
<1>5. CASE exercise = "sigaction_multiple"
  BY <1>5, MultipleCourseStep DEF DemoCourse
<1> QED BY <1>1, <1>2, <1>3, <1>4, <1>5 DEF gy2!Demo

LEMMA SayingsKnown ==
  ASSUME exercise \in gy2!Demo
  PROVE  /\ Len(gy2!Says[exercise]) \in Nat \ {0}
         /\ \A k \in 1..Len(gy2!Says[exercise]) :
              gy2!Says[exercise][k] \in gy2!Signal
<1> USE DEF gy2!Signal
<1>1. CASE exercise = "signal"
  BY <1>1, SaysKnown
<1>2. CASE exercise = "sigaction"
  BY <1>2, SaysKnown
<1>3. CASE exercise = "sigprocmask"
  BY <1>3, SaysKnown
<1>4. CASE exercise = "sigaction_value"
  BY <1>4, SaysKnown
<1>5. CASE exercise = "sigaction_multiple"
  BY <1>5, SaysKnown, ExercisesAssumption DEF SaysMultiple
<1> QED BY <1>1, <1>2, <1>3, <1>4, <1>5 DEF gy2!Demo

LEMMA CallsLength ==
  ASSUME exercise \in gy2!Demo
  PROVE  /\ Len(gy2!Calls[exercise]) \in Nat /\ Len(gy2!Calls[exercise]) > ForkAt
         /\ gy2!Calls[exercise][ForkAt] = "fork"
         /\ gy2!Calls[exercise][Len(gy2!Calls[exercise])] = "wait"
         /\ \A k \in 1..Len(gy2!Calls[exercise]) :
              /\ gy2!Calls[exercise][k] = "fork" => k = ForkAt
              /\ gy2!Calls[exercise][k] = "wait" <=> k = Len(gy2!Calls[exercise])
<1>1. CASE exercise = "signal"
  BY <1>1, CallsAt DEF ForkAt
<1>2. CASE exercise = "sigaction"
  BY <1>2, CallsAt DEF ForkAt
<1>3. CASE exercise = "sigprocmask"
  BY <1>3, CallsAt DEF ForkAt
<1>4. CASE exercise = "sigaction_value"
  BY <1>4, CallsAt DEF ForkAt
<1>5. CASE exercise = "sigaction_multiple"
  BY <1>5, CallsAt DEF ForkAt
<1> QED BY <1>1, <1>2, <1>3, <1>4, <1>5 DEF gy2!Demo

\* Before the last wait the child has sent all, but in sigaction_multiple.c.
LEMMA AllSaid ==
  ASSUME exercise \in gy2!Demo, exercise # "sigaction_multiple", SignalsInv,
         parent \in {"run", "done"}, pc = Len(gy2!Calls[exercise])
  PROVE  ~timer /\ child # "send"
<1>1. /\ child = "send" => said < Len(gy2!Says[exercise])
      /\ exercise # "sigaction_value" => ~timer
      /\ DemoCourse
  BY DEF SignalsInv, Course
<1>2. CASE exercise = "signal"
  <2>1. SignalCourse /\ pc = 3 /\ Len(gy2!Says[exercise]) = 1
    BY <1>1, <1>2, CallsAt, SaysKnown DEF DemoCourse
  <2> QED BY <1>1, <1>2, <2>1 DEF SignalCourse
<1>3. CASE exercise = "sigaction"
  <2>1. SigactionCourse /\ pc = 3 /\ Len(gy2!Says[exercise]) = 2
    BY <1>1, <1>3, CallsAt, SaysKnown DEF DemoCourse
  <2> QED BY <1>1, <1>3, <2>1 DEF SigactionCourse
<1>4. CASE exercise = "sigprocmask"
  <2>1. SigprocmaskCourse /\ pc = 4 /\ Len(gy2!Says[exercise]) = 2
    BY <1>1, <1>4, CallsAt, SaysKnown DEF DemoCourse
  <2>2. said = 2
    BY <2>1 DEF SigprocmaskCourse
  <2> QED BY <1>1, <1>4, <2>1, <2>2
<1>5. CASE exercise = "sigaction_value"
  <2>1. ValueCourse /\ pc = 5 /\ Len(gy2!Says[exercise]) = 2
    BY <1>1, <1>5, CallsAt, SaysKnown DEF DemoCourse
  <2> QED BY <1>1, <2>1 DEF ValueCourse
<1> QED BY <1>2, <1>3, <1>4, <1>5 DEF gy2!Demo

\* The calls of the parent and the life of its child.
LEMMA CourseStep ==
  ASSUME exercise \in gy2!Demo, SignalsInv, [gy2!Next]_(gy2!vars)
  PROVE  Course'
<1> DEFINE last == Len(gy2!Calls[exercise])
           all  == Len(gy2!Says[exercise])
<1>1. /\ last \in Nat /\ last > ForkAt /\ all \in Nat \ {0}
      /\ \A k \in 1..last : /\ gy2!Calls[exercise][k] = "fork" => k = ForkAt
                            /\ gy2!Calls[exercise][k] = "wait" <=> k = last
  BY CallsLength, SayingsKnown
<1>2. ForkAt \in {1, 2}
  BY DEF ForkAt
<1>3. /\ parent \in {"off", "run", "done", "failed"}
      /\ child \in {"none", "send", "end"}
      /\ said \in Nat
  BY <1>1 DEF SignalsInv, gy2!TypeOK
<1>4. /\ Course
      /\ parent = "run" => pc \in 1..last
  BY DEF SignalsInv, Course
<1>5. parent = "run" => gy2!Call = gy2!Calls[exercise][pc]
  BY DEF gy2!Call
<1>6. ASSUME NEW i \in DOMAIN pending, gy2!Handler(i)
      PROVE  Course'
  <2>1. /\ parent = "run" /\ parent' = "run" /\ child' = child
        /\ said' = said /\ exercise' = exercise
        /\ timer' = (timer /\ pending[i] # "timer")
        /\ exercise = "sigaction_multiple" => pc' = pc /\ inside' = inside
        /\ exercise # "sigaction_multiple" =>
             /\ inside' = FALSE /\ pc' = IF inside THEN pc + 1 ELSE pc
             /\ inside => gy2!Call \in {"pause", "sigsuspend"}
    BY <1>6, HandlerTaken
  <2>2. exercise # "sigaction_value" => ~timer'
    <3>1. exercise # "sigaction_value" => ~timer
      BY <1>4 DEF Course
    <3> QED BY <2>1, <3>1, Zenon
  <2>3. CASE pc' = pc
    <3>1. inside' => inside /\ gy2!Call' = gy2!Call
      BY <2>1, <2>3 DEF gy2!Call
    <3> QED BY <1>4, <2>1, <2>2, <2>3, <3>1 DEF Course, ForkAt
  <2>4. CASE pc' = pc + 1 /\ inside /\ gy2!Call \in {"pause", "sigsuspend"}
    <3>1. pc < last /\ inside' = FALSE
      <4>1. pc # last
        BY <1>1, <1>4, <1>5, <2>1, <2>4
      <4>2. exercise # "sigaction_multiple"
        <5>1. pc \in Nat /\ pc + 1 # pc
          BY <1>1, <1>4, <2>1
        <5> QED BY <2>1, <2>4, <5>1
      <4> QED BY <1>1, <1>4, <2>1, <4>1, <4>2
    <3>2. pc' \in 1..last
      BY <1>1, <1>4, <2>1, <2>4, <3>1
    <3>3. child = "none" <=> pc' <= ForkAt
      <4>1. CASE exercise = "sigaction_value"
        <5>1. ForkAt = 2 /\ gy2!Calls[exercise][2] = "fork"
          BY <4>1, CallsAt DEF ForkAt
        <5>2. pc # 2
          BY <1>5, <2>1, <2>4, <5>1
        <5> QED BY <1>4, <2>1, <2>4, <5>1, <5>2 DEF Course
      <4>2. CASE exercise # "sigaction_value"
        <5>1. ForkAt = 1 /\ gy2!Calls[exercise][1] = "fork"
          BY <4>2, CallsAt DEF ForkAt, gy2!Demo
        <5>2. pc # 1
          BY <1>5, <2>1, <2>4, <5>1
        <5> QED BY <1>4, <2>1, <2>4, <5>1, <5>2 DEF Course
      <4> QED BY <4>1, <4>2
    <3> QED BY <1>4, <2>1, <2>2, <3>1, <3>2, <3>3 DEF Course, ForkAt
  <2> QED BY <2>1, <2>3, <2>4
<1>7. CASE gy2!Send
  <2>1. /\ parent = "run" /\ parent' = "run" /\ pc' = pc /\ inside' = inside
        /\ child = "send" /\ said < all /\ said' = said + 1
        /\ child' = IF said' = all THEN "end" ELSE "send"
        /\ timer' = timer /\ pc > ForkAt /\ exercise' = exercise
    BY <1>7, SendTaken
  <2>2. gy2!Call' = gy2!Call
    BY <2>1 DEF gy2!Call
  <2>3. child' = "send" => said' < all
    BY <1>1, <1>3, <2>1
  <2> QED BY <1>2, <1>4, <2>1, <2>2, <2>3 DEF Course, ForkAt
<1>8. CASE gy2!Tick
  <2>1. gy2!Call' = gy2!Call
    BY <1>8 DEF gy2!Tick, gy2!Call
  <2>2. parent # "off"
    BY <1>4, <1>8 DEF gy2!Tick, Course
  <2> QED BY <1>4, <1>8, <2>1, <2>2 DEF gy2!Tick, Course, ForkAt
<1>9. CASE gy2!Start
  <2>1. 1 \in 1..last /\ 1 <= ForkAt
    BY <1>1, <1>2
  <2> QED BY <1>4, <1>9, <2>1 DEF gy2!Start, Course, ForkAt
<1>10. CASE gy2!Fork
  <2>1. parent = "run" /\ pc = ForkAt /\ ~inside
    <3>1. parent = "run"
      BY <1>10 DEF gy2!Fork, gy2!Call
    <3>2. pc = ForkAt
      BY <1>1, <1>4, <1>5, <1>10, <3>1 DEF gy2!Fork
    <3>3. ~inside
      BY <1>4, <1>10 DEF gy2!Fork, Course
    <3> QED BY <3>1, <3>2, <3>3
  <2>2. pc + 1 \in 1..last /\ ~(pc + 1 <= ForkAt) /\ said = 0
    <3>1. child = "none"
      BY <1>2, <1>4, <2>1 DEF Course
    <3> QED BY <1>1, <1>2, <1>4, <2>1, <3>1 DEF Course
  <2> QED BY <1>1, <1>4, <1>10, <2>1, <2>2 DEF gy2!Fork, Course, ForkAt
<1>11. CASE gy2!Enter
  <2>1. gy2!Call' = gy2!Call /\ parent = "run"
    BY <1>11 DEF gy2!Enter, gy2!Call
  <2> QED BY <1>4, <1>11, <2>1 DEF gy2!Enter, Course, ForkAt
<1>12. CASE gy2!Unblock
  <2>1. parent = "run" /\ exercise = "sigprocmask" /\ pc = 3 /\ ~inside
    <3>1. parent = "run" /\ ~inside
      BY <1>4, <1>12 DEF gy2!Unblock, gy2!Call, Course
    <3>2. gy2!Calls[exercise][pc] = "unblock"
      BY <1>5, <1>12, <3>1 DEF gy2!Unblock
    <3>3. CASE exercise = "signal"
      BY <1>4, <3>1, <3>2, <3>3, CallsAt
    <3>4. CASE exercise = "sigaction"
      BY <1>4, <3>1, <3>2, <3>4, CallsAt
    <3>5. CASE exercise = "sigaction_multiple"
      BY <1>4, <3>1, <3>2, <3>5, CallsAt
    <3>6. CASE exercise = "sigaction_value"
      BY <1>4, <3>1, <3>2, <3>6, CallsAt
    <3>7. CASE exercise = "sigprocmask"
      BY <1>4, <3>1, <3>2, <3>7, CallsAt
    <3> QED BY <3>3, <3>4, <3>5, <3>6, <3>7 DEF gy2!Demo
  <2>2. pc + 1 \in 1..last /\ ForkAt = 1
    BY <2>1, CallsAt DEF ForkAt
  <2> QED BY <1>4, <1>12, <2>1, <2>2 DEF gy2!Unblock, Course, ForkAt
<1>13. CASE gy2!Wait
  <2>1. parent = "run" /\ pc = last
    <3>1. parent = "run"
      BY <1>13 DEF gy2!Wait, gy2!Call
    <3> QED BY <1>1, <1>4, <1>5, <1>13, <3>1 DEF gy2!Wait
  <2> QED BY <1>4, <1>13, <2>1 DEF gy2!Wait, Course, ForkAt
<1>14. CASE gy2!ForkFails
  <2>1. parent = "run" /\ pc = ForkAt /\ ~inside
    <3>1. parent = "run"
      BY <1>14 DEF gy2!ForkFails, gy2!Call
    <3>2. pc = ForkAt
      BY <1>1, <1>4, <1>5, <1>14, <3>1 DEF gy2!ForkFails
    <3>3. ~inside
      BY <1>4, <1>14 DEF gy2!ForkFails, Course
    <3> QED BY <3>1, <3>2, <3>3
  <2>2. child = "none"
    BY <1>2, <1>4, <2>1 DEF Course
  <2> QED BY <1>4, <1>14, <2>1, <2>2 DEF gy2!ForkFails, Course, ForkAt
<1>15. CASE gy2!TimerFails
  BY <1>4, <1>15 DEF gy2!TimerFails, Course, ForkAt
<1>16. CASE UNCHANGED gy2!vars
  <2>1. gy2!Call' = gy2!Call
    BY <1>16 DEF gy2!vars, gy2!Call
  <2> QED BY <1>4, <1>16, <2>1 DEF gy2!vars, Course, ForkAt
<1> QED
  BY <1>6, <1>7, <1>8, <1>9, <1>10, <1>11, <1>12, <1>13, <1>14, <1>15, <1>16
  DEF gy2!Next, gy2!Parent, gy2!Child, gy2!Deliver, gy2!Stop

LEMMA SignalsTypeStep ==
  ASSUME exercise \in gy2!Demo, SignalsInv, [gy2!Next]_(gy2!vars), Course',
         exercise' = exercise
  PROVE  gy2!TypeOK'
<1>0. /\ parent \in {"off", "run", "done", "failed"}
      /\ child \in {"none", "send", "end"}
      /\ pc \in 0..Len(gy2!Calls[exercise]) + 1
      /\ inside \in BOOLEAN /\ timer \in BOOLEAN
      /\ said \in 0..Len(gy2!Says[exercise])
      /\ pending \in Seq(gy2!Signal)
      /\ handled \in Seq(gy2!Signal \X BOOLEAN)
      /\ stops \in 0..MaxStops
  BY Zenon DEF SignalsInv, gy2!TypeOK
<1>1. /\ Len(gy2!Calls[exercise]) \in Nat /\ Len(gy2!Says[exercise]) \in Nat
      /\ MaxStops \in Nat
  BY CallsLength, SayingsKnown, ExercisesAssumption
<1>2. parent' \in {"off", "run", "done", "failed"} /\ child' \in {"none", "send", "end"}
  <2>1. ASSUME NEW i \in DOMAIN pending, gy2!Handler(i)
        PROVE  parent' = "run" /\ child' = child
    BY <2>1, HandlerTaken
  <2> QED
    BY <1>0, <2>1
    DEF gy2!Next, gy2!Parent, gy2!Child, gy2!Deliver, gy2!Stop, gy2!vars,
        gy2!Start, gy2!Fork, gy2!Enter, gy2!Unblock, gy2!Wait, gy2!Send,
        gy2!Tick, gy2!ForkFails, gy2!TimerFails
<1>3. pc' \in 0..Len(gy2!Calls[exercise]) + 1
  <2>1. parent' = "off" => pc' = 0
    BY DEF Course
  <2>2. parent' = "run" => pc' \in 1..Len(gy2!Calls[exercise])
    BY DEF Course
  <2>3. parent' = "done" => pc' = Len(gy2!Calls[exercise])
    BY DEF Course
  <2>4. parent' = "failed" => pc' = pc
    <3>1. ASSUME NEW i \in DOMAIN pending, gy2!Handler(i) PROVE parent' = "run"
      BY <3>1, HandlerTaken
    <3>2. gy2!Start \/ gy2!Wait => parent' # "failed"
      BY DEF gy2!Start, gy2!Wait
    <3>3. gy2!Fork \/ gy2!Unblock => parent' = "run"
      BY DEF gy2!Fork, gy2!Unblock, gy2!Call
    <3> QED
      BY <3>1, <3>2, <3>3
      DEF gy2!Next, gy2!Parent, gy2!Child, gy2!Deliver, gy2!Stop, gy2!vars,
          gy2!Enter, gy2!Send, gy2!Tick, gy2!ForkFails, gy2!TimerFails
  <2> QED BY <1>0, <1>1, <1>2, <2>1, <2>2, <2>3, <2>4
<1>4. inside' \in BOOLEAN /\ timer' \in BOOLEAN
  <2>1. ASSUME NEW i \in DOMAIN pending, gy2!Handler(i)
        PROVE  inside' \in BOOLEAN /\ timer' \in BOOLEAN
    BY <2>1, Zenon DEF gy2!Handler
  <2> QED
    BY <1>0, <2>1, Zenon
    DEF gy2!Next, gy2!Parent, gy2!Child, gy2!Deliver, gy2!Stop, gy2!vars,
        gy2!Start, gy2!Fork, gy2!Enter, gy2!Unblock, gy2!Wait, gy2!Send,
        gy2!Tick, gy2!ForkFails, gy2!TimerFails
<1>5. /\ said' \in 0..Len(gy2!Says[exercise]) /\ stops' \in 0..MaxStops
  <2>1. ASSUME NEW i \in DOMAIN pending, gy2!Handler(i)
        PROVE  said' = said /\ stops' = stops
    BY <2>1, HandlerTaken
  <2>2. CASE gy2!Send
    BY <1>0, <1>1, <2>2, SendTaken
  <2> QED
    BY <1>0, <1>1, <2>1, <2>2
    DEF gy2!Next, gy2!Parent, gy2!Child, gy2!Deliver, gy2!Stop, gy2!vars,
        gy2!Start, gy2!Fork, gy2!Enter, gy2!Unblock, gy2!Wait,
        gy2!Tick, gy2!ForkFails, gy2!TimerFails
<1>6. pending' \in Seq(gy2!Signal) /\ handled' \in Seq(gy2!Signal \X BOOLEAN)
  <2>1. ASSUME NEW s \in gy2!Signal PROVE gy2!Posted(s) \in Seq(gy2!Signal)
    BY <1>0, AppendProperties DEF gy2!Posted
  <2>2. ASSUME NEW i \in DOMAIN pending, gy2!Handler(i)
        PROVE  /\ pending' \in Seq(gy2!Signal)
               /\ handled' \in Seq(gy2!Signal \X BOOLEAN)
    <3>1. /\ pending' = Without(pending, i) /\ i \in 1..Len(pending)
          /\ handled' \in Seq(gy2!Signal \X BOOLEAN)
      BY <2>2, HandlerTaken
    <3> QED BY <1>0, <3>1, WithoutSeq
  <2>3. CASE gy2!Send
    <3>1. /\ pending' = gy2!Posted(gy2!Says[exercise][said + 1])
          /\ said + 1 \in 1..Len(gy2!Says[exercise]) /\ handled' = handled
      BY <1>0, <1>1, <2>3, SendTaken
    <3> QED BY <1>0, <2>1, <3>1, SayingsKnown
  <2>4. CASE gy2!Tick
    BY <1>0, <2>1, <2>4 DEF gy2!Tick, gy2!Signal
  <2> QED
    BY <1>0, <2>2, <2>3, <2>4
    DEF gy2!Next, gy2!Parent, gy2!Child, gy2!Deliver, gy2!Stop, gy2!vars,
        gy2!Start, gy2!Fork, gy2!Enter, gy2!Unblock, gy2!Wait,
        gy2!ForkFails, gy2!TimerFails
<1> QED
  BY <1>2, <1>3, <1>4, <1>5, <1>6, Zenon DEF gy2!TypeOK

LEMMA SignalsStep ==
  ASSUME exercise \in gy2!Demo, SignalsInv, [gy2!Next]_(gy2!vars),
         exercise' = exercise
  PROVE  SignalsInv'
<1>1. Course'
  BY CourseStep
<1>2. gy2!TypeOK'
  BY <1>1, SignalsTypeStep
<1>3. parent' # "failed" => DemoCourse'
  BY DemoCourseStep
<1>4. ASSUME inside', gy2!Call' = "wait", exercise # "sigaction_multiple"
      PROVE  pending' = <<>>
  <2>1. ASSUME NEW i \in DOMAIN pending, gy2!Handler(i) PROVE FALSE
    <3>1. inside' = FALSE
      BY <1>4, <2>1, HandlerTaken
    <3> QED BY <1>4, <3>1
  <2>2. CASE gy2!Enter
    <3>1. gy2!Call = "wait" /\ ~gy2!Disturbed
      BY <1>4, <2>2 DEF gy2!Enter, gy2!Call
    <3> QED BY <2>2, <3>1, WaitsQuietly DEF gy2!Enter
  <2>3. CASE gy2!Send \/ gy2!Tick
    <3>1. parent' = parent /\ pc' = pc /\ inside' = inside
      BY <2>3, SendTaken DEF gy2!Tick
    <3>2. gy2!Call = "wait" /\ parent = "run"
      BY <1>4, <3>1 DEF gy2!Call
    <3>3. pc = Len(gy2!Calls[exercise])
      <4>1. /\ pc \in 1..Len(gy2!Calls[exercise])
            /\ gy2!Calls[exercise][pc] = "wait"
        BY <3>2 DEF SignalsInv, Course, gy2!Call
      <4> QED BY <4>1, CallsLength
    <3> QED BY <1>4, <2>3, <3>2, <3>3, AllSaid DEF gy2!Send, gy2!Tick
  <2>4. CASE gy2!Fork \/ gy2!Unblock \/ gy2!ForkFails
    <3>1. inside
      BY <1>4, <2>4 DEF gy2!Fork, gy2!Unblock, gy2!ForkFails
    <3> QED BY <2>4, <3>1
            DEF SignalsInv, Course, gy2!Fork, gy2!Unblock, gy2!ForkFails
  <2>5. CASE gy2!Start \/ gy2!TimerFails
    <3>1. inside /\ parent = "off"
      BY <1>4, <2>5 DEF gy2!Start, gy2!TimerFails
    <3> QED BY <3>1 DEF SignalsInv, Course
  <2>6. CASE gy2!Wait
    BY <1>4, <2>6 DEF gy2!Wait
  <2>7. CASE UNCHANGED gy2!vars
    BY <1>4, <2>7 DEF gy2!vars, gy2!Call, SignalsInv
  <2> QED
    BY <2>1, <2>2, <2>3, <2>4, <2>5, <2>6, <2>7
    DEF gy2!Next, gy2!Parent, gy2!Child, gy2!Deliver, gy2!Stop
<1>5. ASSUME parent' = "done" PROVE pending' = <<>>
  <2>1. ASSUME NEW i \in DOMAIN pending, gy2!Handler(i) PROVE FALSE
    BY <1>5, <2>1, HandlerTaken
  <2>2. CASE gy2!Wait
    BY <2>2, WaitsQuietly DEF gy2!Wait
  <2>3. CASE gy2!Send
    BY <1>5, <2>3, SendTaken
  <2>4. CASE gy2!Tick
    <3>1. parent = "done" /\ timer
      BY <1>5, <2>4 DEF gy2!Tick
    <3>2. pc = Len(gy2!Calls[exercise]) /\ exercise = "sigaction_value"
      BY <3>1 DEF SignalsInv, Course
    <3> QED BY <3>1, <3>2, AllSaid
  <2>5. CASE gy2!Fork \/ gy2!Unblock \/ gy2!ForkFails
    BY <1>5, <2>5 DEF gy2!Fork, gy2!Unblock, gy2!ForkFails, gy2!Call
  <2>6. CASE gy2!Start \/ gy2!TimerFails
    BY <1>5, <2>6 DEF gy2!Start, gy2!TimerFails
  <2>7. CASE gy2!Enter \/ UNCHANGED gy2!vars
    BY <1>5, <2>7 DEF gy2!Enter, gy2!vars, SignalsInv
  <2> QED
    BY <2>1, <2>2, <2>3, <2>4, <2>5, <2>6, <2>7
    DEF gy2!Next, gy2!Parent, gy2!Child, gy2!Deliver, gy2!Stop
<1> QED BY <1>1, <1>2, <1>3, <1>4, <1>5 DEF SignalsInv

LEMMA SignallingStep == Signalling /\ [Next]_vars => Signalling'
  BY ExerciseStays, SignalsRun, SignalsStep DEF Signalling

LEMMA SignallingInit == Init => Signalling
<1> SUFFICES ASSUME Init, exercise \in gy2!Demo PROVE SignalsInv
    BY DEF Signalling
<1>1. /\ parent = "off" /\ child = "none" /\ pc = 0 /\ inside = FALSE
      /\ said = 0 /\ pending = <<>> /\ handled = <<>> /\ timer = FALSE
      /\ stops = 0
  BY DEF Init, gy2!Init
<1>2. gy2!TypeOK
  <2>1. {inside, timer} \subseteq BOOLEAN
    BY <1>1, Zenon
  <2>2. pc \in 0..Len(gy2!Calls[exercise]) + 1 /\ said \in 0..Len(gy2!Says[exercise])
    BY <1>1, CallsLength, SayingsKnown
  <2>3. stops \in 0..MaxStops
    BY <1>1, ExercisesAssumption
  <2>4. pending \in Seq(gy2!Signal) /\ handled \in Seq(gy2!Signal \X BOOLEAN)
    BY <1>1, EmptySeq
  <2> QED BY <1>1, <2>1, <2>2, <2>3, <2>4 DEF gy2!TypeOK
<1>3. Names = <<>>
  <2>1. Names = [i \in {} |-> handled[i][1]]
    BY <1>1 DEF Names, gy2!Handled
  <2> QED BY <2>1
<1>4. Course
  BY <1>1 DEF Course, ForkAt
<1>5. DemoCourse
  <2>1. CASE exercise = "sigaction_multiple"
    <3>1. Amount(pending, "SIGRTMIN") = 0 /\ Amount(pending, "SIGUSR1") = 0
      BY <1>1, <1>2, AmountKnown DEF gy2!TypeOK
    <3>2. Amount(Names, "SIGRTMIN") = 0 /\ Amount(Names, "SIGUSR1") = 0
      BY <1>1, <1>3, <3>1
    <3> QED BY <1>1, <2>1, <3>1, <3>2 DEF DemoCourse, MultipleCourse
  <2>2. SignalCourse /\ SigactionCourse /\ SigprocmaskCourse /\ ValueCourse
    BY <1>1, <1>3
    DEF SignalCourse, SigactionCourse, SigprocmaskCourse, ValueCourse, Holds
  <2> QED BY <2>1, <2>2 DEF DemoCourse, gy2!Demo
<1> QED BY <1>1, <1>2, <1>4, <1>5 DEF SignalsInv

(***************************************************************************)
(* The parents of gy2 come to their ends after their children, and have    *)
(* handled the signals that their texts promise.                           *)
(***************************************************************************)
THEOREM HandledAsSaidCorrect == Spec => []HandledAsSaid
<1>1. Signalling => HandledAsSaid
  <2> SUFFICES ASSUME exercise \in gy2!Demo, SignalsInv, parent = "done"
               PROVE  gy2!HandledAsSaid
      BY DEF Signalling, HandledAsSaid, gy2!HandledAsSaid
  <2>1. /\ child = "end" /\ pending = <<>> /\ DemoCourse
        /\ pc = Len(gy2!Calls[exercise]) /\ said = Len(gy2!Says[exercise])
        /\ handled \in Seq(gy2!Signal \X BOOLEAN)
    BY DEF SignalsInv, Course, gy2!TypeOK
  <2>2. Names = gy2!Handled
    BY DEF Names
  <2>3. CASE exercise = "signal"
    <3>1. SignalCourse /\ pc = 3
      BY <2>1, <2>3, CallsAt DEF DemoCourse
    <3>2. Names = <<"SIGTERM">>
      BY <2>1, <3>1 DEF SignalCourse, Holds
    <3> QED BY <2>1, <2>2, <2>3, <3>2 DEF gy2!HandledAsSaid
  <2>4. CASE exercise = "sigaction"
    <3>1. SigactionCourse /\ pc = 3
      BY <2>1, <2>4, CallsAt DEF DemoCourse
    <3>2. Names \in {<<"SIGUSR1", "SIGTERM">>, <<"SIGTERM", "SIGUSR1">>}
      BY <2>1, <3>1 DEF SigactionCourse, Holds
    <3> QED BY <2>1, <2>2, <2>4, <3>2 DEF gy2!HandledAsSaid
  <2>5. CASE exercise = "sigprocmask"
    <3>1. SigprocmaskCourse /\ pc = 4
      BY <2>1, <2>5, CallsAt DEF DemoCourse
    <3>2. Names = <<"SIGUSR1", "SIGTERM">>
      BY <2>1, <3>1 DEF SigprocmaskCourse, Holds
    <3> QED BY <2>1, <2>2, <2>5, <3>2 DEF gy2!HandledAsSaid
  <2>6. CASE exercise = "sigaction_value"
    <3>1. ValueCourse /\ pc = 5
      BY <2>1, <2>6, CallsAt DEF DemoCourse
    <3>2. Names = <<"timer", "kill", "sigqueue">>
      BY <2>1, <3>1 DEF ValueCourse, Holds
    <3> QED BY <2>1, <2>2, <2>6, <3>2 DEF gy2!HandledAsSaid
  <2>7. CASE exercise = "sigaction_multiple"
    <3>1. MultipleCourse /\ said = 2 * Repeats /\ Repeats \in Nat \ {0}
      BY <2>1, <2>7, SaysKnown, ExercisesAssumption DEF DemoCourse
    <3>2. Names \in Seq(gy2!Signal) /\ DOMAIN Names = DOMAIN handled
      BY <2>1, NamesSeq
    <3>3. /\ Amount(pending, "SIGRTMIN") = 0 /\ Amount(pending, "SIGUSR1") = 0
          /\ Amount(Names, "SIGRTMIN") \in Nat /\ Amount(Names, "SIGUSR1") \in Nat
      <4>1. pending \in Seq(gy2!Signal)
        BY DEF SignalsInv, gy2!TypeOK
      <4> QED BY <2>1, <3>2, <4>1, AmountKnown
    <3>4. /\ (2 * Repeats) \div 2 = Repeats /\ (2 * Repeats + 1) \div 2 = Repeats
          /\ 2 * Repeats > 0
      BY <3>1
    <3>5. Amount(Names, "SIGRTMIN") = Repeats /\ Amount(Names, "SIGUSR1") \in 1..Repeats
      BY <3>1, <3>3, <3>4 DEF MultipleCourse
    <3>6. \A s : Amount(Names, s) = gy2!Times(s)
      <4> SUFFICES ASSUME NEW s PROVE Amount(Names, s) = gy2!Times(s)
          OBVIOUS
      <4>1. \A i \in DOMAIN handled : Names[i] = handled[i][1]
        BY DEF Names, gy2!Handled
      <4>2. {i \in DOMAIN Names : Names[i] = s} = {i \in DOMAIN handled : handled[i][1] = s}
        BY <3>2, <4>1
      <4> QED BY <4>2 DEF Amount, gy2!Times, gy2!Cardinality, Cardinality
    <3> QED BY <2>1, <2>7, <3>5, <3>6 DEF gy2!HandledAsSaid
  <2> QED BY <2>3, <2>4, <2>5, <2>6, <2>7 DEF gy2!Demo
<1> QED
  BY <1>1, SignallingInit, SignallingStep, PTL DEF Spec

(***************************************************************************)
(* Every program keeps to its types.                                       *)
(***************************************************************************)
THEOREM TypeCorrect == Spec => []TypeOK
<1>1. Posted => /\ exercise = "pos_szemafor" => pos_szemafor!TypeOK
                /\ exercise = "szemafor" => szemafor!TypeOK
  BY DEF Posted, pos!SharedInv, pos!TypeOK, pos!NoSem, sysv!SharedInv,
         sysv!TypeOK, sysv!NoSem, pos_szemafor!TypeOK, pos_szemafor!NoSem,
         szemafor!TypeOK, szemafor!NoSem
<1>2. Writing => (exercise \in {"fcntl", "fcntl_0"} => fcntl!TypeOK)
  <2>1. Length \in Nat /\ Rounds \in Nat
    BY ExercisesAssumption
  <2>2. lock!TypeOK => fcntl!TypeOK
    BY DEF lock!TypeOK, lock!Process, lock!Newline, fcntl!TypeOK,
           fcntl!Process, fcntl!Newline
  <2>3. free!TypeOK => fcntl!TypeOK
    BY DEF free!TypeOK, free!Process, free!Newline, fcntl!TypeOK,
           fcntl!Process, fcntl!Newline
  <2> QED BY <2>2, <2>3 DEF Writing, lock!IInv, free!TextInv
<1>3. Touring => (exercise = "shaq_bead2" => shaq_bead2!TypeOK)
  BY DEF Touring, TourInv
<1>4. Draft => (exercise \in drafts!Draft => drafts!TypeOK)
  BY DEF Draft, DraftsType
<1>5. Pipes => (exercise \in gy3!Piped => gy3!TypeOK)
  BY DEF Pipes, PipesInv
<1>6. Signalling => (exercise \in gy2!Demo => gy2!TypeOK)
  BY DEF Signalling, SignalsInv
<1>7. Notifying => (exercise = "mq_uzenet" => mq_uzenet!TypeOK)
  BY DEF Notifying, NotifyInv
<1>8. /\ Posted /\ Writing /\ Touring /\ Draft /\ Pipes /\ Signalling
      /\ Notifying /\ Mailed
      => TypeOK
  BY <1>1, <1>2, <1>3, <1>4, <1>5, <1>6, <1>7, MailedType DEF TypeOK
<1> QED
  BY <1>8, PostedInit, PostedStep, WritingInit, WritingStep, TouringInit,
     TouringStep, DraftInit, DraftStep, PipesInit, PipesStep, SignallingInit,
     SignallingStep, NotifyingInit, NotifyingStep, MailedInit, MailedStep, PTL
  DEF Spec
=============================================================================
