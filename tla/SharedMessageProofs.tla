------------------------ MODULE SharedMessageProofs ------------------------
(***************************************************************************)
(* What holds of SharedMessage for any number of kills.                    *)
(***************************************************************************)
EXTENDS SharedMessage, TLAPS

\* The child runs between Fork and WaitChild and prints once.
Lifecycle ==
  /\ parent \in {"off", "create", "fork"} => child = "none"
  /\ parent \in {"unlink", "remove", "done"} => child = "end"
  /\ child \in {"none", "down", "print"} => printed = "none"

\* When the text is in the page, and when the semaphore is gone.
Contents ==
  /\ parent \in {"post", "wait", "unlink"} => page = "text"
  /\ parent \in {"remove", "done"} => sem = NoSem

\* What TextIsGuarded needs in order to be kept.
Guarded ==
  /\ TextIsGuarded
  /\ SystemV \/ ~rebuilt => (child = "post" => page = "text")

\* What WrittenFirst needs: the first run finds no semaphore.
FirstRun ==
  /\ WrittenFirst
  /\ ~SystemV /\ stops = 0 /\ parent \in {"off", "create"} => ~(sem > 0)

SharedInv == TypeOK /\ Lifecycle /\ Contents /\ Guarded /\ FirstRun

LEMMA InitInv == Init => SharedInv
<1> SUFFICES ASSUME Init PROVE SharedInv
    OBVIOUS
<1>1. ~(sem > 0)
  BY DEF Init, NoSem
<1>2. TypeOK
  BY DEF Init, TypeOK
<1>3. Lifecycle /\ Contents
  BY DEF Init, Lifecycle, Contents
<1>4. Guarded
  BY <1>1 DEF Init, Guarded, TextIsGuarded
<1>5. FirstRun
  BY <1>1 DEF Init, FirstRun, WrittenFirst, Written
<1> QED
  BY <1>2, <1>3, <1>4, <1>5 DEF SharedInv

LEMMA TypeStep == TypeOK /\ [Next]_vars => TypeOK'
<1> SUFFICES ASSUME TypeOK, [Next]_vars PROVE TypeOK'
    OBVIOUS
<1> USE DEF TypeOK, NoSem
<1>1. CASE Parent
  BY <1>1 DEF Parent, Attach, szemafor_letrehozas, Fork, CopyBegins, CopyEnds,
              ParentUp, WaitChild, szemafor_torles, RemovePage
<1>2. CASE Child
  BY <1>2 DEF Child, Down, PrintPage, ChildUp
<1>3. CASE ForkFails \/ Kill
  BY <1>3 DEF ForkFails, Kill
<1>4. CASE Rebuild
  <2>1. rebuilt' \in BOOLEAN
    BY <1>4, Zenon DEF Rebuild
  <2> QED
    BY <1>4, <2>1 DEF Rebuild
<1>5. CASE UNCHANGED vars
  BY <1>5 DEF vars
<1> QED
  BY <1>1, <1>2, <1>3, <1>4, <1>5 DEF Next, Stop

LEMMA LifecycleStep == SharedInv /\ [Next]_vars => Lifecycle' /\ Contents'
<1> SUFFICES ASSUME SharedInv, [Next]_vars PROVE Lifecycle' /\ Contents'
    OBVIOUS
<1> USE DEF SharedInv, TypeOK, Lifecycle, Contents, NoSem
<1>1. CASE Parent
  BY <1>1 DEF Parent, Attach, szemafor_letrehozas, Fork, CopyBegins, CopyEnds,
              ParentUp, WaitChild, szemafor_torles, RemovePage
<1>2. CASE Child
  BY <1>2 DEF Child, Down, PrintPage, ChildUp
<1>3. CASE Stop
  BY <1>3 DEF Stop, ForkFails, Kill, Rebuild
<1>4. CASE UNCHANGED vars
  BY <1>4 DEF vars
<1> QED
  BY <1>1, <1>2, <1>3, <1>4 DEF Next

LEMMA GuardedStep == SharedInv /\ [Next]_vars => Guarded'
<1> SUFFICES ASSUME SharedInv, [Next]_vars PROVE Guarded'
    OBVIOUS
<1> USE DEF SharedInv, TypeOK, Lifecycle, Contents, Guarded, TextIsGuarded, NoSem
<1>1. CASE Parent
  BY <1>1 DEF Parent, Attach, szemafor_letrehozas, Fork, CopyBegins, CopyEnds,
              ParentUp, WaitChild, szemafor_torles, RemovePage
<1>2. CASE Child
  BY <1>2 DEF Child, Down, PrintPage, ChildUp
<1>3. CASE Stop
  BY <1>3 DEF Stop, ForkFails, Kill, Rebuild
<1>4. CASE UNCHANGED vars
  BY <1>4 DEF vars
<1> QED
  BY <1>1, <1>2, <1>3, <1>4 DEF Next

LEMMA FirstRunStep == SharedInv /\ [Next]_vars => FirstRun'
<1> SUFFICES ASSUME SharedInv, [Next]_vars PROVE FirstRun'
    OBVIOUS
<1> USE DEF SharedInv, TypeOK, Lifecycle, Contents, FirstRun, WrittenFirst,
            Written, NoSem
<1>1. CASE Parent
  BY <1>1 DEF Parent, Attach, szemafor_letrehozas, Fork, CopyBegins, CopyEnds,
              ParentUp, WaitChild, szemafor_torles, RemovePage
<1>2. CASE Child
  BY <1>2 DEF Child, Down, PrintPage, ChildUp
<1>3. CASE Stop
  BY <1>3 DEF Stop, ForkFails, Kill, Rebuild
<1>4. CASE UNCHANGED vars
  BY <1>4 DEF vars
<1> QED
  BY <1>1, <1>2, <1>3, <1>4 DEF Next

\* The types, what the semaphore guards, and its order hold together.
THEOREM SharedInvariant == Spec => []SharedInv
<1>1. SharedInv /\ [Next]_vars => SharedInv'
  BY TypeStep, LifecycleStep, GuardedStep, FirstRunStep DEF SharedInv
<1> QED
  BY InitInv, <1>1, PTL DEF Spec

\* TextIsGuarded, for both programs and any number of killed runs.
THEOREM GuardedCorrect == Spec => []TextIsGuarded
<1>1. SharedInv => TextIsGuarded
  BY DEF SharedInv, Guarded
<1> QED
  BY SharedInvariant, <1>1, PTL

\* WrittenFirst, for both programs and any number of killed runs.
THEOREM WrittenFirstCorrect == Spec => []WrittenFirst
<1>1. SharedInv => WrittenFirst
  BY DEF SharedInv, FirstRun
<1> QED
  BY SharedInvariant, <1>1, PTL

-----------------------------------------------------------------------------
LEMMA AppendOne == \A x : Append(<<>>, x) = <<x>>
  OBVIOUS

\* Every step hands over, prints what was handed over, ends a run, or none.
LEMMA HandsOverStep ==
  SharedInv /\ [Next]_vars => [HandsOver]_<<sent, received>>
<1> SUFFICES ASSUME SharedInv, [Next]_vars, SystemV \/ stops' = 0,
                    <<sent, received>>' # <<sent, received>>
             PROVE  Box!Next
    BY DEF HandsOver
<1>1. ASSUME Parent PROVE Box!Next
  <2>1. CASE CopyEnds
    <3>1. sent = <<>> /\ sent' = <<"text">> /\ received' = received
      BY <2>1 DEF CopyEnds, sent, received, Written
    <3>2. sent' = Append(sent, "text")
      BY <3>1, AppendOne
    <3> QED
      BY <3>1, <3>2 DEF Box!Next, Box!Put
  <2>2. CASE Attach \/ szemafor_letrehozas \/ Fork \/ CopyBegins \/ ParentUp
             \/ WaitChild \/ szemafor_torles \/ RemovePage
    <3>1. UNCHANGED <<sent, received>>
      BY <2>2 DEF Attach, szemafor_letrehozas, Fork, CopyBegins, ParentUp,
                  WaitChild, szemafor_torles, RemovePage, sent, received, Written
    <3> QED
      BY <3>1
  <2> QED
    BY <1>1, <2>1, <2>2 DEF Parent
<1>2. ASSUME Child PROVE Box!Next
  <2>1. CASE PrintPage
    <3>1. SystemV \/ stops = 0
      BY <2>1 DEF PrintPage
    <3>2. parent \in Written /\ page = "text" /\ printed = "none"
      BY <2>1, <3>1 DEF PrintPage, SharedInv, Lifecycle, Contents, FirstRun,
                        WrittenFirst, Written
    <3>3. /\ sent = <<"text">> /\ received = <<>>
          /\ sent' = sent /\ received' = <<"text">>
      BY <2>1, <3>2 DEF PrintPage, sent, received, Written
    <3>4. Len(received) = 0 /\ Len(sent) = 1 /\ sent[1] = "text"
      BY <3>3
    <3>5. received' = Append(received, sent[Len(received) + 1])
      BY <3>3, <3>4, AppendOne
    <3> QED
      BY <3>3, <3>4, <3>5 DEF Box!Next, Box!Take
  <2>2. CASE Down \/ ChildUp
    <3>1. UNCHANGED <<sent, received>>
      BY <2>2 DEF Down, ChildUp, sent, received
    <3> QED
      BY <3>1
  <2> QED
    BY <1>2, <2>1, <2>2 DEF Child
<1>3. ASSUME Stop PROVE Box!Next
  <2>1. CASE Kill
    BY <2>1 DEF Kill, Box!Next, Box!Restart, sent, received, Written
  <2>2. CASE ForkFails \/ Rebuild
    <3>1. UNCHANGED <<sent, received>>
      BY <2>2 DEF ForkFails, Rebuild, sent, received, Written
    <3> QED
      BY <3>1
  <2> QED
    BY <1>3, <2>1, <2>2 DEF Stop
<1>4. ASSUME UNCHANGED vars PROVE Box!Next
  BY <1>4 DEF vars, sent, received
<1> QED
  BY <1>1, <1>2, <1>3, <1>4 DEF Next

(***************************************************************************)
(* szemafor.c in every run, and pos_szemafor.c until one ends early, hands *)
(* its text over as Handover demands.                                      *)
(***************************************************************************)
THEOREM ImplementsHandover == Spec => Implements
<1>1. Init => Box!Init
  BY DEF Init, Box!Init, sent, received, Written
<1> QED
  BY <1>1, HandsOverStep, SharedInvariant, PTL DEF Spec, Implements
=============================================================================
