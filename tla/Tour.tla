-------------------------------- MODULE Tour --------------------------------
(***************************************************************************)
(* sub2_try/shaq-bead2.c: a parent books a tour, a child counts the drinks *)
(* and the price and answers.                                              *)
(*                                                                         *)
(* The child tells the parent with SIGUSR1 that it is there and with       *)
(* SIGTERM that it is done; the tour and the answer go through two pipes.  *)
(* A signal wakes the parent only in pause().                              *)
(***************************************************************************)
EXTENDS Integers, Sequences

CONSTANTS
  Count, Price,  \* what rand may draw: 5..15 and 60..100 in the code
  Faults         \* may pipe and fork fail?

VARIABLES
  parent, child,  \* where the two processes are
  signals,        \* signals pending for the parent
  lost,           \* ghost: signals that woke nobody
  newTour,        \* the tour the parent has drawn
  toChild,        \* parentToChild
  toParent,       \* childToParent
  booked,         \* the tour the child has read
  answer          \* sordb and ar as far as the parent has read them

pipes == <<toChild, toParent>>
data  == <<newTour, booked, answer>>
vars  == <<parent, child, signals, lost, pipes, data>>

Signal == {"SIGUSR1", "SIGTERM"}
Tours  == [count : Count, price : Price]
NoTour == [count |-> 0, price |-> 0]

TypeOK ==
  /\ parent \in {"off", "draw", "ready", "paused", "awake", "read", "answered",
                 "paused2", "awake2", "done", "failed"}
  /\ child \in {"none", "call", "read", "rows", "price", "ready", "gone"}
  /\ signals \subseteq Signal /\ lost \in 0..2
  /\ newTour \in Tours \cup {NoTour} /\ booked \in Tours \cup {NoTour}
  /\ toChild \in Seq(Tours)
  /\ toParent \in Seq(Nat) /\ answer \in Seq(Nat)

Init ==
  /\ parent = "off" /\ child = "none"
  /\ signals = {} /\ lost = 0
  /\ newTour = NoTour /\ booked = NoTour
  /\ toChild = <<>> /\ toParent = <<>>
  /\ answer = <<>>

-----------------------------------------------------------------------------
(***************************************************************************)
(* The parent.                                                             *)
(***************************************************************************)
Fork ==
  /\ parent = "off"
  /\ parent' = "draw" /\ child' = "call"
  /\ UNCHANGED <<signals, lost, pipes, data>>

\* pipe or fork returned -1: exit.
ForkFails ==
  /\ Faults /\ parent = "off"
  /\ parent' = "failed"
  /\ UNCHANGED <<child, signals, lost, pipes, data>>

Draw ==
  /\ parent = "draw"
  /\ parent' = "ready"
  /\ newTour' \in Tours
  /\ UNCHANGED <<child, signals, lost, pipes, booked, answer>>

Pause ==
  /\ \/ parent = "ready" /\ parent' = "paused"
     \/ parent = "answered" /\ parent' = "paused2"
  /\ UNCHANGED <<child, signals, lost, pipes, data>>

WriteTour ==
  /\ parent = "awake"
  /\ parent' = "read"
  /\ toChild' = Append(toChild, newTour)
  /\ UNCHANGED <<child, signals, lost, toParent, data>>

ReadAnswer ==
  /\ parent = "read" /\ toParent # <<>>
  /\ parent' = IF answer = <<>> THEN "read" ELSE "answered"
  /\ toParent' = Tail(toParent)
  /\ answer' = Append(answer, Head(toParent))
  /\ UNCHANGED <<child, signals, lost, toChild, newTour, booked>>

Wait ==
  /\ parent = "awake2" /\ child = "gone"
  /\ parent' = "done"
  /\ UNCHANGED <<child, signals, lost, pipes, data>>

Parent == Fork \/ Draw \/ Pause \/ WriteTour \/ ReadAnswer \/ Wait

-----------------------------------------------------------------------------
(***************************************************************************)
(* The child.                                                              *)
(***************************************************************************)
Call ==
  /\ child = "call"
  /\ child' = "read"
  /\ signals' = signals \cup {"SIGUSR1"}
  /\ UNCHANGED <<parent, lost, pipes, data>>

ReadTour ==
  /\ child = "read" /\ toChild # <<>>
  /\ child' = "rows"
  /\ booked' = Head(toChild) /\ toChild' = Tail(toChild)
  /\ UNCHANGED <<parent, signals, lost, toParent, newTour, answer>>

\* Deviation: the two numbers are written in the order they are read into.
WriteRowsLast ==
  /\ child = "rows"
  /\ child' = "price"
  /\ toParent' = Append(toParent, booked.count * booked.price)
  /\ UNCHANGED <<parent, signals, lost, toChild, data>>

\* sordb, the drinks.
WriteRows ==
  /\ child = "rows"
  /\ child' = "price"
  /\ toParent' = Append(toParent, 5 * booked.count)
  /\ UNCHANGED <<parent, signals, lost, toChild, data>>

\* ar, the price.
WritePrice ==
  /\ child = "price"
  /\ child' = "ready"
  /\ toParent' = Append(toParent, booked.count * booked.price)
  /\ UNCHANGED <<parent, signals, lost, toChild, data>>

Report ==
  /\ child = "ready"
  /\ child' = "gone"
  /\ signals' = signals \cup {"SIGTERM"}
  /\ UNCHANGED <<parent, lost, pipes, data>>

Child == Call \/ ReadTour \/ WriteRows \/ WritePrice \/ Report

-----------------------------------------------------------------------------
\* sigusr1Handler and sigtermHandler only print; pause() returns after them.
Handler ==
  \E s \in signals :
    /\ signals' = signals \ {s}
    /\ \/ parent = "paused" /\ parent' = "awake" /\ lost' = lost
       \/ parent = "paused2" /\ parent' = "awake2" /\ lost' = lost
       \/ /\ parent \notin {"paused", "paused2"}
          /\ parent' = parent /\ lost' = lost + 1
    /\ UNCHANGED <<child, pipes, data>>

Next == Parent \/ Child \/ Handler \/ ForkFails

Spec == Init /\ [][Next]_vars

-----------------------------------------------------------------------------
(***************************************************************************)
(* AnswerFits: the drinks and the price that the parent prints are those   *)
(* of the tour it has booked.                                              *)
(***************************************************************************)
AnswerFits ==
  parent \in {"answered", "paused2", "awake2", "done"} =>
    answer = <<5 * newTour.count, newTour.count * newTour.price>>

\* The parent sleeps for ever after a signal that came before its pause().
Overslept == lost > 0
=============================================================================
