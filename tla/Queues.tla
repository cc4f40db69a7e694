------------------------------- MODULE Queues -------------------------------
(***************************************************************************)
(* gy5/uzenet.c and gy5/mq_uzenet1.c: a parent sends letters to a child    *)
(* through a message queue.  uzenet.c sends one, of type 5, through a      *)
(* System V queue; mq_uzenet1.c two, of priorities 5 and 4, through a      *)
(* POSIX queue, which it removes first if it is there.                     *)
(***************************************************************************)
EXTENDS Integers, Sequences

CONSTANTS
  Posix,    \* mq_uzenet1.c? otherwise uzenet.c
  MaxStops  \* bound on the runs that end early

VARIABLES
  parent, child,  \* where the two processes are
  queue,          \* the letters in the queue, NoQueue if there is none
  sent,           \* ghost: the letters sent in this run
  received,       \* the letters the child has printed
  stops           \* runs that ended early

vars == <<parent, child, queue, sent, received, stops>>

\* A letter is its priority or type.
Letters == IF Posix THEN <<5, 4>> ELSE <<5>>
Letter  == {5, 4}
NoQueue == <<0>>

TypeOK ==
  /\ parent \in {"off", "fork", "send", "wait", "done", "forkless"}
  /\ child \in {"none", "receive", "end"}
  /\ queue \in Seq(Letter) \cup {NoQueue}
  /\ sent \in Seq(Letter) /\ received \in Seq(Letter)
  /\ stops \in 0..MaxStops

Init ==
  /\ parent = "off" /\ child = "none"
  /\ queue = NoQueue
  /\ sent = <<>> /\ received = <<>>
  /\ stops = 0

-----------------------------------------------------------------------------
(***************************************************************************)
(* The parent.                                                             *)
(***************************************************************************)
Open ==
  /\ parent = "off"
  /\ parent' = "fork"
  /\ queue' = IF Posix \/ queue = NoQueue THEN <<>> ELSE queue
  /\ UNCHANGED <<child, sent, received, stops>>

Fork ==
  /\ parent = "fork"
  /\ parent' = "send" /\ child' = "receive"
  /\ UNCHANGED <<queue, sent, received, stops>>

\* uzenet.c returns, and the queue stays; mq_uzenet1.c takes the only process
\* for the child, and it waits for letters that nobody sends.
ForkFails ==
  /\ parent = "fork" /\ stops < MaxStops
  /\ \/ Posix /\ parent' = "forkless" /\ child' = "receive"
     \/ ~Posix /\ parent' = "off" /\ child' = child
  /\ stops' = stops + 1
  /\ UNCHANGED <<queue, sent, received>>

Send ==
  /\ parent = "send"
  /\ LET letter == Letters[Len(sent) + 1]
     IN  /\ sent' = Append(sent, letter)
         /\ queue' = Append(queue, letter)
  /\ parent' = IF Len(sent') = Len(Letters) THEN "wait" ELSE "send"
  /\ UNCHANGED <<child, received, stops>>

\* When the child has ended the queue is removed.
Remove ==
  /\ parent = "wait" /\ child = "end"
  /\ parent' = "done"
  /\ queue' = NoQueue
  /\ UNCHANGED <<child, sent, received, stops>>

Parent == Open \/ Fork \/ Send \/ Remove

-----------------------------------------------------------------------------
\* The oldest letter of the highest priority; of type 5 there is only one.
First(k) ==
  /\ \A j \in DOMAIN queue : queue[j] <= queue[k]
  /\ \A j \in 1..(k - 1) : queue[j] # queue[k]

Receive ==
  /\ child = "receive"
  /\ \E k \in DOMAIN queue :
       /\ First(k)
       /\ received' = Append(received, queue[k])
       /\ queue' = SubSeq(queue, 1, k - 1) \o SubSeq(queue, k + 1, Len(queue))
  /\ child' = IF Len(received') = Len(Letters) THEN "end" ELSE "receive"
  /\ UNCHANGED <<parent, sent, stops>>

Child == Receive

Kill ==
  /\ parent \notin {"off", "done"} /\ stops < MaxStops
  /\ parent' = "off" /\ child' = "none"
  /\ sent' = <<>> /\ received' = <<>>
  /\ stops' = stops + 1
  /\ UNCHANGED queue

Stop == ForkFails \/ Kill

Next == Parent \/ Child \/ Stop

Spec == Init /\ [][Next]_vars

-----------------------------------------------------------------------------
(***************************************************************************)
(* Implements: letters are received in the order they were sent, although  *)
(* a POSIX queue orders them by priority.  A System V queue may hand out a *)
(* letter of a run that was killed; the POSIX queue is emptied before.     *)
(***************************************************************************)
Box == INSTANCE Handover WITH Message <- Letter
HandsOver == Posix \/ stops' = 0 => Box!Next
Implements == Box!Init /\ [][HandsOver]_<<sent, received>>
=============================================================================
