------------------------------- MODULE Notify -------------------------------
(***************************************************************************)
(* gy5/mq_uzenet.c: a parent asks the kernel for a SIGUSR1 when a letter   *)
(* arrives in an empty POSIX queue, forks a child that sends one, and      *)
(* polls a flag that the handler sets.                                     *)
(***************************************************************************)
EXTENDS Integers

CONSTANT MaxStops  \* bound on calls that fail and runs that end early

VARIABLES
  parent, child,  \* where the two processes are
  mail,           \* the number of letters in the queue, NoMail without a queue
  mqdes1,         \* has the parent opened the queue?
  armed,          \* is the parent registered with mq_notify?
  signal,         \* is a SIGUSR1 of the queue pending for it?
  code,           \* has the handler set code to SI_MESGQ?
  stops

vars == <<parent, child, mail, mqdes1, armed, signal, code, stops>>

NoMail == -1

TypeOK ==
  /\ parent \in {"off", "notify", "fork", "waitpid", "poll", "receive",
                 "unlink", "done"}
  /\ child \in {"none", "open", "send", "end"}
  /\ mail \in -1..1
  /\ {mqdes1, armed, signal, code} \subseteq BOOLEAN
  /\ stops \in 0..MaxStops

Init ==
  /\ parent = "off" /\ child = "none"
  /\ mail = NoMail /\ mqdes1 = FALSE
  /\ armed = FALSE /\ signal = FALSE /\ code = FALSE
  /\ stops = 0

-----------------------------------------------------------------------------
(***************************************************************************)
(* The parent.                                                             *)
(***************************************************************************)
\* Deviation: mq_unlink is missing.
OpenOld ==
  /\ parent = "off"
  /\ parent' = "notify"
  /\ mqdes1' = TRUE
  /\ mail' = IF mail = NoMail THEN 0 ELSE mail
  /\ UNCHANGED <<child, armed, signal, code, stops>>

\* mq_unlink, then mq_open, whose result is not tested.
Open ==
  /\ parent = "off"
  /\ parent' = "notify"
  /\ mqdes1' = TRUE /\ mail' = 0
  /\ UNCHANGED <<child, armed, signal, code, stops>>

OpenFails ==
  /\ parent = "off" /\ stops < MaxStops
  /\ parent' = "notify"
  /\ mqdes1' = FALSE /\ mail' = NoMail
  /\ stops' = stops + 1
  /\ UNCHANGED <<child, armed, signal, code>>

mq_notify ==
  /\ parent = "notify"
  /\ parent' = "fork"
  /\ armed' = mqdes1
  /\ UNCHANGED <<child, mail, mqdes1, signal, code, stops>>

Fork ==
  /\ parent = "fork"
  /\ parent' = "waitpid" /\ child' = "open"
  /\ UNCHANGED <<mail, mqdes1, armed, signal, code, stops>>

ForkFails ==
  /\ parent = "fork" /\ stops < MaxStops
  /\ parent' = "off"
  /\ armed' = FALSE
  /\ stops' = stops + 1
  /\ UNCHANGED <<child, mail, mqdes1, signal, code>>

\* cpid is uninitialised here: waitpid may wait for the child or fail at once.
Waitpid ==
  /\ parent = "waitpid"
  /\ parent' = "poll"
  /\ UNCHANGED <<child, mail, mqdes1, armed, signal, code, stops>>

Poll ==
  /\ parent = "poll" /\ code
  /\ parent' = "receive"
  /\ UNCHANGED <<child, mail, mqdes1, armed, signal, code, stops>>

Receive ==
  /\ parent = "receive" /\ mail > 0
  /\ parent' = "unlink"
  /\ mail' = mail - 1
  /\ UNCHANGED <<child, mqdes1, armed, signal, code, stops>>

Unlink ==
  /\ parent = "unlink"
  /\ parent' = "done"
  /\ mail' = NoMail
  /\ UNCHANGED <<child, mqdes1, armed, signal, code, stops>>

Parent ==
  Open \/ mq_notify \/ Fork \/ Waitpid \/ Poll \/ Receive \/ Unlink

-----------------------------------------------------------------------------
(***************************************************************************)
(* The child.                                                              *)
(***************************************************************************)
ChildOpen ==
  /\ child = "open"
  /\ child' = "send"
  /\ mail' = IF mail = NoMail THEN 0 ELSE mail
  /\ UNCHANGED <<parent, mqdes1, armed, signal, code, stops>>

\* Not tested either: mq_send fails and the child exits.
ChildOpenFails ==
  /\ child = "open" /\ stops < MaxStops
  /\ child' = "end"
  /\ stops' = stops + 1
  /\ UNCHANGED <<parent, mail, mqdes1, armed, signal, code>>

\* A letter in an empty queue notifies the parent, and only once.
Send ==
  /\ child = "send"
  /\ child' = "end"
  /\ mail' = mail + 1
  /\ signal' = (signal \/ (armed /\ mail = 0))
  /\ armed' = (armed /\ mail # 0)
  /\ UNCHANGED <<parent, mqdes1, code, stops>>

Child == ChildOpen \/ Send

Handler ==
  /\ signal
  /\ signal' = FALSE
  /\ code' = TRUE
  /\ UNCHANGED <<parent, child, mail, mqdes1, armed, stops>>

Kill ==
  /\ parent \notin {"off", "done"} /\ stops < MaxStops
  /\ parent' = "off" /\ child' = "none"
  /\ armed' = FALSE /\ signal' = FALSE /\ code' = FALSE
  /\ stops' = stops + 1
  /\ UNCHANGED <<mail, mqdes1>>

Stop == OpenFails \/ ForkFails \/ ChildOpenFails \/ Kill

Next == Parent \/ Child \/ Handler \/ Stop

Spec == Init /\ [][Next]_vars

-----------------------------------------------------------------------------
\* What makes the parent poll for ever: one of the two has no queue.
Unopened == parent = "poll" /\ child = "end" /\ (~mqdes1 \/ mail <= 0)
=============================================================================
