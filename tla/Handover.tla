------------------------------ MODULE Handover ------------------------------
(***************************************************************************)
(* What a program promises that hands messages from one process to         *)
(* another: they arrive as they were sent, in that order, each once, none  *)
(* before it was sent.  Restart is the program being killed.               *)
(***************************************************************************)
EXTENDS Integers, Sequences

CONSTANT Message

VARIABLES sent, received

Init == sent = <<>> /\ received = <<>>

Put(m) == sent' = Append(sent, m) /\ UNCHANGED received

Take ==
  /\ Len(received) < Len(sent)
  /\ received' = Append(received, sent[Len(received) + 1])
  /\ UNCHANGED sent

Restart == sent' = <<>> /\ received' = <<>>

Next == (\E m \in Message : Put(m)) \/ Take \/ Restart

Spec == Init /\ [][Next]_<<sent, received>>
=============================================================================
