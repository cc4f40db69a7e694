------------------------------- MODULE Shelf -------------------------------
(***************************************************************************)
(* What the two semaphore programs of gy6 promise: a shelf that holds at   *)
(* most Room loaves, on which one process puts and from which another      *)
(* takes, one at a time.                                                   *)
(***************************************************************************)
EXTENDS Integers

CONSTANT Room

VARIABLE loaves

Init == loaves = 0

Put  == loaves < Room /\ loaves' = loaves + 1
Take == loaves > 0 /\ loaves' = loaves - 1

Next == Put \/ Take

Spec == Init /\ [][Next]_loaves
=============================================================================
