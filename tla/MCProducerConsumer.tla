------------------------- MODULE MCProducerConsumer -------------------------
(***************************************************************************)
(* ProducerConsumer with the numbers of the program, 3 places and 10       *)
(* rounds.                                                                 *)
(***************************************************************************)
EXTENDS ProducerConsumer
=============================================================================
