-------------------------- MODULE MCBakerCustomer --------------------------
(***************************************************************************)
(* BakerCustomer with the ten places of the program, or with fewer.        *)
(***************************************************************************)
EXTENDS BakerCustomer
=============================================================================
