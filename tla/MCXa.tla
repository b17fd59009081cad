-------------------------------- MODULE MCXa --------------------------------
(***************************************************************************)
(* Xa for TLC.                                                             *)
(***************************************************************************)
EXTENDS Xa, TLC

CONSTANT w1

=============================================================================
