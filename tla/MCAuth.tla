------------------------------- MODULE MCAuth -------------------------------
(***************************************************************************)
(* Access tokens for TLC.                                                  *)
(***************************************************************************)
EXTENDS Auth, TLC

CONSTANTS i1, i2, r1, r2, t1

Symmetry == Permutations(Instances) \cup Permutations(Requests)

=============================================================================
