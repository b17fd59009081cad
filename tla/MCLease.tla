------------------------------- MODULE MCLease -------------------------------
(***************************************************************************)
(* Lease for TLC.                                                          *)
(***************************************************************************)
EXTENDS Lease, TLC

WorkerSymmetry == Permutations(Workers)

=============================================================================
