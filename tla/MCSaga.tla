------------------------------- MODULE MCSaga -------------------------------
(***************************************************************************)
(* Saga for TLC: workers are interchangeable model values.                 *)
(***************************************************************************)
EXTENDS Saga, TLC

WorkerSymmetry == Permutations(Workers)

=============================================================================
