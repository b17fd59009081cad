----------------------------- MODULE MCTwoPhase -----------------------------
(***************************************************************************)
(* TwoPhase for TLC.                                                       *)
(***************************************************************************)
EXTENDS TwoPhase, TLC

WorkerSymmetry == Permutations(Workers)

=============================================================================
