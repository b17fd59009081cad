----------------------------- MODULE MCRuntime -----------------------------
(***************************************************************************)
(* Bounds for model-checking Runtime: two workers, two handles one after   *)
(* the other, and a pull queue in which a call given up meets a later one. *)
(***************************************************************************)
EXTENDS Runtime, TLC

CONSTANTS w1, w2

=============================================================================
