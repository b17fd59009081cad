---------------------------- MODULE MCRedisStore ----------------------------
(***************************************************************************)
(* RedisStore for TLC.                                                     *)
(***************************************************************************)
EXTENDS RedisStore, TLC

CONSTANTS g1, g2

Types == g1 :> "saga" @@ g2 :> "tcc"
WorkerSymmetry == Permutations(Workers)

=============================================================================
