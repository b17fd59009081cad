--------------------------- MODULE MCRedisBarrier ---------------------------
(***************************************************************************)
(* RedisBarrier for TLC: two sagas and a message that share one stock.     *)
(***************************************************************************)
EXTENDS RedisBarrier, TLC

CONSTANTS s1, s2, m1

MCSagas == {s1, s2}
MCMsgs == {m1}
Symmetry == Permutations(MCSagas)

=============================================================================
