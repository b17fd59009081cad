-------------------------------- MODULE MCMsg --------------------------------
(***************************************************************************)
(* Msg for TLC: a topic, followed by a plain address or by nothing.         *)
(***************************************************************************)
EXTENDS Msg, TLC

CONSTANTS u1, u2, u3

TopicAndMore == {<<Topic, u3>>, <<Topic>>}
WorkerSymmetry == Permutations(Workers)

=============================================================================
