----------------------------- MODULE MCWorkflow -----------------------------
(***************************************************************************)
(* Workflow for TLC: order, then pay or ship depending on what order       *)
(* returned, then nothing.  The second version puts ship first, then looks *)
(* something up or ends.                                                   *)
(***************************************************************************)
EXTENDS Workflow, TLC

Step(name, undo) == [name |-> name, undo |-> undo]
Results == UNION {[1 .. n -> {"a", "b"}] : n \in 0 .. 2}

Branching == [h \in Results |->
  CASE Len(h) = 0 -> Step("order", TRUE)
    [] Len(h) = 1 -> Step(IF h[1] = "a" THEN "pay" ELSE "ship", TRUE)
    [] Len(h) = 2 -> End]

ShipFirst == [h \in Results |->
  CASE Len(h) = 0 -> Step("ship", TRUE)
    [] Len(h) = 1 -> IF h[1] = "a" THEN Step("look", FALSE) ELSE End
    [] Len(h) = 2 -> End]

Scripts == [old |-> Branching, new |-> ShipFirst]

Deployed(stores, versions, overlap) ==
  [store : stores, versions : {versions}, overlap : {overlap}]

\* The function changes under transactions in a SQL store; under those in Redis
\* it stays as it is, and there it may also outlive its lease.
SqlAndRedis == Deployed({"sql"}, {"old", "new"}, FALSE) \cup Deployed({"redis"}, {"old"}, FALSE)
               \cup Deployed({"redis"}, {"old"}, TRUE)
RedisChanging == Deployed({"redis"}, {"old", "new"}, FALSE)
Overlapping == Deployed({"sql"}, {"old"}, TRUE)

=============================================================================
