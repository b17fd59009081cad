------------------------------ MODULE GlobalTx ------------------------------
(***************************************************************************)
(* What a saga promises its caller, with no coordinator, no worker and no  *)
(* network in it: branch effects appear in order, are taken back in the    *)
(* opposite order, and the transaction ends either with every effect in    *)
(* place or with none.  After the end nothing moves.                       *)
(***************************************************************************)
EXTENDS Integers

CONSTANT N                  \* number of branches

VARIABLES outcome,          \* "open", then "succeed" or "failed"
          effect            \* per branch: "none", "applied" or "undone"

gvars == <<outcome, effect>>

Branch == 1 .. N

GInit ==
  /\ outcome = "open"
  /\ effect = [i \in Branch |-> "none"]

Apply(i) ==
  /\ outcome = "open"
  /\ effect[i] = "none"
  /\ \A j \in Branch : j < i => effect[j] = "applied"
  /\ effect' = [effect EXCEPT ![i] = "applied"]
  /\ UNCHANGED outcome

Undo(i) ==
  /\ outcome = "open"
  /\ effect[i] = "applied"
  /\ \A j \in Branch : j > i => effect[j] # "applied"
  /\ effect' = [effect EXCEPT ![i] = "undone"]
  /\ UNCHANGED outcome

Commit ==
  /\ outcome = "open"
  /\ \A i \in Branch : effect[i] = "applied"
  /\ outcome' = "succeed"
  /\ UNCHANGED effect

Rollback ==
  /\ outcome = "open"
  /\ \A i \in Branch : effect[i] # "applied"
  /\ outcome' = "failed"
  /\ UNCHANGED effect

GNext == (\E i \in Branch : Apply(i) \/ Undo(i)) \/ Commit \/ Rollback

GSpec == GInit /\ [][GNext]_gvars

=============================================================================
