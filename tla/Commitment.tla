----------------------------- MODULE Commitment -----------------------------
(***************************************************************************)
(* What TCC and XA promise, with no coordinator, no worker and no network  *)
(* in it: the transaction is decided once.  It may be committed only while *)
(* every branch that was begun is held, and then each of them is carried   *)
(* out, and nothing else; otherwise what is held is given back.  The end   *)
(* is reported only when this is done for every branch that counted at the *)
(* decision.                                                               *)
(*                                                                         *)
(* A branch may still be begun while the transaction is given up, or after *)
(* it: the promise is about the branches that counted.                     *)
(***************************************************************************)
CONSTANT Branch

VARIABLES decision,   \* "open", "commit" or "abort", in the end "committed" or "aborted"
          effect,     \* per branch: "none", "held", "done" or "undone"
          counted     \* the branches the decision is about

cvars == <<decision, effect, counted>>

Held == {i \in Branch : effect[i] = "held"}

CInit ==
  /\ decision = "open"
  /\ effect = [i \in Branch |-> "none"]
  /\ counted = {}

\* The first phase of a branch.
Hold(i) ==
  /\ decision \in {"open", "abort", "aborted"}
  /\ effect[i] = "none"
  /\ effect' = [effect EXCEPT ![i] = "held"]
  /\ UNCHANGED <<decision, counted>>

\* A branch is closed before its first phase has taken effect, and it never will.
Refuse(i) ==
  /\ decision \in {"open", "abort", "aborted"}
  /\ effect[i] = "none"
  /\ effect' = [effect EXCEPT ![i] = "undone"]
  /\ UNCHANGED <<decision, counted>>

Commit ==
  /\ decision = "open"
  /\ \A i \in Branch : effect[i] \in {"none", "held"}
  /\ decision' = "commit"
  /\ counted' = Held
  /\ UNCHANGED effect

\* Whatever is held counts, and what has been announced may count, too.
Abort ==
  /\ decision = "open"
  /\ decision' = "abort"
  /\ \E S \in SUBSET Branch : Held \subseteq S /\ counted' = S
  /\ UNCHANGED effect

Carry(i) ==
  /\ decision = "commit"
  /\ i \in counted /\ effect[i] = "held"
  /\ effect' = [effect EXCEPT ![i] = "done"]
  /\ UNCHANGED <<decision, counted>>

GiveBack(i) ==
  /\ decision = "abort" \/ (decision = "aborted" /\ i \notin counted)
  /\ effect[i] = "held"
  /\ effect' = [effect EXCEPT ![i] = "undone"]
  /\ UNCHANGED <<decision, counted>>

EndCommit ==
  /\ decision = "commit"
  /\ \A i \in counted : effect[i] = "done"
  /\ decision' = "committed"
  /\ UNCHANGED <<effect, counted>>

EndAbort ==
  /\ decision = "abort"
  /\ \A i \in counted : effect[i] = "undone"
  /\ decision' = "aborted"
  /\ UNCHANGED <<effect, counted>>

CNext ==
  \/ Commit \/ Abort \/ EndCommit \/ EndAbort
  \/ \E i \in Branch : Hold(i) \/ Refuse(i) \/ Carry(i) \/ GiveBack(i)

CSpec == CInit /\ [][CNext]_cvars

=============================================================================
