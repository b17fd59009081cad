------------------------------- MODULE Barrier -------------------------------
(***************************************************************************)
(* The sub-transaction barrier a branch puts in front of its business SQL  *)
(* (crates/dtmrs-barrier).  The barrier rows of one branch of one          *)
(* transaction, for one barrier id, are the set of ops that own a row: the *)
(* primary key makes a second insert of the same op affect no row.         *)
(* Everything `decide` inserts commits or rolls back with the business     *)
(* transaction that called it.                                             *)
(***************************************************************************)
BranchOp == {"action", "compensate", "try", "confirm", "cancel", "commit", "rollback"}

\* The forward op a compensating op stands against ("none": it has none).
OriginOp(op) ==
  CASE op = "cancel" -> "try"
    [] op = "compensate" -> "action"
    [] op = "rollback" -> "action"
    [] OTHER -> "none"

IsCompensating(op) == OriginOp(op) # "none"

\* Mutant of DecideRows: a compensating op leaves no row for its origin.
DecideRowsNoOrigin(rows, op) == rows \cup {op}

\* The rows after `decide`: the op's own row and, for a compensating op, the
\* row of the forward op it stands against.
DecideRows(rows, op) ==
  rows \cup {op} \cup (IF OriginOp(op) = "none" THEN {} ELSE {OriginOp(op)})

\* Mutant of Decide: the op's own row is not looked at.
DecideAgain(rows, op) ==
  IF IsCompensating(op) /\ OriginOp(op) \notin rows THEN "NullCompensation" ELSE "Execute"

\* What `decide` answers, from which of the two inserts took effect.
Decide(rows, op) ==
  IF IsCompensating(op) /\ OriginOp(op) \notin rows THEN "NullCompensation"
  ELSE IF op \in rows THEN "Duplicated"
  ELSE "Execute"

=============================================================================
