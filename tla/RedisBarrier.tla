---------------------------- MODULE RedisBarrier ----------------------------
(***************************************************************************)
(* The barrier for business data in Redis (redis_barrier.rs): decision and *)
(* business are one Lua script.  The business is the flash sale of         *)
(* check_adjust_amount: every transaction takes one piece of one stock.    *)
(*                                                                         *)
(* Sagas take it in branch 1 and do something elsewhere in branch 2, and   *)
(* are driven as saga_advance says; calls may get lost, arrive late and    *)
(* repeatedly, and an abort may come at any time.  Messages take it in the *)
(* caller's local transaction, which the check-back asks about with        *)
(* query_prepared.                                                         *)
(*                                                                         *)
(* What the driver makes of an outcome is what docs/integration.md tells   *)
(* handlers to answer: a refusal is a failure, all else a success.         *)
(***************************************************************************)
EXTENDS Core, Barrier, FiniteSets

CONSTANTS
  Sagas,        \* sagas
  Msgs,         \* messages
  Stock,        \* pieces at the start
  MaxRestock    \* bound: pieces an operator may add

ASSUME StockAssumption == Stock \in Nat /\ MaxRestock \in Nat
ASSUME DisjointAssumption == Sagas \cap Msgs = {}

VARIABLES
  stock,    \* the business key
  keys,     \* barrier keys of each transaction's Redis branch: op -> value
  status,   \* trans_global.status
  row,      \* trans_branch_op.status of a saga's branches
  caller,   \* where a message's caller is
  sent,     \* calls of Redis branches that may still arrive
  taken,    \* pieces each transaction holds
  refused,  \* history: transactions a script has refused
  added     \* pieces the operator has added

barrierVars == <<stock, keys, status, row, caller, sent, taken, refused, added>>

Gid == Sagas \cup Msgs
Ops == {"action", "compensate"}

BarrierTypeOK ==
  /\ stock \in Nat
  /\ keys \in [Gid -> [Ops -> {"none", "cur", "origin", "rollback"}]]
  /\ status \in [Gid -> GlobalStatus]
  /\ row \in [Sagas -> [Ops -> [1 .. 2 -> BranchStatus]]]
  /\ caller \in [Msgs -> {"prepared", "committed", "failed", "gone"}]
  /\ sent \subseteq Sagas \X Ops
  /\ taken \in [Gid -> Int] /\ refused \subseteq Gid
  /\ added \in 0 .. MaxRestock

BarrierInit ==
  /\ stock = Stock /\ added = 0
  /\ keys = [g \in Gid |-> [op \in Ops |-> "none"]]
  /\ status = [g \in Gid |-> IF g \in Sagas THEN "submitted" ELSE "prepared"]
  /\ row = [g \in Sagas |-> [op \in Ops |-> [i \in 1 .. 2 |-> "prepared"]]]
  /\ caller = [g \in Msgs |-> "prepared"]
  /\ sent = {}
  /\ taken = [g \in Gid |-> 0] /\ refused = {}

-----------------------------------------------------------------------------
(***************************************************************************)
(* The scripts.                                                            *)
(***************************************************************************)
Held(k) == {op \in Ops : k[op] # "none"}

\* SET NX of the origin's key (compensating ops only), then of the op's own.
Occupy(k, op) ==
  [o \in Ops |->
     IF k[o] # "none" THEN k[o]
     ELSE IF o = op THEN "cur"
     ELSE IF o = OriginOp(op) THEN "origin" ELSE "none"]

\* The business script of check_adjust_amount.
Adjustable(amount) == stock + amount >= 0

\* Mutant of Outcome: a compensation whose action never came runs all the same.
OutcomeNoOrigin(k, op, amount) ==
  CASE op \in Held(k) -> "Duplicated"
    [] OTHER -> IF Adjustable(amount) THEN "Executed" ELSE "Failure"

\* RedisBarrier::call: the answers in the order the script gives them.
Outcome(k, op, amount) ==
  LET null == IsCompensating(op) /\ OriginOp(op) \notin Held(k)
  IN CASE null -> "NullCompensation"
       [] ~null /\ op \in Held(k) -> "Duplicated"
       [] OTHER -> IF Adjustable(amount) THEN "Executed" ELSE "Failure"

\* One run of the script.  The keys stay whatever the business says.
Run(g, op, r) ==
  LET amount == IF op = "action" THEN -1 ELSE 1
  IN /\ r = Outcome(keys[g], op, amount)
     /\ keys' = [keys EXCEPT ![g] = Occupy(@, op)]
     /\ stock' = IF r = "Executed" THEN stock + amount ELSE stock
     /\ taken' = IF r = "Executed" THEN [taken EXCEPT ![g] = @ - amount] ELSE taken
     /\ refused' = IF r = "Failure" THEN refused \cup {g} ELSE refused

\* query_prepared looks at the action's key only: one nobody holds is turned
\* into a refusal.
QueryPrepared(g, r) ==
  LET v == IF keys[g]["action"] = "none" THEN "rollback" ELSE keys[g]["action"]
  IN /\ keys' = [keys EXCEPT ![g]["action"] = v]
     /\ r = IF v = "rollback" THEN "Failure" ELSE "Executed"

\* The answer a handler makes of an outcome (docs/integration.md).
Answer(r) == IF r = "Failure" THEN "failed" ELSE "succeed"

-----------------------------------------------------------------------------
(***************************************************************************)
(* Sagas.                                                                  *)
(***************************************************************************)
Decision(g) == SagaAdvance(status[g], row[g]["action"], row[g]["compensate"])
Calls(g, i) == Decision(g).kind = "call" /\ Decision(g).index = i

\* The driver calls the Redis branch, hears the answer and records it.
CallBranch(g) ==
  LET op == Decision(g).op
  IN /\ Calls(g, 1)
     /\ \E r \in {"Executed", "NullCompensation", "Duplicated", "Failure"} :
          Run(g, op, r) /\ row' = [row EXCEPT ![g][op][1] = Answer(r)]
     /\ UNCHANGED <<status, caller, sent, added>>

\* No answer comes: the call may arrive now, later or more than once.
CallLost(g) ==
  /\ Calls(g, 1)
  /\ sent' = sent \cup {<<g, Decision(g).op>>}
  /\ UNCHANGED <<stock, keys, status, row, caller, taken, refused, added>>

Stray(g, op) ==
  /\ <<g, op>> \in sent
  /\ \E r \in {"Executed", "NullCompensation", "Duplicated", "Failure"} : Run(g, op, r)
  /\ UNCHANGED <<status, row, caller, sent, added>>

\* The branch elsewhere: its action may refuse, its compensation succeeds.
CallElsewhere(g, r) ==
  LET op == Decision(g).op
  IN /\ Calls(g, 2)
     /\ op = "compensate" => r = "succeed"
     /\ row' = [row EXCEPT ![g][op][2] = r]
     /\ UNCHANGED <<stock, keys, status, caller, sent, taken, refused, added>>

FinishSaga(g) ==
  /\ ~IsFinal(status[g]) /\ Decision(g).kind = "finish"
  /\ status' = [status EXCEPT ![g] = Decision(g).to]
  /\ UNCHANGED <<stock, keys, row, caller, sent, taken, refused, added>>

\* Api::abort.
AbortSaga(g) ==
  /\ status[g] = "submitted"
  /\ status' = [status EXCEPT ![g] = "aborting"]
  /\ UNCHANGED <<stock, keys, row, caller, sent, taken, refused, added>>

-----------------------------------------------------------------------------
(***************************************************************************)
(* Messages.                                                               *)
(***************************************************************************)

\* The caller's local transaction; a key that is taken means that the
\* check-back came first.
Local(g) ==
  /\ caller[g] = "prepared"
  /\ \E r \in {"Executed", "Duplicated", "Failure"} :
       /\ Run(g, "action", r)
       /\ caller' = [caller EXCEPT ![g] = IF r = "Executed" THEN "committed" ELSE "failed"]
  /\ UNCHANGED <<status, row, sent, added>>

\* The caller submits or aborts, as its transaction went ...
Conclude(g) ==
  /\ caller[g] \in {"committed", "failed"}
  /\ caller' = [caller EXCEPT ![g] = "gone"]
  /\ status' = IF status[g] # "prepared" THEN status
               ELSE [status EXCEPT ![g] = IF caller[g] = "committed" THEN "submitted" ELSE "aborting"]
  /\ UNCHANGED <<stock, keys, row, sent, taken, refused, added>>

\* ... or dies before it does.
CallerDies(g) ==
  /\ caller[g] # "gone"
  /\ caller' = [caller EXCEPT ![g] = "gone"]
  /\ UNCHANGED <<stock, keys, status, row, sent, taken, refused, added>>

\* The driver checks back on a prepared message.
CheckBack(g) ==
  /\ status[g] = "prepared"
  /\ \E r \in {"Executed", "Failure"} :
       /\ QueryPrepared(g, r)
       /\ status' = [status EXCEPT ![g] = IF r = "Executed" THEN "submitted" ELSE "failed"]
  /\ UNCHANGED <<stock, row, caller, sent, taken, refused, added>>

\* A submitted message is delivered, an aborted one closed.
Deliver(g) ==
  /\ status[g] \in {"submitted", "aborting"}
  /\ status' = [status EXCEPT ![g] = IF @ = "submitted" THEN "succeed" ELSE "failed"]
  /\ UNCHANGED <<stock, keys, row, caller, sent, taken, refused, added>>

-----------------------------------------------------------------------------
\* Mutant of KeysExpire: the keys' time to live is shorter than the transaction.
ExpireShort(g) ==
  /\ keys' = [keys EXCEPT ![g] = [op \in Ops |-> "none"]]
  /\ UNCHANGED <<stock, status, row, caller, sent, taken, refused, added>>

\* The keys of a transaction expire (SET .. EX ttl).  with_ttl demands that
\* this is after the transaction's end and after the last late call.
KeysExpire(g) ==
  /\ IsFinal(status[g])
  /\ g \in Msgs => caller[g] = "gone"
  /\ keys[g] # [op \in Ops |-> "none"]
  /\ keys' = [keys EXCEPT ![g] = [op \in Ops |-> "none"]]
  /\ sent' = {c \in sent : c[1] # g}
  /\ UNCHANGED <<stock, status, row, caller, taken, refused, added>>

\* The shop adds a piece.
Restock ==
  /\ added < MaxRestock
  /\ added' = added + 1 /\ stock' = stock + 1
  /\ UNCHANGED <<keys, status, row, caller, sent, taken, refused>>

BarrierNext ==
  \/ \E g \in Sagas : \/ CallBranch(g) \/ CallLost(g)
                      \/ \E op \in Ops : Stray(g, op)
                      \/ \E r \in {"succeed", "failed"} : CallElsewhere(g, r)
                      \/ FinishSaga(g) \/ AbortSaga(g)
  \/ \E g \in Msgs : Local(g) \/ Conclude(g) \/ CallerDies(g) \/ CheckBack(g) \/ Deliver(g)
  \/ \E g \in Gid : KeysExpire(g)
  \/ Restock

BarrierSpec == BarrierInit /\ [][BarrierNext]_barrierVars

-----------------------------------------------------------------------------
(***************************************************************************)
(* Properties.                                                             *)
(***************************************************************************)

\* What transaction g holds is what its status says: one piece if it ended as
\* succeed, none if it failed, and a message goes out only with its piece.
Holds(g) ==
  /\ IsFinal(status[g]) => taken[g] = IF status[g] = "succeed" THEN 1 ELSE 0
  /\ g \in Msgs /\ status[g] = "submitted" => taken[g] = 1

\* Whatever calls got lost, came late, twice or in the wrong order, and whoever
\* decided on a message, a transaction holds what its status says: that the
\* barrier for Redis decides case by case as the one for SQL does, as the head
\* of redis_barrier.rs says.
Conserved == \A g \in Gid : Holds(g)

\* The same for every transaction none of whose scripts was refused: duplicates,
\* null compensations, hanging actions and check-backs that race the local
\* transaction are told apart by the keys alone.
ConservedUnlessRefused == \A g \in Gid \ refused : Holds(g)

\* Refused or not, nothing is taken twice and nothing stays taken by a
\* transaction that failed: the keys outlive the transaction (with_ttl).
NothingLost ==
  \A g \in Gid : taken[g] <= 1 /\ (status[g] = "failed" => taken[g] <= 0)

=============================================================================
