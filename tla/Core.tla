-------------------------------- MODULE Core --------------------------------
(***************************************************************************)
(* The pure part of the coordinator (crates/dtmrs-core): status sets, the  *)
(* decision functions that turn persisted branch statuses into the         *)
(* driver's next instruction, the rule that says which statuses other      *)
(* actors may change, and the retry back-off.  Every coordinator module    *)
(* extends this one.                                                       *)
(*                                                                         *)
(* A transaction's branches are numbered 1..n, where the code counts from  *)
(* 0; a vector of branch statuses is a function on 1..n.                   *)
(***************************************************************************)
EXTENDS Integers

GlobalStatus == {"prepared", "submitted", "aborting", "succeed", "failed"}
BranchStatus == {"prepared", "succeed", "failed"}
TransType == {"saga", "tcc", "msg", "xa", "workflow"}

IsFinal(s) == s \in {"succeed", "failed"}

\* Mutant of StatusContested: a submitted saga counts as the driver's own.
StatusContestedPrepared(s, tt) == s = "prepared"

\* Whether somebody other than the driver can change this status: abort, or
\* submit of a prepared transaction.
StatusContested(s, tt) ==
  \/ s = "prepared"
  \/ s = "submitted" /\ tt \in {"saga", "workflow"}

-----------------------------------------------------------------------------
(***************************************************************************)
(* Instructions.  A decision is a record with fixed fields: the kind says  *)
(* which of them count.                                                    *)
(***************************************************************************)
Call(op, i) == [kind |-> "call", op |-> op, index |-> i, to |-> "none"]
Finish(s) == [kind |-> "finish", op |-> "none", index |-> 0, to |-> s]
Wait == [kind |-> "wait", op |-> "none", index |-> 0, to |-> "none"]

\* Scanning a vector forwards and backwards: the first and the last member of
\* a non-empty finite set of branch numbers.
First(S) == CHOOSE i \in S : \A j \in S : i <= j
Last(S) == CHOOSE i \in S : \A j \in S : j <= i

\* The forward half of saga_advance: a branch already marked failed turns the
\* transaction round, anything else unfinished is called.
SagaForward(actions) ==
  LET open == {i \in DOMAIN actions : actions[i] # "succeed"}
  IN IF open = {} THEN Finish("succeed")
     ELSE IF actions[First(open)] = "failed" THEN Finish("aborting")
     ELSE Call("action", First(open))

\* Mutant of SagaBackward: compensations run in the order of the actions.
SagaBackwardFirst(compensates) ==
  LET open == {i \in DOMAIN compensates : compensates[i] = "prepared"}
  IN IF open = {} THEN Finish("failed") ELSE Call("compensate", First(open))

\* The backward half: the last compensation still marked prepared.  A
\* compensation marked failed is passed over.
SagaBackward(compensates) ==
  LET open == {i \in DOMAIN compensates : compensates[i] = "prepared"}
  IN IF open = {} THEN Finish("failed") ELSE Call("compensate", Last(open))

SagaAdvance(status, actions, compensates) ==
  CASE status = "submitted" -> SagaForward(actions)
    [] status = "aborting" -> SagaBackward(compensates)
    [] status = "prepared" -> Wait
    [] OTHER -> Finish(status)

-----------------------------------------------------------------------------
(***************************************************************************)
(* Two-phase modes: once submitted the direction is fixed, and a branch    *)
(* that is not yet a success is called again whatever it answered before.  *)
(***************************************************************************)
TwoPhaseAdvance(status, forward, backward, goOp, undoOp) ==
  LET go == {i \in DOMAIN forward : forward[i] # "succeed"}
      undo == {i \in DOMAIN backward : backward[i] # "succeed"}
  IN CASE status = "prepared" -> Wait
       [] status = "submitted" ->
            IF go = {} THEN Finish("succeed") ELSE Call(goOp, First(go))
       [] status = "aborting" ->
            IF undo = {} THEN Finish("failed") ELSE Call(undoOp, Last(undo))
       [] OTHER -> Finish(status)

TccAdvance(status, confirms, cancels) ==
  TwoPhaseAdvance(status, confirms, cancels, "confirm", "cancel")

\* Mutant of XaAdvance: a commit that failed turns the transaction round, as a
\* failed action does in a saga.
XaAdvanceTurnsRound(status, commits, rollbacks) ==
  IF status = "submitted" /\ \E i \in DOMAIN commits : commits[i] = "failed"
  THEN Finish("aborting")
  ELSE TwoPhaseAdvance(status, commits, rollbacks, "commit", "rollback")

XaAdvance(status, commits, rollbacks) ==
  TwoPhaseAdvance(status, commits, rollbacks, "commit", "rollback")

-----------------------------------------------------------------------------
(***************************************************************************)
(* Messages.  A branch is a pair <<step, url>>: all urls of a step are     *)
(* called at once, a step only after the ones before it.                   *)
(***************************************************************************)

\* expand_msg_steps: each step is an address, or a topic that stands for its
\* subscribers.
ExpandMsgSteps(actions, topic, subscribers) ==
  UNION {{<<i, u>> : u \in IF actions[i] = topic THEN subscribers ELSE {actions[i]}} :
           i \in DOMAIN actions}

\* A topic nobody subscribes to is refused unless the caller allows it.
EmptyTopic(actions, topic, subscribers) ==
  subscribers = {} /\ \E i \in DOMAIN actions : actions[i] = topic

\* Mutant of MsgFanoutAdvance: every open branch is called at once.
MsgFanoutAll(status, branches, done) ==
  LET open == branches \ done
  IN CASE status = "prepared" -> [each |-> {}, to |-> "none"]
       [] status = "submitted" -> [each |-> open, to |-> IF open = {} THEN "succeed" ELSE "none"]
       [] status = "aborting" -> [each |-> {}, to |-> "failed"]
       [] OTHER -> [each |-> {}, to |-> status]

\* The branches to call now, or the status to end with.
MsgFanoutAdvance(status, branches, done) ==
  LET open == branches \ done
      step == First({b[1] : b \in open})
  IN CASE status = "prepared" -> [each |-> {}, to |-> "none"]
       [] status = "submitted" ->
            IF open = {} THEN [each |-> {}, to |-> "succeed"]
            ELSE [each |-> {b \in open : b[1] = step}, to |-> "none"]
       [] status = "aborting" -> [each |-> {}, to |-> "failed"]
       [] OTHER -> [each |-> {}, to |-> status]

-----------------------------------------------------------------------------
(***************************************************************************)
(* Workflows.  Forwards the user's function decides; backwards the         *)
(* compensations that were registered are called, the last one first, and  *)
(* a failed one again.                                                     *)
(***************************************************************************)
RunWorkflow == [kind |-> "run", op |-> "none", index |-> 0, to |-> "none"]

WorkflowAdvance(status, compensates) ==
  LET undo == {i \in DOMAIN compensates : compensates[i] # "succeed"}
  IN CASE status = "prepared" -> Wait
       [] status = "submitted" -> RunWorkflow
       [] status = "aborting" ->
            IF undo = {} THEN Finish("failed") ELSE Call("compensate", Last(undo))
       [] OTHER -> Finish(status)

-----------------------------------------------------------------------------
(***************************************************************************)
(* What an answer means.  Only an explicit refusal is a failure: trouble   *)
(* on the way leaves the result unknown.                                   *)
(***************************************************************************)

\* Mutant of FromHttp: whatever is not a success is a failure.
FromHttpFailing(code, body) ==
  IF body = "FAILURE" \/ code \notin 200 .. 299 THEN "failure"
  ELSE IF body = "ONGOING" THEN "ongoing" ELSE "success"

\* body is the word of interest the response contains, if any: it goes before
\* the code.
FromHttp(code, body) ==
  CASE body = "FAILURE" -> "failure"
    [] body = "ONGOING" -> "ongoing"
    [] body = "" /\ code \in 200 .. 299 -> "success"
    [] body = "" /\ code = 409 -> "failure"
    [] body = "" /\ code = 425 -> "ongoing"
    [] OTHER -> "unknown"

FromGrpc(code) ==
  CASE code = 0 -> "success"
    [] code = 10 -> "failure"
    [] code = 9 -> "ongoing"
    [] OTHER -> "unknown"

-----------------------------------------------------------------------------
(***************************************************************************)
(* Exponential back-off between initial and max.                           *)
(***************************************************************************)
\* Mutant of NextIntervalWith: the doubling has no ceiling.
NextIntervalUncapped(cur, initial, max) == IF cur <= 0 THEN initial ELSE cur * 2

NextIntervalWith(cur, initial, max) ==
  IF cur <= 0 THEN initial
  ELSE IF cur * 2 <= max THEN cur * 2 ELSE max

\* When a TCC or XA transaction that is still prepared is due to be rolled
\* back; a time limit of 0 switches the deadline off.
PreparedDeadline(created, limit, never) == IF limit > 0 THEN created + limit ELSE never

\* Mutant of Schedulable: a prepared transaction waits for its caller.
SchedulableDecided(s, tt) == s \in {"submitted", "aborting"}

\* Where the store may hand a transaction to a worker.
Schedulable(s, tt) ==
  \/ s \in {"submitted", "aborting"}
  \/ s = "prepared" /\ tt \in {"msg", "tcc", "xa"}

=============================================================================
