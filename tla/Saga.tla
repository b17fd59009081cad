-------------------------------- MODULE Saga --------------------------------
(***************************************************************************)
(* One saga driven by a pool of workers against branches that sit behind   *)
(* the barrier: Driver::process_saga with the store calls it makes,        *)
(* Api::submit and Api::abort, and the branches' side of every call.       *)
(*                                                                         *)
(* Every action is one access to shared state: a store statement, or the   *)
(* execution of a call by a branch.  Between two of them a worker's        *)
(* knowledge (the status it read when it took the lease, the reply it      *)
(* waits for) may be stale.                                                *)
(*                                                                         *)
(* Time is left out.  A lease may run out at any moment (LeaseExpires), so *)
(* any number of workers may drive the transaction at once, and a released *)
(* transaction is due at once; module Lease keeps the clock.  The lease    *)
(* token of the row is the worker that wrote it.                           *)
(***************************************************************************)
EXTENDS Core, Barrier

CONSTANTS
  N,                   \* steps of the saga
  Workers,             \* worker loops and detached drivers of all processes
  NoWorker,            \* the row holds no lease
  Backend,             \* "sql" or "redis"
  CompensateMayFail    \* may a branch answer FAILURE to its compensation?

ASSUME NAssumption == N \in Nat \ {0}
ASSUME NoWorkerAssumption == NoWorker \notin Workers
ASSUME BackendAssumption == Backend \in {"sql", "redis"}
ASSUME MayFailAssumption == CompensateMayFail \in BOOLEAN

VARIABLES
  status,      \* trans_global.status; "absent" before the row exists
  lease,       \* whose lease token the row holds
  action,      \* status of the action row of each branch
  compensate,  \* status of the compensate row of each branch
  pc,          \* where each worker is in process_saga
  st,          \* the worker's own copy of the global status
  job,         \* the instruction the worker is carrying out
  reply,       \* the answer to the worker's outstanding call
  sent,        \* every <<op, branch>> ever sent: any may arrive late or again
  aborting,    \* the status an abort request has read, "none" outside one
  rows,        \* barrier rows of each branch
  acted,       \* how often the business logic of each action took effect
  undone       \* how often that of each compensation did

store == <<status, lease, action, compensate>>
drivers == <<pc, st, job, reply>>
branches == <<rows, acted, undone>>
vars == <<status, lease, action, compensate, pc, st, job, reply, sent, aborting,
          rows, acted, undone>>

Branch == 1 .. N
SagaOp == {"action", "compensate"}
Jobs == [kind : {"call", "finish", "wait"}, op : SagaOp \cup {"none"},
         index : 0 .. N, to : GlobalStatus \cup {"none"}]

TypeOK ==
  /\ status \in {"absent", "submitted", "aborting", "succeed", "failed"}
  /\ lease \in Workers \cup {NoWorker}
  /\ action \in [Branch -> BranchStatus]
  /\ compensate \in [Branch -> BranchStatus]
  /\ pc \in [Workers -> {"idle", "loop", "call", "transition", "retry"}]
  /\ st \in [Workers -> {"submitted", "aborting"}]
  /\ job \in [Workers -> Jobs]
  /\ reply \in [Workers -> {"none", "success", "failure"}]
  /\ sent \subseteq SagaOp \X Branch
  /\ aborting \in {"none", "submitted"}
  /\ rows \in [Branch -> SUBSET SagaOp]
  /\ acted \in [Branch -> Nat]
  /\ undone \in [Branch -> Nat]

Init ==
  /\ status = "absent"
  /\ lease = NoWorker
  /\ action = [i \in Branch |-> "prepared"]
  /\ compensate = [i \in Branch |-> "prepared"]
  /\ pc = [w \in Workers |-> "idle"]
  /\ st = [w \in Workers |-> "submitted"]
  /\ job = [w \in Workers |-> Wait]
  /\ reply = [w \in Workers |-> "none"]
  /\ sent = {}
  /\ aborting = "none"
  /\ rows = [i \in Branch |-> {}]
  /\ acted = [i \in Branch |-> 0]
  /\ undone = [i \in Branch |-> 0]

-----------------------------------------------------------------------------
(***************************************************************************)
(* The caller.                                                             *)
(***************************************************************************)

\* Api::submit creates the row and its branch rows in one statement.  Without
\* an inline driver the row waits for a worker; with one it is created under
\* the lease of a detached driver, which starts at once.  Submitting the gid
\* again changes nothing.
Submit ==
  /\ status = "absent"
  /\ status' = "submitted"
  /\ \/ UNCHANGED <<lease, drivers>>
     \/ \E w \in Workers :
          /\ pc[w] = "idle"
          /\ lease' = w
          /\ pc' = [pc EXCEPT ![w] = "loop"]
          /\ st' = [st EXCEPT ![w] = "submitted"]
          /\ UNCHANGED <<job, reply>>
  /\ UNCHANGED <<action, compensate, sent, aborting, branches>>

\* One round of Api::abort reads the row ...
AbortRead ==
  /\ aborting = "none"
  /\ status = "submitted"
  /\ aborting' = status
  /\ UNCHANGED <<store, drivers, sent, branches>>

\* Mutant of AbortWrite: the status is written without comparing.
AbortWriteBlind ==
  /\ aborting # "none"
  /\ status' = "aborting"
  /\ aborting' = "none"
  /\ UNCHANGED <<lease, action, compensate, drivers, sent, branches>>

\* ... and turns it round only if it still is what was read.  A round that
\* loses starts over, up to five times; that a request stops after some round
\* is the choice never to take the next AbortRead.
AbortWrite ==
  /\ aborting # "none"
  /\ status' = IF status = aborting THEN "aborting" ELSE status
  /\ aborting' = "none"
  /\ UNCHANGED <<lease, action, compensate, drivers, sent, branches>>

-----------------------------------------------------------------------------
(***************************************************************************)
(* Leases.                                                                 *)
(***************************************************************************)

\* Mutant of Lock: an aborting row is not schedulable.
LockSubmitted(w) ==
  /\ pc[w] = "idle"
  /\ status = "submitted"
  /\ lease = NoWorker
  /\ lease' = w
  /\ pc' = [pc EXCEPT ![w] = "loop"]
  /\ st' = [st EXCEPT ![w] = status]
  /\ UNCHANGED <<status, action, compensate, job, reply, sent, aborting, branches>>

\* lock_one_due: a schedulable row without a running lease is taken, and the
\* worker's copy of the status is the one in the row at that moment.
Lock(w) ==
  /\ pc[w] = "idle"
  /\ status \in {"submitted", "aborting"}
  /\ lease = NoWorker
  /\ lease' = w
  /\ pc' = [pc EXCEPT ![w] = "loop"]
  /\ st' = [st EXCEPT ![w] = status]
  /\ UNCHANGED <<status, action, compensate, job, reply, sent, aborting, branches>>

\* The lease runs out while its holder may well be alive and busy.
LeaseExpires ==
  /\ lease # NoWorker
  /\ lease' = NoWorker
  /\ UNCHANGED <<status, action, compensate, drivers, sent, aborting, branches>>

\* release_lease: only the lease named by the worker's own token is freed.
Release(w) == lease' = IF lease = w THEN NoWorker ELSE lease

\* process_saga returns (or dies): the worker's locals are gone.
EndRound(w) ==
  /\ pc' = [pc EXCEPT ![w] = "idle"]
  /\ st' = [st EXCEPT ![w] = "submitted"]
  /\ job' = [job EXCEPT ![w] = Wait]
  /\ reply' = [reply EXCEPT ![w] = "none"]

-----------------------------------------------------------------------------
(***************************************************************************)
(* process_saga.                                                           *)
(***************************************************************************)

\* Top of the loop: read the branch rows, decide, and send the call if the
\* decision is one.
Advance(w) ==
  LET d == SagaAdvance(st[w], action, compensate)
  IN /\ pc[w] = "loop"
     /\ job' = [job EXCEPT ![w] = d]
     /\ \/ /\ d.kind = "call"
           /\ pc' = [pc EXCEPT ![w] = "call"]
           /\ sent' = sent \cup {<<d.op, d.index>>}
        \/ /\ d.kind = "finish"
           /\ pc' = [pc EXCEPT ![w] = "transition"]
           /\ UNCHANGED sent
     /\ UNCHANGED <<store, st, reply, aborting, branches>>

\* The branch answered SUCCESS: record it and go round.
BranchSucceeded(w) ==
  /\ pc[w] = "call" /\ reply[w] = "success"
  /\ pc' = [pc EXCEPT ![w] = "loop"]
  /\ IF job[w].op = "action"
     THEN /\ action' = [action EXCEPT ![job[w].index] = "succeed"]
          /\ UNCHANGED compensate
     ELSE /\ compensate' = [compensate EXCEPT ![job[w].index] = "succeed"]
          /\ UNCHANGED action
  /\ job' = [job EXCEPT ![w] = Wait]
  /\ reply' = [reply EXCEPT ![w] = "none"]
  /\ UNCHANGED <<status, lease, st, sent, aborting, branches>>

\* An action answered FAILURE: record it, then turn the transaction round.
ActionFailed(w) ==
  /\ pc[w] = "call" /\ reply[w] = "failure" /\ job[w].op = "action"
  /\ action' = [action EXCEPT ![job[w].index] = "failed"]
  /\ pc' = [pc EXCEPT ![w] = "transition"]
  /\ job' = [job EXCEPT ![w] = Finish("aborting")]
  /\ reply' = [reply EXCEPT ![w] = "none"]
  /\ UNCHANGED <<status, lease, compensate, st, sent, aborting, branches>>

\* A compensation answered FAILURE: record it, then back off.
CompensateFailed(w) ==
  /\ pc[w] = "call" /\ reply[w] = "failure" /\ job[w].op = "compensate"
  /\ compensate' = [compensate EXCEPT ![job[w].index] = "failed"]
  /\ pc' = [pc EXCEPT ![w] = "retry"]
  /\ job' = [job EXCEPT ![w] = Wait]
  /\ reply' = [reply EXCEPT ![w] = "none"]
  /\ UNCHANGED <<status, lease, action, st, sent, aborting, branches>>

\* ONGOING, or no usable answer: the call may have been executed, may be
\* executed later, or never.  Nothing is recorded.
NoAnswer(w) ==
  /\ pc[w] = "call"
  /\ pc' = [pc EXCEPT ![w] = "retry"]
  /\ job' = [job EXCEPT ![w] = Wait]
  /\ reply' = [reply EXCEPT ![w] = "none"]
  /\ UNCHANGED <<store, st, sent, aborting, branches>>

\* retry_later.
RetryLater(w) ==
  /\ pc[w] = "retry"
  /\ Release(w)
  /\ EndRound(w)
  /\ UNCHANGED <<status, action, compensate, sent, aborting, branches>>

\* Store::transition as the driver calls it: SQL always compares with the
\* worker's copy; Redis writes blindly where nobody else may write.
CanTransition(w) ==
  \/ status = st[w]
  \/ Backend = "redis" /\ ~StatusContested(st[w], "saga")

\* Driver::transition.  Losing the comparison ends the round and gives the
\* lease back; winning it ends the round on a final status, or goes on as
\* aborting.
Transition(w) ==
  /\ pc[w] = "transition"
  /\ IF CanTransition(w)
     THEN /\ status' = job[w].to
          /\ IF job[w].to = "aborting"
             THEN /\ st' = [st EXCEPT ![w] = "aborting"]
                  /\ pc' = [pc EXCEPT ![w] = "loop"]
                  /\ job' = [job EXCEPT ![w] = Wait]
                  /\ UNCHANGED reply
             ELSE EndRound(w)
          /\ UNCHANGED lease
     ELSE /\ Release(w)
          /\ EndRound(w)
          /\ UNCHANGED status
  /\ UNCHANGED <<action, compensate, sent, aborting, branches>>

\* The process dies, or a store call fails and the round ends with an error:
\* the lease stays in the row.
Crash(w) ==
  /\ pc[w] # "idle"
  /\ EndRound(w)
  /\ UNCHANGED <<store, sent, aborting, branches>>

-----------------------------------------------------------------------------
(***************************************************************************)
(* The branches.  A branch runs decide and its business logic in one       *)
(* database transaction: FAILURE rolls both back.                          *)
(***************************************************************************)

\* Branch i executes op o and answers r.
Runs(o, i, r) ==
  \/ /\ Decide(rows[i], o) = "Execute"
     /\ r = "success"
     /\ rows' = [rows EXCEPT ![i] = DecideRows(rows[i], o)]
     /\ IF o = "action"
        THEN acted' = [acted EXCEPT ![i] = @ + 1] /\ UNCHANGED undone
        ELSE undone' = [undone EXCEPT ![i] = @ + 1] /\ UNCHANGED acted
  \/ /\ Decide(rows[i], o) = "Execute"
     /\ r = "failure"
     /\ o = "action" \/ CompensateMayFail
     /\ UNCHANGED branches
  \/ /\ Decide(rows[i], o) # "Execute"
     /\ r = "success"
     /\ rows' = [rows EXCEPT ![i] = DecideRows(rows[i], o)]
     /\ UNCHANGED <<acted, undone>>

\* The call a worker is waiting for is executed and its answer travels back.
Execute(w) ==
  /\ pc[w] = "call" /\ reply[w] = "none"
  /\ \E r \in {"success", "failure"} :
       /\ Runs(job[w].op, job[w].index, r)
       /\ reply' = [reply EXCEPT ![w] = r]
  /\ UNCHANGED <<store, pc, st, job, sent, aborting>>

\* A call nobody waits for any more, or a duplicate of one, is executed.
ExecuteStray ==
  /\ \E c \in sent, r \in {"success", "failure"} : Runs(c[1], c[2], r)
  /\ UNCHANGED <<store, drivers, sent, aborting>>

-----------------------------------------------------------------------------
Next ==
  \/ Submit \/ AbortRead \/ AbortWrite \/ LeaseExpires \/ ExecuteStray
  \/ \E w \in Workers :
       \/ Lock(w) \/ Advance(w) \/ BranchSucceeded(w) \/ ActionFailed(w)
       \/ CompensateFailed(w) \/ NoAnswer(w) \/ RetryLater(w) \/ Transition(w)
       \/ Crash(w) \/ Execute(w)

Spec == Init /\ [][Next]_vars

-----------------------------------------------------------------------------
(***************************************************************************)
(* Properties.                                                             *)
(***************************************************************************)

\* A transaction reported as succeed has every action in effect exactly once
\* and none taken back; one reported as failed has no effect left anywhere.
\* Holds under stale workers, late and repeated calls and crashes, provided no
\* compensation ever answers FAILURE (driver.rs process_saga, barrier decide).
Atomicity ==
  /\ status = "succeed" => \A i \in Branch : acted[i] = 1 /\ undone[i] = 0
  /\ status = "failed" => \A i \in Branch : acted[i] = undone[i]

\* What remains of Atomicity when compensations do answer FAILURE: succeed
\* still means everything was done once and nothing was taken back, and no
\* branch ever takes back more than it did.
SucceedIsWhole ==
  /\ status = "succeed" => \A i \in Branch : acted[i] = 1 /\ undone[i] = 0
  /\ \A i \in Branch : acted[i] <= 1 /\ undone[i] <= acted[i]

\* A saga's steps take effect in order and are taken back in reverse: an
\* effective action has all its predecessors in effect or taken back, and a
\* branch is compensated only when every later branch is closed to its action
\* (saga_advance, with the barrier shutting out the calls of stale workers).
StepOrder ==
  /\ \A i, j \in Branch : j < i /\ acted[i] > 0 => acted[j] > 0
  /\ \A i, j \in Branch : i < j /\ undone[i] > 0 => "compensate" \in rows[j]

\* Nobody calls a compensation unless the transaction is being, or has been,
\* rolled back; in particular a caller told that the abort was accepted never
\* sees the transaction succeed.
CompensateOnlyWhenAborting ==
  (\E i \in Branch : <<"compensate", i>> \in sent) => status \in {"aborting", "failed"}

\* The global status only moves forward: an abort that was accepted is never
\* overwritten by a worker that still believes in submitted, and a final
\* status is final (Store::transition, status_contested).
StatusForward ==
  [][\/ status = "absent" /\ status' = "submitted"
     \/ status = "submitted" /\ status' \in {"aborting", "succeed"}
     \/ status = "aborting" /\ status' = "failed"]_status

\* The comment on a failed compensation says it "can only be retried for
\* ever": a transaction whose compensations did not all take effect is then
\* never reported as failed.
FailedIsClean ==
  status = "failed" => \A i \in Branch : acted[i] = undone[i]

\* The promise to the caller, as a specification of its own: see GlobalTx.
Outcome == IF IsFinal(status) THEN status ELSE "open"
Effect == [i \in Branch |-> IF undone[i] > 0 THEN "undone"
                            ELSE IF acted[i] > 0 THEN "applied" ELSE "none"]
Promise == INSTANCE GlobalTx WITH outcome <- Outcome, effect <- Effect

\* Saga implements GlobalTx: whatever the workers do, the branches' effects
\* and the reported outcome follow the abstract saga.
Implements == Promise!GSpec

-----------------------------------------------------------------------------
(***************************************************************************)
(* Liveness.  Workers keep polling (worker_loop) and finish the round they *)
(* began; leases run out; a branch that is called again and again in the   *)
(* end executes the call and its answer comes back.  Nothing makes a       *)
(* caller submit or abort, and nothing prevents crashes except that a      *)
(* worker is not struck in every round.                                    *)
(***************************************************************************)
Fairness ==
  /\ WF_vars(LeaseExpires)
  /\ \A w \in Workers :
       /\ WF_vars(Lock(w))
       /\ SF_vars(Advance(w) \/ RetryLater(w))
       /\ SF_vars(Execute(w))
       /\ SF_vars(BranchSucceeded(w) \/ ActionFailed(w) \/ CompensateFailed(w))
       /\ SF_vars(Transition(w))

FairSpec == Spec /\ Fairness

\* Every submitted saga comes to an end, through retries, crashes of workers and
\* lease hand-overs, unless one of its compensations has answered FAILURE: that one
\* process_saga says it retries for ever (FailedIsClean is about what it does).
Terminates == status = "submitted" ~> IsFinal(status) \/ \E i \in Branch : compensate[i] = "failed"

=============================================================================
