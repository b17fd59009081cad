------------------------------ MODULE TwoPhase ------------------------------
(***************************************************************************)
(* One TCC transaction: the caller that registers branches, tries them and *)
(* submits or aborts (embedded.rs Tcc over Api), the prepared timeout, and *)
(* Driver::drive_two_phase with any number of workers, against branches    *)
(* behind the barrier.                                                     *)
(*                                                                         *)
(* Leases are left out: one may have run out at any moment, so any idle    *)
(* worker may take the transaction whenever it is schedulable, and several *)
(* may drive it at once.  So is time: a worker that finds the transaction  *)
(* prepared may find it past its deadline or not.                          *)
(***************************************************************************)
EXTENDS Core, Barrier

CONSTANTS
  N,          \* the caller registers at most N branches
  Workers,    \* worker loops and detached drivers
  Deployments \* the stores and API processes considered: see deployment

ASSUME NAssumption == N \in Nat \ {0}
ASSUME DeploymentsAssumption ==
  Deployments \subseteq {"sql", "sql_inline", "redis", "redis_inline"}

VARIABLES
  deployment,    \* which store, and may the API drive what it submits itself?
  status,        \* trans_global.status
  registered,    \* branches 1..registered have rows
  confirm,       \* status of the confirm row of each branch
  cancel,        \* status of the cancel row of each branch
  client,        \* where the caller is
  registering,   \* a register_branch that has passed its check, 0 for none
  submitting,    \* "read": a submit_prepared between its two SQL statements
  pc,            \* where each worker is
  st,            \* the worker's copy of the status
  n,             \* branches the worker counted when its round began
  job,           \* the instruction it is carrying out
  reply,         \* the answer to its call
  sent,          \* every <<op, branch>> ever sent
  rows,          \* barrier rows of each branch
  did,           \* how often each op of each branch took effect
  known          \* history: registered when the status left prepared

store == <<deployment, status, registered, confirm, cancel>>
caller == <<client, registering, submitting>>
drivers == <<pc, st, n, job, reply>>
branches == <<rows, did>>
vars == <<deployment, status, registered, confirm, cancel, client, registering, submitting,
          pc, st, n, job, reply, sent, rows, did, known>>

Branch == 1 .. N
TccOp == {"try", "confirm", "cancel"}
Jobs == [kind : {"call", "finish", "wait"}, op : TccOp \cup {"none"},
         index : 0 .. N, to : GlobalStatus \cup {"none"}]

OnRedis == deployment \in {"redis", "redis_inline"}
Inline == deployment \in {"sql_inline", "redis_inline"}

TypeOK ==
  /\ deployment \in Deployments
  /\ status \in GlobalStatus \cup {"absent"}
  /\ registered \in 0 .. N /\ known \in 0 .. N
  /\ confirm \in [Branch -> BranchStatus] /\ cancel \in [Branch -> BranchStatus]
  /\ client \in {"new", "ready", "registering", "trying", "failed", "gone"}
  /\ registering \in 0 .. N
  /\ submitting \in {"none", "read"}
  /\ pc \in [Workers -> {"idle", "process", "loop", "call", "transition", "retry"}]
  /\ st \in [Workers -> {"prepared", "submitted", "aborting"}]
  /\ n \in [Workers -> 0 .. N]
  /\ job \in [Workers -> Jobs]
  /\ reply \in [Workers -> {"none", "success", "failure"}]
  /\ sent \subseteq TccOp \X Branch
  /\ rows \in [Branch -> SUBSET TccOp]
  /\ did \in [Branch -> [TccOp -> Nat]]

Init ==
  /\ deployment \in Deployments
  /\ status = "absent"
  /\ registered = 0 /\ known = 0
  /\ confirm = [i \in Branch |-> "prepared"]
  /\ cancel = [i \in Branch |-> "prepared"]
  /\ client = "new"
  /\ registering = 0
  /\ submitting = "none"
  /\ pc = [w \in Workers |-> "idle"]
  /\ st = [w \in Workers |-> "prepared"]
  /\ n = [w \in Workers |-> 0]
  /\ job = [w \in Workers |-> Wait]
  /\ reply = [w \in Workers |-> "none"]
  /\ sent = {}
  /\ rows = [i \in Branch |-> {}]
  /\ did = [i \in Branch |-> [o \in TccOp |-> 0]]

-----------------------------------------------------------------------------
(***************************************************************************)
(* The branches: decide and the business logic in one transaction.         *)
(***************************************************************************)
Runs(o, i, r) ==
  \/ /\ Decide(rows[i], o) = "Execute"
     /\ r = "success"
     /\ rows' = [rows EXCEPT ![i] = DecideRows(rows[i], o)]
     /\ did' = [did EXCEPT ![i][o] = @ + 1]
  \/ /\ Decide(rows[i], o) = "Execute"
     /\ r = "failure"
     /\ UNCHANGED branches
  \/ /\ Decide(rows[i], o) # "Execute"
     /\ r = "success"
     /\ rows' = [rows EXCEPT ![i] = DecideRows(rows[i], o)]
     /\ UNCHANGED did

\* A call nobody waits for any more, or a duplicate, is executed.
ExecuteStray ==
  /\ \E c \in sent, r \in {"success", "failure"} : Runs(c[1], c[2], r)
  /\ UNCHANGED <<store, caller, drivers, sent, known>>

-----------------------------------------------------------------------------
(***************************************************************************)
(* The caller and the API.                                                 *)
(***************************************************************************)

\* Api::prepare.
Prepare ==
  /\ client = "new"
  /\ status' = "prepared"
  /\ client' = "ready"
  /\ UNCHANGED <<deployment, registered, confirm, cancel, registering, submitting,
                 drivers, sent, branches, known>>

\* Api::register_branch reads the status and refuses a transaction that is
\* being rolled back or over ...
RegisterRead ==
  /\ client = "ready" /\ registered < N
  /\ IF status \in {"prepared", "submitted"}
     THEN registering' = registered + 1 /\ client' = "registering"
     ELSE client' = "failed" /\ UNCHANGED registering
  /\ UNCHANGED <<store, submitting, drivers, sent, branches, known>>

\* ... and writes the branch's rows without looking again.  A caller that is
\* still there takes the answer and calls try.
RegisterWrite ==
  /\ registering # 0
  /\ registered' = registering
  /\ registering' = 0
  /\ IF client = "registering"
     THEN client' = "trying" /\ sent' = sent \cup {<<"try", registering>>}
     ELSE UNCHANGED <<client, sent>>
  /\ UNCHANGED <<deployment, status, confirm, cancel, submitting, drivers, branches, known>>

\* try answers.
Try ==
  /\ client = "trying"
  /\ \E r \in {"success", "failure"} :
       Runs("try", registered, r) /\ client' = IF r = "success" THEN "ready" ELSE "failed"
  /\ UNCHANGED <<store, registering, submitting, drivers, sent, known>>

\* try gives no answer: it may have run, may run later, or never.
TryUnknown ==
  /\ client = "trying"
  /\ client' = "failed"
  /\ UNCHANGED <<store, registering, submitting, drivers, sent, branches, known>>

\* drive_detached: the API process drives what it has just submitted.
DriveDetached(w) ==
  /\ pc[w] = "idle"
  /\ pc' = [pc EXCEPT ![w] = "process"]
  /\ st' = [st EXCEPT ![w] = "submitted"]
  /\ UNCHANGED <<n, job, reply>>

\* Everything was tried: Api::submit.  Redis reads and writes in one script;
\* SQL in two statements.  Only what is prepared is touched.
SubmitRead ==
  /\ client = "ready"
  /\ client' = "gone"
  /\ submitting' = IF status = "prepared" THEN "read" ELSE "none"
  /\ UNCHANGED <<store, registering, drivers, sent, branches, known>>

\* The UPDATE, if the row is still prepared.  Without looking at its effect an
\* API process with an inline driver begins to drive as submitted.
SubmitWrite ==
  /\ submitting = "read"
  /\ submitting' = "none"
  /\ IF status = "prepared"
     THEN status' = "submitted" /\ known' = registered
     ELSE UNCHANGED <<status, known>>
  /\ \/ UNCHANGED drivers
     \/ Inline /\ \E w \in Workers : DriveDetached(w)
  /\ UNCHANGED <<deployment, registered, confirm, cancel, client, registering, sent, branches>>

\* On Redis the two are one step, and only a write that took place is driven.
SubmitAtomic ==
  /\ client = "ready"
  /\ client' = "gone"
  /\ \/ /\ status = "prepared"
        /\ status' = "submitted" /\ known' = registered
        /\ \/ UNCHANGED drivers
           \/ Inline /\ \E w \in Workers : DriveDetached(w)
     \/ status # "prepared" /\ UNCHANGED <<status, known, drivers>>
  /\ UNCHANGED <<deployment, registered, confirm, cancel, registering, submitting,
                 sent, branches>>

Submit ==
  \/ ~OnRedis /\ (SubmitRead \/ SubmitWrite)
  \/ OnRedis /\ SubmitAtomic

\* Mutant of Abort: only a final status refuses it.
AbortSubmitted ==
  /\ status # "absent"
  /\ IF status \in {"prepared", "submitted"}
     THEN status' = "aborting" /\ known' = registered
     ELSE UNCHANGED <<status, known>>
  /\ UNCHANGED <<deployment, registered, confirm, cancel, caller, drivers, sent, branches>>

\* Api::abort, from the caller after a try went wrong or from anyone else, at
\* any time: it turns a prepared transaction round with a compare-and-set and
\* refuses a decided one.
Abort ==
  /\ status # "absent"
  /\ IF status = "prepared"
     THEN status' = "aborting" /\ known' = registered
     ELSE UNCHANGED <<status, known>>
  /\ UNCHANGED <<deployment, registered, confirm, cancel, caller, drivers, sent, branches>>

\* The caller dies.
ClientCrash ==
  /\ client \notin {"new", "gone"}
  /\ client' = "gone"
  /\ UNCHANGED <<store, registering, submitting, drivers, sent, branches, known>>

-----------------------------------------------------------------------------
(***************************************************************************)
(* The driver.                                                             *)
(***************************************************************************)
EndRound(w) ==
  /\ pc' = [pc EXCEPT ![w] = "idle"]
  /\ st' = [st EXCEPT ![w] = "prepared"]
  /\ n' = [n EXCEPT ![w] = 0]
  /\ job' = [job EXCEPT ![w] = Wait]
  /\ reply' = [reply EXCEPT ![w] = "none"]

Lock(w) ==
  /\ pc[w] = "idle"
  /\ Schedulable(status, "tcc")
  /\ pc' = [pc EXCEPT ![w] = "process"]
  /\ st' = [st EXCEPT ![w] = status]
  /\ UNCHANGED <<store, caller, n, job, reply, sent, branches, known>>

\* Mutant of CanTransition: on Redis nothing is compared.
CanTransitionBlind(w) == status = st[w] \/ OnRedis

\* Store::transition as the driver calls it: SQL compares, Redis compares only
\* where somebody else may write.
CanTransition(w) ==
  \/ status = st[w]
  \/ OnRedis /\ ~StatusContested(st[w], "tcc")

\* process: a prepared transaction past its deadline is turned round, or the
\* comparison is lost and the round over.
PreparedTimeout(w) ==
  /\ pc[w] = "process" /\ st[w] = "prepared"
  /\ IF CanTransition(w)
     THEN /\ status' = "aborting" /\ known' = registered
          /\ st' = [st EXCEPT ![w] = "aborting"]
          /\ UNCHANGED <<pc, n, job, reply>>
     ELSE EndRound(w) /\ UNCHANGED <<status, known>>
  /\ UNCHANGED <<deployment, registered, confirm, cancel, caller, sent, branches>>

\* Before its deadline it is put back.
NotDue(w) ==
  /\ pc[w] = "process" /\ st[w] = "prepared"
  /\ EndRound(w)
  /\ UNCHANGED <<store, caller, sent, branches, known>>

\* drive_two_phase counts the branches once; with none it is over at once.
Count(w) ==
  /\ pc[w] = "process" /\ st[w] # "prepared"
  /\ n' = [n EXCEPT ![w] = registered]
  /\ \/ registered # 0 /\ pc' = [pc EXCEPT ![w] = "loop"] /\ UNCHANGED job
     \/ /\ registered = 0
        /\ pc' = [pc EXCEPT ![w] = "transition"]
        /\ job' = [job EXCEPT ![w] =
                     Finish(IF st[w] = "aborting" THEN "failed" ELSE "succeed")]
  /\ UNCHANGED <<store, caller, st, reply, sent, branches, known>>

\* Top of the loop: read the first n branches, decide, send the call.
Advance(w) ==
  LET first(v) == [i \in 1 .. n[w] |-> v[i]]
      d == TccAdvance(st[w], first(confirm), first(cancel))
  IN /\ pc[w] = "loop"
     /\ job' = [job EXCEPT ![w] = d]
     /\ \/ /\ d.kind = "call"
           /\ pc' = [pc EXCEPT ![w] = "call"]
           /\ sent' = sent \cup {<<d.op, d.index>>}
        \/ /\ d.kind = "finish"
           /\ pc' = [pc EXCEPT ![w] = "transition"]
           /\ UNCHANGED sent
     /\ UNCHANGED <<store, caller, st, n, reply, branches, known>>

\* The call is executed and its answer travels back.
Execute(w) ==
  /\ pc[w] = "call" /\ reply[w] = "none"
  /\ \E r \in {"success", "failure"} :
       /\ Runs(job[w].op, job[w].index, r)
       /\ reply' = [reply EXCEPT ![w] = r]
  /\ UNCHANGED <<store, caller, pc, st, n, job, sent, known>>

\* SUCCESS is recorded and the loop goes on; FAILURE is recorded too, but all
\* it does is end the round: the direction stays.
Record(w) ==
  LET s == IF reply[w] = "success" THEN "succeed" ELSE "failed"
  IN /\ pc[w] = "call" /\ reply[w] # "none"
     /\ IF job[w].op = "confirm"
        THEN confirm' = [confirm EXCEPT ![job[w].index] = s] /\ UNCHANGED cancel
        ELSE cancel' = [cancel EXCEPT ![job[w].index] = s] /\ UNCHANGED confirm
     /\ pc' = [pc EXCEPT ![w] = IF s = "succeed" THEN "loop" ELSE "retry"]
     /\ job' = [job EXCEPT ![w] = Wait]
     /\ reply' = [reply EXCEPT ![w] = "none"]
     /\ UNCHANGED <<deployment, status, registered, caller, st, n, sent, branches, known>>

\* ONGOING, or no usable answer.
NoAnswer(w) ==
  /\ pc[w] = "call"
  /\ pc' = [pc EXCEPT ![w] = "retry"]
  /\ job' = [job EXCEPT ![w] = Wait]
  /\ reply' = [reply EXCEPT ![w] = "none"]
  /\ UNCHANGED <<store, caller, st, n, sent, branches, known>>

RetryLater(w) ==
  /\ pc[w] = "retry"
  /\ EndRound(w)
  /\ UNCHANGED <<store, caller, sent, branches, known>>

\* The final status; a lost comparison ends the round as well.
Transition(w) ==
  /\ pc[w] = "transition"
  /\ status' = IF CanTransition(w) THEN job[w].to ELSE status
  /\ EndRound(w)
  /\ UNCHANGED <<deployment, registered, confirm, cancel, caller, sent, branches, known>>

Crash(w) ==
  /\ pc[w] # "idle"
  /\ EndRound(w)
  /\ UNCHANGED <<store, caller, sent, branches, known>>

-----------------------------------------------------------------------------
Next ==
  \/ Prepare \/ RegisterRead \/ RegisterWrite \/ Try \/ TryUnknown \/ Submit
  \/ Abort \/ ClientCrash \/ ExecuteStray
  \/ \E w \in Workers :
       \/ Lock(w) \/ PreparedTimeout(w) \/ NotDue(w) \/ Count(w) \/ Advance(w)
       \/ Execute(w) \/ Record(w) \/ NoAnswer(w) \/ RetryLater(w) \/ Transition(w)
       \/ Crash(w)

Spec == Init /\ [][Next]_vars

(***************************************************************************)
(* Fairness.  Workers keep polling, finish the rounds they begin, and come *)
(* round to the deadline; a branch that is called again and again in the   *)
(* end executes the call and answers SUCCESS.  Nothing is assumed of the   *)
(* caller.                                                                 *)
(***************************************************************************)
Succeeds(w) == Execute(w) /\ reply'[w] = "success"

Fairness ==
  \A w \in Workers :
    /\ WF_vars(Lock(w))
    /\ SF_vars(PreparedTimeout(w))
    /\ SF_vars(Count(w))
    /\ SF_vars(Advance(w))
    /\ WF_vars(Record(w) \/ RetryLater(w))
    /\ SF_vars(Succeeds(w))
    /\ SF_vars(Record(w) /\ reply[w] = "success")
    /\ SF_vars(Transition(w))

FairSpec == Spec /\ Fairness

-----------------------------------------------------------------------------
(***************************************************************************)
(* Properties.                                                             *)
(***************************************************************************)

\* The rule of the second phase: not one branch is confirmed while another is
\* cancelled, through stale workers, timeouts racing submits, and late calls
\* (drive_two_phase, Api::abort, submit_prepared).
OneDirection ==
  ~ \E i, j \in Branch : did[i]["confirm"] > 0 /\ did[j]["cancel"] > 0

\* A decided transaction is decided for every branch registered when the
\* decision fell: succeed means each was tried and confirmed once, failed that
\* each try that took effect was cancelled and no late try can follow.
DecidedIsWhole ==
  /\ status = "succeed" => \A i \in 1 .. known :
       did[i]["try"] = 1 /\ did[i]["confirm"] = 1 /\ did[i]["cancel"] = 0
  /\ status = "failed" => \A i \in 1 .. known :
       did[i]["try"] = did[i]["cancel"] /\ "try" \in rows[i] /\ did[i]["confirm"] = 0

\* The refinement of Commitment.  What a branch shows is what it did, each op at
\* most once; a cancel that came before the try has closed it.
Decision ==
  CASE status \in {"absent", "prepared"} -> "open"
    [] status = "submitted" -> "commit"
    [] status = "aborting" -> "abort"
    [] status = "succeed" -> "committed"
    [] status = "failed" -> "aborted"
Shows(i) ==
  LET d == <<did[i]["try"], did[i]["confirm"], did[i]["cancel"]>>
  IN CASE d = <<0, 0, 0>> -> IF "try" \in rows[i] THEN "undone" ELSE "none"
       [] d = <<1, 0, 0>> -> "held"
       [] d = <<1, 1, 0>> -> "done"
       [] d = <<1, 0, 1>> -> "undone"
       [] OTHER -> "wrong"
Effect == [i \in Branch |-> Shows(i)]
Promise == INSTANCE Commitment WITH decision <- Decision, effect <- Effect, counted <- 1 .. known

\* TCC is an atomic commitment: it is decided once, submitted only with every try
\* in place, and however workers, timeout, callers and late calls interleave the
\* branches only ever follow that decision, each op once; what the status reports
\* at the end is true of every branch registered by the decision (Tcc, Api,
\* drive_two_phase, Barrier::decide).
Implements == Promise!CSpec

\* Prepared is left once, in one direction, and never for the other.
StatusForward ==
  [][\/ status = "absent" /\ status' = "prepared"
     \/ status = "prepared" /\ status' \in {"submitted", "aborting"}
     \/ status = "submitted" /\ status' = "succeed"
     \/ status = "aborting" /\ status' = "failed"]_status

\* Every transaction that was prepared is decided, also when its caller dies
\* at any point (the prepared timeout), through crashes and lost answers.
Decided == status = "prepared" ~> IsFinal(status)

\* The check in register_branch is there so that no first phase is left behind
\* without anybody to finish it: once the transaction has failed, every try
\* that took effect has been cancelled.
NoTryLeftBehind ==
  status = "failed" => \A i \in Branch : did[i]["try"] <= did[i]["cancel"]

=============================================================================
