---------------------------- MODULE ServiceProofs ----------------------------
(***************************************************************************)
(* Proofs about the service around the transactions: the leases by which   *)
(* workers share them (Lease), the embedded handle with its pool, its      *)
(* bridge and its shutdown (Runtime), and the access tokens of the HTTP    *)
(* and gRPC layers (Auth).  The three share no state: each has a           *)
(* specification and an inductive invariant of its own.                    *)
(*                                                                         *)
(* Leases, for any number of workers and any setting of the times.  LInv   *)
(* is the type invariant and three independent arguments: TokenOK for the  *)
(* leases of sagas and workflows, RequestOK for schedule_now, DueOK for    *)
(* crash recovery.                                                         *)
(***************************************************************************)
EXTENDS Lease, Runtime, Auth, CoreProofs, SequenceTheorems

\* A saga's row never waits for a submit; a running lease is the one in the
\* row; the token in the row is its holder's.
TokenOK ==
  tt = "saga" =>
    /\ status # "prepared" /\ submitting = NotSubmitting
    /\ \A w \in Workers : st[w] # "prepared"
    /\ \A w \in Workers : token[w] > now => lease_until = token[w]
    /\ \A w \in Workers : token[w] # 0 /\ token[w] = lease_until => holder = w

\* A request that counts has left its mark: a due time before the end of the
\* lease, if there is one.
RequestOK ==
  /\ status = "absent" => /\ requested = 0 /\ submitting = NotSubmitting
                          /\ next_cron_time = 0 /\ abort = "none"
                          /\ \A w \in Workers : token[w] = 0
  /\ requested # 0 => next_cron_time <= now
  /\ requested # 0 => lease_until = 0 \/ next_cron_time < lease_until
  /\ submitting.lease = 0 => submitting.nct <= now

\* No due time is further away than the longest delay.
Near(time) == \E delay \in {LeaseSecs, RetryMax, Timeout, Grace} : time <= now + delay
DueOK ==
  /\ create_time <= now
  /\ submitting.nct <= now + LeaseSecs
  /\ Timeout > 0 => Near(next_cron_time)

LInv == TypeOK /\ TokenOK /\ RequestOK /\ DueOK

-----------------------------------------------------------------------------
\* The back-off is positive and at most RetryMax (next_interval_with).
LEMMA BackOffBound ==
  ASSUME NEW cur \in Nat
  PROVE  /\ NextIntervalWith(cur, RetryInitial, RetryMax) \in Nat \ {0}
         /\ NextIntervalWith(cur, RetryInitial, RetryMax) <= RetryMax
BY TimesAssumption DEF NextIntervalWith

\* A deadline is a time, within Timeout of the creation if there is a limit.
LEMMA DeadlineBound ==
  ASSUME TypeOK
  PROVE  /\ Deadline \in Nat
         /\ Timeout > 0 => Deadline = create_time + Timeout
BY TimesAssumption DEF TypeOK, Deadline, PreparedDeadline

LEMMA InitLInv == Init => LInv
<1> SUFFICES ASSUME Init PROVE LInv
  OBVIOUS
<1>1. TypeOK
  BY DEF Init, TypeOK, GlobalStatus, NotSubmitting
<1>2. TokenOK
  BY DEF Init, TokenOK
<1>3. RequestOK
  BY DEF Init, RequestOK, NotSubmitting
<1>4. DueOK
  BY TimesAssumption DEF Init, DueOK, Near, NotSubmitting
<1> QED
  BY <1>1, <1>2, <1>3, <1>4 DEF LInv

LEMMA TickInv == LInv /\ Tick => LInv'
<1> SUFFICES ASSUME LInv, Tick PROVE LInv'
  OBVIOUS
<1> USE DEF Tick, row, sched, mine
<1>1. TypeOK'
  BY DEF LInv, TypeOK
<1>2. TokenOK'
  BY DEF LInv, TypeOK, TokenOK
<1>3. RequestOK'
  BY DEF LInv, TypeOK, RequestOK
<1>4. DueOK'
  BY TimesAssumption DEF LInv, TypeOK, DueOK, Near
<1> QED
  BY <1>1, <1>2, <1>3, <1>4 DEF LInv

LEMMA CreateInv == LInv /\ Create => LInv'
<1> SUFFICES ASSUME LInv, Create PROVE LInv'
  OBVIOUS
<1> USE TimesAssumption DEF Create, mine, Starts, PreparedDeadline
<1>1. TypeOK'
  BY DEF LInv, TypeOK, GlobalStatus
<1>2. TokenOK'
  BY DEF LInv, TypeOK, TokenOK, RequestOK
<1>3. RequestOK'
  BY DEF LInv, TypeOK, RequestOK
<1>4. DueOK'
  BY DEF LInv, TypeOK, DueOK, Near
<1> QED
  BY <1>1, <1>2, <1>3, <1>4 DEF LInv

LEMMA SubmitReadInv == LInv /\ SubmitRead => LInv'
<1> SUFFICES ASSUME LInv, SubmitRead PROVE LInv'
  OBVIOUS
<1> USE TimesAssumption DEF SubmitRead, row, sched, mine
<1>1. TypeOK'
  BY DEF LInv, TypeOK
<1>2. TokenOK'
  BY DEF LInv, TypeOK, TokenOK
<1>3. RequestOK'
  BY DEF LInv, TypeOK, RequestOK
<1>4. DueOK'
  BY DEF LInv, TypeOK, DueOK, Near
<1> QED
  BY <1>1, <1>2, <1>3, <1>4 DEF LInv

LEMMA SubmitWriteInv ==
  ASSUME NEW w \in Workers \cup {NoWorker}
  PROVE  LInv /\ SubmitWrite(w) => LInv'
<1> SUFFICES ASSUME LInv, SubmitWrite(w) PROVE LInv'
  OBVIOUS
<1> USE TimesAssumption DEF SubmitWrite, row, sched, mine, Starts
<1>1. TypeOK'
  BY WorkersAssumption DEF LInv, TypeOK, GlobalStatus, NotSubmitting
<1>2. TokenOK'
  BY DEF LInv, TokenOK
<1>3. RequestOK'
  BY DEF LInv, TypeOK, RequestOK, NotSubmitting
<1>4. DueOK'
  BY DEF LInv, TypeOK, DueOK, Near, NotSubmitting
<1> QED
  BY <1>1, <1>2, <1>3, <1>4 DEF LInv

\* Retry and the three steps of abort.
LEMMA RequestInv ==
  LInv /\ (Retry \/ AbortWrite \/ AbortSchedule \/ AbortCutShort) => LInv'
<1> SUFFICES ASSUME LInv, Retry \/ AbortWrite \/ AbortSchedule \/ AbortCutShort
             PROVE  LInv'
  OBVIOUS
<1> USE TimesAssumption
    DEF Retry, AbortWrite, AbortSchedule, AbortCutShort, ScheduleNow, row, sched, mine
<1>1. TypeOK'
  BY DEF LInv, TypeOK, GlobalStatus
<1>2. TokenOK'
  BY DEF LInv, TypeOK, TokenOK
<1>3. RequestOK'
  BY DEF LInv, TypeOK, RequestOK
<1>4. DueOK'
  BY DEF LInv, TypeOK, DueOK, Near
<1> QED
  BY <1>1, <1>2, <1>3, <1>4 DEF LInv

LEMMA LockInv ==
  ASSUME NEW w \in Workers
  PROVE  LInv /\ Lock(w) => LInv'
<1> SUFFICES ASSUME LInv, Lock(w) PROVE LInv'
  OBVIOUS
<1> USE TimesAssumption DEF Lock, row, Starts, Schedulable
<1>1. TypeOK'
  BY DEF LInv, TypeOK, GlobalStatus
<1>2. TokenOK'
  BY DEF LInv, TypeOK, TokenOK
<1>3. RequestOK'
  BY DEF LInv, TypeOK, RequestOK
<1>4. DueOK'
  BY DEF LInv, TypeOK, DueOK, Near
<1> QED
  BY <1>1, <1>2, <1>3, <1>4 DEF LInv

\* A worker that ends its round and gives back whatever its token names leaves
\* the invariant intact, for any interval within the delays.
LEMMA ReleaseInv ==
  ASSUME NEW w \in Workers, NEW interval \in Nat,
         LInv, token[w] # 0, status # "absent",
         Timeout > 0 => Near(now + interval),
         Release(w, interval), Ends(w),
         UNCHANGED <<now, row, status, submitting, abort, requested>>
  PROVE  LInv'
<1> USE TimesAssumption DEF row, sched, Ends
<1>1. TypeOK'
  BY DEF LInv, TypeOK, GlobalStatus, Release
<1>2. TokenOK'
  BY DEF LInv, TypeOK, TokenOK, Release
<1>3. RequestOK'
  BY DEF LInv, TypeOK, RequestOK, Release
<1>4. DueOK'
  BY DEF LInv, TypeOK, DueOK, Near, Release
<1> QED
  BY <1>1, <1>2, <1>3, <1>4 DEF LInv

LEMMA TransitionInv ==
  ASSUME NEW w \in Workers, NEW to \in GlobalStatus
  PROVE  LInv /\ Transition(w, to) => LInv'
<1> SUFFICES ASSUME LInv, Transition(w, to) PROVE LInv'
  OBVIOUS
<1>0. token[w] # 0 /\ status # "absent" /\ (tt = "saga" => to # "prepared")
  BY DEF LInv, TypeOK, RequestOK, TokenOK, Transition, Targets
<1>1. CASE status = st[w]
  <2> USE <1>0, <1>1, TimesAssumption DEF Transition, row, sched, Ends
  <2>1. TypeOK'
    BY DEF LInv, TypeOK, GlobalStatus
  <2>2. TokenOK'
    BY DEF LInv, TypeOK, TokenOK
  <2>3. RequestOK'
    BY DEF LInv, TypeOK, RequestOK, GlobalStatus
  <2>4. DueOK'
    BY DEF LInv, TypeOK, DueOK, Near
  <2> QED
    BY <2>1, <2>2, <2>3, <2>4 DEF LInv
<1>2. CASE status # st[w]
  <2>1. Timeout > 0 => Near(now + 0)
    BY TimesAssumption DEF LInv, TypeOK, Near
  <2> QED
    BY <1>0, <1>2, <2>1, ReleaseInv DEF Transition
<1> QED
  BY <1>1, <1>2

LEMMA CrashInv ==
  ASSUME NEW w \in Workers
  PROVE  LInv /\ Crash(w) => LInv'
<1> SUFFICES ASSUME LInv, Crash(w) PROVE LInv'
  OBVIOUS
<1> USE DEF Crash, row, sched, Ends
<1>1. TypeOK'
  BY DEF LInv, TypeOK, GlobalStatus
<1>2. TokenOK'
  BY DEF LInv, TypeOK, TokenOK
<1>3. RequestOK'
  BY DEF LInv, TypeOK, RequestOK
<1>4. DueOK'
  BY DEF LInv, TypeOK, DueOK, Near
<1> QED
  BY <1>1, <1>2, <1>3, <1>4 DEF LInv

LEMMA NextLInv == LInv /\ [Next]_vars => LInv'
<1> SUFFICES ASSUME LInv, [Next]_vars PROVE LInv'
  OBVIOUS
<1>1. CASE Tick
  BY <1>1, TickInv
<1>2. CASE Create
  BY <1>2, CreateInv
<1>3. CASE SubmitRead
  BY <1>3, SubmitReadInv
<1>4. CASE Retry \/ AbortWrite \/ AbortSchedule \/ AbortCutShort
  BY <1>4, RequestInv
<1>5. ASSUME NEW w \in Workers \cup {NoWorker}, SubmitWrite(w)
      PROVE  LInv'
  BY <1>5, SubmitWriteInv
<1>6. ASSUME NEW w \in Workers, Lock(w)
      PROVE  LInv'
  BY <1>6, LockInv
<1>7. ASSUME NEW w \in Workers, RetryLater(w)
      PROVE  LInv'
  <2> DEFINE i == NextIntervalWith(iv[w], RetryInitial, RetryMax)
  <2>1. i \in Nat /\ i <= RetryMax
    BY BackOffBound DEF LInv, TypeOK
  <2>2. Near(now + i)
    BY <2>1, TimesAssumption DEF LInv, TypeOK, Near
  <2>3. token[w] # 0 /\ status # "absent" /\ Release(w, i) /\ Ends(w)
        /\ UNCHANGED <<now, row, status, submitting, abort, requested>>
    BY <1>7 DEF RetryLater, LInv, RequestOK
  <2> QED
    BY <2>1, <2>2, <2>3, ReleaseInv
<1>8. ASSUME NEW w \in Workers, NotDue(w)
      PROVE  LInv'
  <2> DEFINE i == Deadline - now
  <2>1. i \in Nat
    BY <1>8, DeadlineBound DEF NotDue, LInv, TypeOK
  <2>2. Timeout > 0 => Near(now + i)
    BY DeadlineBound, TimesAssumption DEF LInv, TypeOK, DueOK, Near
  <2>3. token[w] # 0 /\ status # "absent" /\ Release(w, i) /\ Ends(w)
        /\ UNCHANGED <<now, row, status, submitting, abort, requested>>
    BY <1>8 DEF NotDue, LInv, RequestOK
  <2> QED
    BY <2>1, <2>2, <2>3, ReleaseInv
<1>9. ASSUME NEW w \in Workers, NEW to \in GlobalStatus, Transition(w, to)
      PROVE  LInv'
  BY <1>9, TransitionInv
<1>10. ASSUME NEW w \in Workers, Crash(w)
       PROVE  LInv'
  BY <1>10, CrashInv
<1>11. CASE UNCHANGED vars
  BY <1>11 DEF vars, LInv, TypeOK, TokenOK, RequestOK, DueOK, Near
<1> QED
  BY <1>1, <1>2, <1>3, <1>4, <1>5, <1>6, <1>7, <1>8, <1>9, <1>10, <1>11 DEF Next

THEOREM LeaseInvariant == Spec => []LInv
<1>1. Init => LInv
  BY InitLInv
<1>2. LInv /\ [Next]_vars => LInv'
  BY NextLInv
<1> QED
  BY <1>1, <1>2, PTL DEF Spec

-----------------------------------------------------------------------------
\* Type correctness of the scheduling columns and of the workers' copies.
THEOREM LeaseTypeCorrect == Spec => []TypeOK
<1>1. LInv => TypeOK
  BY DEF LInv
<1> QED
  BY <1>1, LeaseInvariant, PTL

\* At any moment at most one running lease drives a saga or a workflow,
\* whatever the calls of schedule_now (lock_one_due, release_lease).
THEOREM LeaseExclusive == Spec => []Exclusive
<1>1. LInv => Exclusive
  BY DEF LInv, TypeOK, TokenOK, Exclusive
<1> QED
  BY <1>1, LeaseInvariant, PTL

\* A request for immediate processing that finds the lease running, or none,
\* survives the holder's release (release_lease).
THEOREM LeaseRequestKept == Spec => []RequestKept
<1>1. LInv => RequestKept
  BY DEF LInv, RequestOK, RequestKept
<1> QED
  BY <1>1, LeaseInvariant, PTL

\* With a prepared time limit every transaction under way is due again within
\* the longest delay, whoever dies (crash recovery by lease and due time).
THEOREM LeaseDueAgain ==
  ASSUME Timeout > 0
  PROVE  Spec => []DueAgain
<1>1. LInv => DueAgain
  BY DEF LInv, DueOK, Near, DueAgain
<1> QED
  BY <1>1, LeaseInvariant, PTL

\* The release of a saga's or workflow's lease frees the releaser's own lease
\* and no other (release_lease's token comparison).
THEOREM LeaseReleasesOwn == Spec => ReleasesOwn
<1> DEFINE OwnStep == tt = "saga" => \A w \in Workers : Frees(w) => holder = w
<1>1. LInv /\ [Next]_vars => [OwnStep]_vars
  <2> SUFFICES ASSUME LInv, Next, tt = "saga", NEW w \in Workers, Frees(w)
               PROVE  holder = w
    BY DEF vars
  <2> USE DEF Frees
  <2>1. ASSUME NEW v \in Workers, NEW i, Release(v, i), Ends(v)
        PROVE  holder = w
    <3>1. v = w
      BY <2>1 DEF Ends, LInv, TypeOK
    <3> QED
      BY <2>1, <3>1 DEF Release, sched, LInv, TokenOK
  <2>2. CASE \/ Tick \/ Create \/ SubmitRead \/ Retry
             \/ AbortWrite \/ AbortSchedule \/ AbortCutShort
    BY <2>2 DEF Tick, Create, SubmitRead, Retry, AbortWrite, AbortSchedule, AbortCutShort,
                ScheduleNow, sched, mine, Starts, LInv, RequestOK
  <2>3. ASSUME NEW v \in Workers \cup {NoWorker}, SubmitWrite(v)
        PROVE  holder = w
    BY <2>3 DEF SubmitWrite, LInv, TokenOK
  <2>4. ASSUME NEW v \in Workers, Lock(v) \/ RetryLater(v) \/ NotDue(v) \/ Crash(v)
        PROVE  holder = w
    <3>1. CASE Lock(v)
      BY <3>1, TimesAssumption DEF Lock, LInv, TypeOK
    <3>2. CASE RetryLater(v) \/ NotDue(v)
      BY <3>2, <2>1 DEF RetryLater, NotDue
    <3>3. CASE Crash(v)
      BY <3>3 DEF Crash, sched
    <3> QED
      BY <2>4, <3>1, <3>2, <3>3
  <2>5. ASSUME NEW v \in Workers, NEW to \in GlobalStatus, Transition(v, to)
        PROVE  holder = w
    <3>1. CASE status = st[v]
      BY <2>5, <3>1 DEF Transition, sched
    <3>2. CASE status # st[v]
      BY <2>5, <3>2, <2>1 DEF Transition
    <3> QED
      BY <3>1, <3>2
  <2> QED
    BY <2>2, <2>3, <2>4, <2>5 DEF Next
<1> QED
  BY <1>1, LeaseInvariant, PTL DEF Spec, ReleasesOwn

-----------------------------------------------------------------------------
(***************************************************************************)
(* The handle.  At most one worker drives the transaction (its lease), and *)
(* host code runs only for a worker that waits for it, or for one that the *)
(* shutdown has cancelled.                                                 *)
(***************************************************************************)
Active(w) == wk[w].pc \notin {"idle", "gone"}

\* How far the handle's life lets the driver, the server and host code be.
LifeOK ==
  /\ life \notin {"running", "stopping"} => server = "none" /\ driver # "up"
  /\ life \in {"none", "opened", "bricked", "closed"} => \A w \in Loops : thread[w] = NoThread
  /\ kind = "workflow" => reg["go"] # "pull"

\* Where a worker is, and what runs for it.
LoopOK(w) ==
  /\ wk[w].pc = "gone" => wk[w] = Gone
  /\ driver # "up" => wk[w] = Gone
  /\ thread[w].runs = "none" => thread[w] = NoThread
  /\ thread[w].runs # "none" /\ driver = "up" => wk[w].pc = "calling" /\ wk[w].task = 0
  /\ thread[w].runs # "none" /\ host = "native" => driver = "up"
  /\ thread[w].runs = "function" => kind = "workflow"
  /\ thread[w].runs = "function" /\ wk[w].pc = "calling" => wk[w].name = "go"
  /\ thread[w].runs = "handler" /\ wk[w].pc = "calling" => ~(kind = "workflow" /\ wk[w].name = "go")
  /\ wk[w].pc # "calling" => wk[w].task = 0
  /\ wk[w].task # 0 => ~(kind = "workflow" /\ wk[w].name = "go")
  /\ wk[w].name = "query" => kind = "msg"
  /\ wk[w].pc \in {"calling", "settle"} => wk[w].name # "none"

\* A queued task is queued once; what the host is given has a name.
TasksOK ==
  /\ \A i \in 1 .. MaxTasks : task[i].at # "none" => task[i].name # "none"
  /\ \A j \in 1 .. Len(queue) : task[queue[j]].at = "queue"
  /\ \A j, k \in 1 .. Len(queue) : queue[j] = queue[k] => j = k

\* While somebody drives, or host code runs, the transaction is not over.
DriveOK(w) ==
  /\ Active(w) \/ thread[w].runs # "none" => global \in {"prepared", "submitted", "aborting"}
  /\ Active(w) => wk[w].st # "none" /\ (wk[w].st = "aborting" => global = "aborting")
  /\ kind \in {"tcc", "xa"} /\ wk[w].pc \in {"calling", "settle"} => branch["go"] # "none"

Exclusion == \A v, w \in Loops : Active(v) /\ Active(w) => v = w

RowsOK ==
  /\ kind \in {"saga", "msg"} /\ global # "absent" => branch["go"] # "none" /\ branch["undo"] # "none"
  /\ kind \in {"tcc", "xa"} => (branch["go"] = "none" <=> branch["undo"] = "none")
  /\ global = "absent" => branch["go"] = "none" /\ branch["undo"] = "none"

-----------------------------------------------------------------------------
(***************************************************************************)
(* What the host has said, wherever it has got to: in the rows, with a     *)
(* worker that has an answer, with a function that has opened its branch,  *)
(* with a worker about to change the status.                               *)
(***************************************************************************)
Yes == {<<"go", "success">>, <<"go", "refused">>} \cap said # {}
No == \E n \in {"go", "query", "function"} : <<n, "failure">> \in said
Undone ==
  \/ branch["undo"] = "none" \/ kind = "msg"
  \/ <<"undo", "success">> \in said
  \/ kind = "saga" /\ <<"undo", "failure">> \in said

SaidInRows ==
  \A n \in {"go", "undo"} : /\ branch[n] = "succeed" => <<n, "success">> \in said
                            /\ branch[n] = "failed" => <<n, "failure">> \in said

SaidToLoop(w) ==
  wk[w].pc = "settle" =>
    IF kind = "workflow" /\ wk[w].name = "go"
    THEN /\ wk[w].r = "success" => Yes
         /\ wk[w].r = "failure" => No
    ELSE /\ wk[w].r = "success" => <<wk[w].name, "success">> \in said
         /\ wk[w].r = "failure" => <<wk[w].name, "failure">> \in said

SaidByFunction(w) ==
  /\ thread[w].opened /\ thread[w].err = "none" => Yes
  /\ thread[w].err = "failure" => <<"go", "failure">> \in said

SaidBeforeFinish(w) ==
  wk[w].pc = "finish" =>
    /\ wk[w].to \in {"submitted", "aborting", "succeed", "failed"}
    /\ wk[w].to = "succeed" => Yes \/ kind \in {"tcc", "xa"}
    /\ wk[w].to = "aborting" => No
    /\ wk[w].to = "failed" => wk[w].st = "aborting" \/ (kind = "msg" /\ No)
    /\ wk[w].to = "failed" => Undone

SaidInStatus ==
  /\ global = "succeed" => Yes \/ kind \in {"tcc", "xa"}
  /\ global \in {"aborting", "failed"} => aborted \/ No
  /\ global = "failed" => Undone

LoopInv(w) ==
  /\ LoopOK(w) /\ DriveOK(w)
  /\ SaidToLoop(w) /\ SaidByFunction(w) /\ SaidBeforeFinish(w)

DbInv == RowsOK /\ SaidInRows /\ SaidInStatus

RuntimeInv ==
  /\ RuntimeTypeOK /\ LifeOK /\ TasksOK /\ Exclusion /\ DbInv
  /\ \A w \in Loops : LoopInv(w)

-----------------------------------------------------------------------------
(***************************************************************************)
(* What is decided about a transaction with one branch.                    *)
(***************************************************************************)
LEMMA OneSaga ==
  ASSUME NEW x \in BranchStatus
  PROVE  /\ \/ SagaForward(<<x>>) = Finish("succeed") /\ x = "succeed"
            \/ SagaForward(<<x>>) = Finish("aborting") /\ x = "failed"
            \/ \E i : SagaForward(<<x>>) = Call("action", i)
         /\ \/ SagaBackward(<<x>>) = Finish("failed") /\ x # "prepared"
            \/ \E i : SagaBackward(<<x>>) = Call("compensate", i)
<1> DEFINE a == <<x>>
<1>1. 1 \in Nat /\ a \in [1 .. 1 -> BranchStatus] /\ \A i \in 1 .. 1 : a[i] = x
  OBVIOUS
<1>2. 1 \in 1 .. 1
  OBVIOUS
<1> HIDE DEF a
<1>3. \/ SagaForward(a) = Finish("succeed") /\ \A i \in 1 .. 1 : a[i] = "succeed"
      \/ SagaForward(a) = Finish("aborting") /\ \E i \in 1 .. 1 : a[i] = "failed"
      \/ \E i \in 1 .. 1 : SagaForward(a) = Call("action", i)
  BY <1>1, SagaForwardCases
<1>4. \/ SagaBackward(a) = Finish("failed") /\ \A i \in 1 .. 1 : a[i] # "prepared"
      \/ \E i \in 1 .. 1 : SagaBackward(a) = Call("compensate", i)
  BY <1>1, SagaBackwardCases
<1>5. /\ \/ SagaForward(a) = Finish("succeed") /\ x = "succeed"
         \/ SagaForward(a) = Finish("aborting") /\ x = "failed"
         \/ \E i : SagaForward(a) = Call("action", i)
      /\ \/ SagaBackward(a) = Finish("failed") /\ x # "prepared"
         \/ \E i : SagaBackward(a) = Call("compensate", i)
  BY <1>1, <1>2, <1>3, <1>4
<1> QED BY <1>5 DEF a

LEMMA OneTwoPhase ==
  ASSUME NEW x \in BranchStatus, NEW y \in BranchStatus, NEW goOp, NEW undoOp,
         NEW sts \in {"submitted", "aborting"}
  PROVE  LET d == TwoPhaseAdvance(sts, <<x>>, <<y>>, goOp, undoOp) IN
         \/ d = Finish("succeed")
         \/ sts = "aborting" /\ d = Finish("failed") /\ y = "succeed"
         \/ \E op, i : d = Call(op, i)
<1>1. PICK n \in Nat : n = 1
  OBVIOUS
<1> DEFINE a == [i \in 1 .. n |-> x]
           b == [i \in 1 .. n |-> y]
<1>2. a = <<x>> /\ b = <<y>> /\ 1 \in 1 .. n /\ b[1] = y
  BY <1>1
<1>3. a \in [1 .. n -> BranchStatus] /\ b \in [1 .. n -> BranchStatus]
  OBVIOUS
<1> HIDE DEF a, b
<1>4. LET d == TwoPhaseAdvance(sts, a, b, goOp, undoOp) IN
      \/ /\ sts = "submitted" /\ d = Finish("succeed")
         /\ \A i \in 1 .. n : a[i] = "succeed"
      \/ sts = "submitted" /\ \E i \in 1 .. n : d = Call(goOp, i)
      \/ /\ sts = "aborting" /\ d = Finish("failed")
         /\ \A i \in 1 .. n : b[i] = "succeed"
      \/ sts = "aborting" /\ \E i \in 1 .. n : d = Call(undoOp, i)
  BY <1>3, TwoPhaseAdvanceCases
<1> DEFINE d == TwoPhaseAdvance(sts, a, b, goOp, undoOp)
<1>5. \/ d = Finish("succeed")
      \/ sts = "aborting" /\ d = Finish("failed") /\ y = "succeed"
      \/ \E op, i : d = Call(op, i)
  <2> HIDE DEF d
  <2> QED BY <1>2, <1>4 DEF d
<1> QED BY <1>2, <1>5

LEMMA OneWorkflow ==
  ASSUME NEW x, NEW sts \in {"submitted", "aborting"}
  PROVE  LET d == WorkflowAdvance(sts, <<x>>) IN
         \/ d = RunWorkflow
         \/ sts = "aborting" /\ d = Finish("failed") /\ x = "succeed"
         \/ \E i : d = Call("compensate", i)
<1> DEFINE a == <<x>>
           d == WorkflowAdvance(sts, a)
<1>1. 1 \in Nat /\ DOMAIN a = 1 .. 1 /\ \A i \in 1 .. 1 : a[i] = x
  OBVIOUS
<1>2. 1 \in 1 .. 1
  OBVIOUS
<1> HIDE DEF a
<1>3. \/ sts = "submitted" /\ d = RunWorkflow
      \/ sts = "aborting" /\ d = Finish("failed") /\ \A i \in 1 .. 1 : a[i] = "succeed"
      \/ /\ sts = "aborting"
         /\ \E i \in 1 .. 1 : d = Call("compensate", i) /\ a[i] # "succeed"
  BY <1>1, WorkflowAdvanceCases
<1> HIDE DEF d
<1>4. \/ d = RunWorkflow
      \/ sts = "aborting" /\ d = Finish("failed") /\ x = "succeed"
      \/ \E i : d = Call("compensate", i)
  BY <1>1, <1>2, <1>3
<1> QED BY <1>4 DEF d, a

LEMMA OneFanout ==
  ASSUME NEW done, NEW sts \in {"submitted", "aborting"}
  PROVE  LET d == MsgFanoutAdvance(sts, {<<1, "go">>}, done) IN
         \/ d = [each |-> {}, to |-> "succeed"] /\ <<1, "go">> \in done
         \/ d.each # {}
         \/ sts = "aborting" /\ d = [each |-> {}, to |-> "failed"]
<1> DEFINE all == {<<1, "go">>}
           d == MsgFanoutAdvance(sts, all, done)
<1>1. (\A b \in all : b[1] \in Nat) /\ <<1, "go">> \in all
  OBVIOUS
<1> HIDE DEF all
<1>2. \/ /\ sts = "submitted" /\ d = [each |-> {}, to |-> "succeed"]
         /\ all \subseteq done
      \/ /\ sts = "submitted" /\ d.each # {} /\ d.each \subseteq all
         /\ \A b \in all \ done, c \in d.each : ~(b[1] < c[1])
      \/ sts = "aborting" /\ d = [each |-> {}, to |-> "failed"]
  BY <1>1, MsgFanoutAdvanceCases
<1> HIDE DEF d
<1>3. \/ d = [each |-> {}, to |-> "succeed"] /\ <<1, "go">> \in done
      \/ d.each # {}
      \/ sts = "aborting" /\ d = [each |-> {}, to |-> "failed"]
  BY <1>1, <1>2
<1> QED BY <1>3 DEF d, all

\* The end is reached, or the transaction turned round, only by what the rows say.
LEMMA AdvanceCases ==
  ASSUME RuntimeTypeOK, RowsOK, global # "absent", NEW sts \in {"submitted", "aborting"}
  PROVE  \/ Advance(sts).kind \in {"call", "run"}
         \/ /\ Advance(sts).kind = "finish" /\ Advance(sts).to = "succeed"
            /\ kind \in {"tcc", "xa"} \/ branch["go"] = "succeed"
         \/ /\ Advance(sts).kind = "finish" /\ Advance(sts).to = "aborting"
            /\ branch["go"] = "failed"
         \/ /\ Advance(sts).kind = "finish" /\ Advance(sts).to = "failed" /\ sts = "aborting"
            /\ \/ kind = "msg" \/ branch["undo"] \in {"none", "succeed"}
               \/ kind = "saga" /\ branch["undo"] = "failed"
<1>1. /\ branch["go"] \in BranchStatus \cup {"none"}
      /\ branch["undo"] \in BranchStatus \cup {"none"}
      /\ kind \in TransType
  BY RuntimeAssumption DEF RuntimeTypeOK
<1>2. \A s : Finish(s).kind = "finish" /\ Finish(s).to = s
  BY DEF Finish
<1>3. \A op, i : Call(op, i).kind = "call"
  BY DEF Call
<1>4. CASE kind = "saga"
  <2>1. Advance(sts) = SagaAdvance(sts, <<branch["go"]>>, <<branch["undo"]>>)
    BY <1>4 DEF Advance
  <2>2. branch["go"] \in BranchStatus /\ branch["undo"] \in BranchStatus
    BY <1>1, <1>4 DEF RowsOK
  <2>3. CASE sts = "submitted"
    <3>1. Advance(sts) = SagaForward(<<branch["go"]>>)
      BY <2>1, <2>3 DEF SagaAdvance
    <3>2. \/ Advance(sts) = Finish("succeed") /\ branch["go"] = "succeed"
          \/ Advance(sts) = Finish("aborting") /\ branch["go"] = "failed"
          \/ \E i : Advance(sts) = Call("action", i)
      BY <2>2, <3>1, OneSaga
    <3> QED BY <1>2, <1>3, <3>2
  <2>4. CASE sts = "aborting"
    <3>1. Advance(sts) = SagaBackward(<<branch["undo"]>>)
      BY <2>1, <2>4 DEF SagaAdvance
    <3>2. \/ Advance(sts) = Finish("failed") /\ branch["undo"] # "prepared"
          \/ \E i : Advance(sts) = Call("compensate", i)
      BY <2>2, <3>1, OneSaga
    <3> QED BY <1>2, <1>3, <1>4, <2>2, <2>4, <3>2 DEF BranchStatus
  <2> QED BY <2>3, <2>4
<1>5. CASE kind = "workflow"
  <2> DEFINE u == IF branch["undo"] = "none" THEN "succeed" ELSE branch["undo"]
  <2>1. Advance(sts) = WorkflowAdvance(sts, <<u>>)
    BY <1>5 DEF Advance
  <2>2. \/ Advance(sts) = RunWorkflow
        \/ sts = "aborting" /\ Advance(sts) = Finish("failed") /\ u = "succeed"
        \/ \E i : Advance(sts) = Call("compensate", i)
    <3> HIDE DEF u
    <3> QED BY <2>1, OneWorkflow
  <2>3. RunWorkflow.kind = "run"
    BY DEF RunWorkflow
  <2> QED BY <1>2, <1>3, <2>2, <2>3
<1>6. CASE kind = "msg"
  <2> DEFINE done == IF branch["go"] = "succeed" THEN {<<1, "go">>} ELSE {}
             f == MsgFanoutAdvance(sts, {<<1, "go">>}, done)
  <2>1. Advance(sts) = IF f.each # {} THEN Call("action", 1) ELSE Finish(f.to)
    BY <1>6 DEF Advance
  <2>2. \/ f = [each |-> {}, to |-> "succeed"] /\ <<1, "go">> \in done
        \/ f.each # {}
        \/ sts = "aborting" /\ f = [each |-> {}, to |-> "failed"]
    <3> HIDE DEF done
    <3> QED BY OneFanout
  <2>3. <<1, "go">> \in done => branch["go"] = "succeed"
    OBVIOUS
  <2> HIDE DEF f, done
  <2>4. \/ Advance(sts) = Finish("succeed") /\ branch["go"] = "succeed"
        \/ Advance(sts) = Call("action", 1)
        \/ sts = "aborting" /\ Advance(sts) = Finish("failed")
    BY <2>1, <2>2, <2>3
  <2> QED BY <1>2, <1>3, <1>6, <2>4
<1>7. CASE kind \in {"tcc", "xa"} /\ branch["go"] = "none"
  <2>1. Advance(sts) = Finish(IF sts = "aborting" THEN "failed" ELSE "succeed")
    BY <1>7 DEF Advance
  <2>2. branch["undo"] = "none"
    BY <1>7 DEF RowsOK
  <2> QED BY <1>2, <1>7, <2>1, <2>2
<1>8. CASE kind \in {"tcc", "xa"} /\ branch["go"] # "none"
  <2>1. PICK goOp, undoOp :
          Advance(sts) = TwoPhaseAdvance(sts, <<branch["go"]>>, <<branch["undo"]>>, goOp, undoOp)
    <3>1. CASE kind = "tcc"
      BY <1>8, <3>1 DEF Advance, TccAdvance
    <3>2. CASE kind = "xa"
      BY <1>8, <3>2 DEF Advance, XaAdvance
    <3> QED BY <1>8, <3>1, <3>2
  <2>2. branch["go"] \in BranchStatus /\ branch["undo"] \in BranchStatus
    BY <1>1, <1>8 DEF RowsOK
  <2>3. \/ Advance(sts) = Finish("succeed")
        \/ sts = "aborting" /\ Advance(sts) = Finish("failed") /\ branch["undo"] = "succeed"
        \/ \E op, i : Advance(sts) = Call(op, i)
    BY <2>1, <2>2, OneTwoPhase
  <2> QED BY <1>2, <1>3, <1>8, <2>3
<1> QED BY <1>1, <1>4, <1>5, <1>6, <1>7, <1>8 DEF TransType
-----------------------------------------------------------------------------
(***************************************************************************)
(* The workers that a step leaves alone.                                   *)
(***************************************************************************)
LoopType ==
  [pc : {"gone", "idle", "process", "calling", "settle", "finish"},
   st : {"none", "prepared", "submitted", "aborting"},
   name : Name \cup {"none"}, task : 0 .. MaxTasks,
   r : Result \cup {"none"}, to : GlobalStatus \cup {"none"}]
ThreadType ==
  [runs : {"none", "handler", "function"}, opened : BOOLEAN,
   err : {"none", "failure", "unknown"}]
TaskType == [name : Name \cup {"none"}, at : {"none", "queue", "host"}]
SaidType == (Name \cup {"function"}) \X {"success", "failure", "refused"}

LEMMA Records ==
  /\ Idle \in LoopType /\ Gone \in LoopType /\ NoThread \in ThreadType /\ NoTask \in TaskType
  /\ Idle.pc = "idle" /\ Idle.st = "none" /\ Idle.name = "none" /\ Idle.task = 0
  /\ Idle.r = "none" /\ Idle.to = "none"
  /\ Gone.pc = "gone" /\ Gone.st = "none" /\ Gone.name = "none" /\ Gone.task = 0
  /\ Gone.r = "none" /\ Gone.to = "none"
  /\ NoThread.runs = "none" /\ NoThread.opened = FALSE /\ NoThread.err = "none"
  /\ NoTask.name = "none" /\ NoTask.at = "none"
<1>1. 0 \in 0 .. MaxTasks
  BY RuntimeAssumption
<1>2. Idle \in LoopType /\ Gone \in LoopType
  BY <1>1 DEF Idle, Gone, LoopType
<1>3. NoThread \in ThreadType /\ NoTask \in TaskType
  BY DEF NoThread, ThreadType, NoTask, TaskType
<1> QED BY <1>2, <1>3 DEF Idle, Gone, NoThread, NoTask

LEMMA Typed ==
  ASSUME RuntimeTypeOK
  PROVE  /\ wk \in [Loops -> LoopType] /\ thread \in [Loops -> ThreadType]
         /\ task \in [1 .. MaxTasks -> TaskType] /\ queue \in Seq(1 .. MaxTasks)
         /\ said \subseteq SaidType
         /\ global \in GlobalStatus \cup {"absent"}
         /\ branch \in [{"go", "undo"} -> BranchStatus \cup {"none"}]
         /\ aborted \in BOOLEAN
BY DEF RuntimeTypeOK, LoopType, ThreadType, TaskType, SaidType

\* Whoever has the lease is alone, and so is host code that is still waited for.
LEMMA Alone ==
  ASSUME RuntimeInv, NEW w \in Loops, NEW v \in Loops \ {w}
  PROVE  /\ Active(w) => ~Active(v) /\ thread[v].runs = "none"
         /\ thread[w].runs # "none" => ~Active(v)
<1>1. LoopOK(w) /\ LoopOK(v) /\ Exclusion
  BY DEF RuntimeInv, LoopInv
<1>2. Gone.pc = "gone"
  BY Records
<1>3. Active(w) => driver = "up"
  BY <1>1, <1>2 DEF LoopOK, Active
<1>4. Active(w) => ~Active(v)
  BY <1>1 DEF Exclusion
<1>5. driver = "up" /\ thread[v].runs # "none" => Active(v)
  BY <1>1 DEF LoopOK, Active
<1>6. thread[w].runs # "none" /\ Active(v) => Active(w)
  BY <1>1, <1>2 DEF LoopOK, Active
<1> QED BY <1>3, <1>4, <1>5, <1>6

\* Nothing moves for v, or only what v is not looking at.
LEMMA Kept ==
  ASSUME RuntimeInv, NEW v \in Loops, UNCHANGED <<kind, host>>,
         wk'[v] = wk[v], thread'[v] = thread[v], said \subseteq said',
         driver' = "up" <=> driver = "up",
         \/ global' = global
         \/ ~Active(v) /\ thread[v].runs = "none"
         \/ global \in {"prepared", "submitted"} /\ global' \in {"submitted", "aborting"},
         \/ branch' = branch \/ ~Active(v)
         \/ kind # "msg" /\ global # "aborting" /\ branch'["go"] # "none"
  PROVE  LoopInv(v)'
<1>1. LoopOK(v) /\ DriveOK(v) /\ SaidToLoop(v) /\ SaidByFunction(v) /\ SaidBeforeFinish(v)
  BY DEF RuntimeInv, LoopInv
<1>2. LoopOK(v)'
  BY <1>1 DEF LoopOK
<1>3. Active(v)' <=> Active(v)
  BY DEF Active
<1>4. DriveOK(v)'
  BY <1>1, <1>3 DEF DriveOK, Active
<1>5. (Yes => Yes') /\ (No => No')
  BY DEF Yes, No
<1>6. SaidToLoop(v)'
  BY <1>1, <1>5 DEF SaidToLoop
<1>7. SaidByFunction(v)'
  BY <1>1, <1>5 DEF SaidByFunction
<1>8. SaidBeforeFinish(v)'
  <2>1. CASE branch' = branch
    <3>1. Undone => Undone'
      BY <2>1 DEF Undone
    <3> QED BY <1>1, <1>5, <3>1 DEF SaidBeforeFinish
  <2>2. CASE ~Active(v)
    BY <2>2 DEF Active, SaidBeforeFinish
  <2>3. CASE Active(v) /\ kind # "msg" /\ global # "aborting"
    <3>1. wk[v].pc = "finish" => wk[v].to # "failed"
      BY <1>1, <2>3 DEF SaidBeforeFinish, DriveOK
    <3> QED BY <1>1, <1>5, <3>1 DEF SaidBeforeFinish
  <2> QED BY <2>1, <2>2, <2>3
<1> QED BY <1>2, <1>4, <1>6, <1>7, <1>8 DEF LoopInv

\* Worker w moves, by itself or by what its host code does.
LEMMA LoopMoves ==
  ASSUME RuntimeInv, NEW w \in Loops, UNCHANGED <<kind, host, handle>>,
         wk' \in [Loops -> LoopType], thread' \in [Loops -> ThreadType],
         task' \in [1 .. MaxTasks -> TaskType], queue' \in Seq(1 .. MaxTasks),
         said \subseteq said', said' \subseteq SaidType, aborted' \in BOOLEAN,
         global' \in GlobalStatus \cup {"absent"},
         branch' \in [{"go", "undo"} -> BranchStatus \cup {"none"}],
         wk'[w].task # 0 => task'[wk'[w].task].name = wk'[w].name,
         \A v \in Loops \ {w} : wk'[v] = wk[v] /\ thread'[v] = thread[v],
         task' = task \/ Active(w), global' = global \/ Active(w),
         branch' = branch \/ Active(w) \/ thread[w].runs # "none",
         thread'[w] = thread[w] \/ Active(w) \/ thread[w].runs # "none",
         Active(w)' => Active(w) \/ \A v \in Loops : ~Active(v),
         TasksOK', DbInv', LoopInv(w)'
  PROVE  RuntimeInv'
<1>1. \A v \in Loops : LoopOK(v) /\ DriveOK(v)
  BY DEF RuntimeInv, LoopInv
<1>2. \A v \in Loops \ {w} : (Active(w) => ~Active(v) /\ thread[v].runs = "none")
                             /\ (thread[w].runs # "none" => ~Active(v))
  BY Alone
<1>3. \A v \in Loops : LoopInv(v)'
  <2>1. SUFFICES ASSUME NEW v \in Loops \ {w} PROVE LoopInv(v)'
    OBVIOUS
  <2>2. driver' = "up" <=> driver = "up"
    BY DEF handle
  <2>3. /\ wk'[v] = wk[v] /\ thread'[v] = thread[v]
        /\ global' = global \/ (~Active(v) /\ thread[v].runs = "none")
        /\ branch' = branch \/ ~Active(v)
    BY <1>2
  <2> QED BY <2>2, <2>3, Kept
<1>4. Exclusion'
  <2>1. \A v \in Loops \ {w} : Active(v)' <=> Active(v)
    BY DEF Active
  <2>2. \A v \in Loops \ {w} : Active(v) /\ Active(w)' => FALSE
    BY <1>2
  <2>3. Exclusion
    BY DEF RuntimeInv
  <2> QED BY <2>1, <2>2, <2>3 DEF Exclusion
<1>5. LifeOK'
  <2>1. LifeOK
    BY DEF RuntimeInv
  <2>2. life \in {"none", "opened", "bricked", "closed"} => driver # "up"
    BY <2>1 DEF LifeOK
  <2>3. life \in {"none", "opened", "bricked", "closed"} => ~Active(w) /\ thread[w].runs = "none"
    BY <1>1, <2>1, <2>2, Records DEF LifeOK, LoopOK, Active
  <2>4. life \in {"none", "opened", "bricked", "closed"} => \A v \in Loops : thread'[v] = thread[v]
    BY <2>3
  <2>5. /\ life' = life /\ server' = server /\ driver' = driver /\ reg' = reg
    BY DEF handle
  <2> QED BY <2>1, <2>4, <2>5 DEF LifeOK
<1>6. RuntimeTypeOK'
  <2>1. RuntimeTypeOK
    BY DEF RuntimeInv
  <2>2. \A v \in Loops : wk[v].task # 0 => Active(v)
    BY <1>1 DEF LoopOK, Active
  <2>3. \A v \in Loops \ {w} : wk[v].task # 0 => task' = task
    BY <1>2, <2>2
  <2>4. \A v \in Loops : wk'[v].task # 0 => task'[wk'[v].task].name = wk'[v].name
    BY <2>1, <2>3 DEF RuntimeTypeOK
  <2>5. /\ life' = life /\ inc' = inc /\ server' = server /\ driver' = driver /\ reg' = reg
    BY DEF handle
  <2> QED BY <2>1, <2>4, <2>5 DEF RuntimeTypeOK, LoopType, ThreadType, TaskType, SaidType
<1> QED BY <1>3, <1>4, <1>5, <1>6 DEF RuntimeInv

LEMMA DbKept ==
  ASSUME DbInv, UNCHANGED <<kind, db>>, said \subseteq said', aborted => aborted'
  PROVE  DbInv'
<1>1. global' = global /\ branch' = branch
  BY DEF db
<1>2. (Yes => Yes') /\ (No => No')
  BY DEF Yes, No
<1>3. Undone => Undone'
  BY <1>1 DEF Undone
<1>4. RowsOK'
  BY <1>1 DEF DbInv, RowsOK
<1>5. SaidInRows'
  BY <1>1 DEF DbInv, SaidInRows
<1>6. SaidInStatus'
  BY <1>1, <1>2, <1>3 DEF DbInv, SaidInStatus
<1> QED BY <1>4, <1>5, <1>6 DEF DbInv

\* What a worker knows while nothing is said.
LEMMA KeptSaid ==
  ASSUME said \subseteq said'
  PROVE  (Yes => Yes') /\ (No => No')
BY DEF Yes, No

LEMMA TasksKept ==
  ASSUME RuntimeInv, UNCHANGED <<task, queue>>
  PROVE  TasksOK'
BY DEF RuntimeInv, TasksOK

\* The head of the queue is taken off it.
LEMMA TasksTaken ==
  ASSUME RuntimeInv, queue # <<>>, NEW t \in TaskType, t.at # "none" => t.name # "none",
         queue' = Tail(queue), task' = [task EXCEPT ![Head(queue)] = t]
  PROVE  /\ TasksOK' /\ task' \in [1 .. MaxTasks -> TaskType]
         /\ queue' \in Seq(1 .. MaxTasks) /\ Head(queue) \in 1 .. MaxTasks
<1>1. TasksOK /\ task \in [1 .. MaxTasks -> TaskType] /\ queue \in Seq(1 .. MaxTasks)
  BY Typed DEF RuntimeInv
<1>2. /\ Tail(queue) \in Seq(1 .. MaxTasks) /\ Head(queue) = queue[1]
      /\ Len(queue) \in Nat /\ Len(queue) # 0 /\ Len(Tail(queue)) = Len(queue) - 1
      /\ \A j \in 1 .. Len(Tail(queue)) : Tail(queue)[j] = queue[j + 1]
      /\ \A j \in 1 .. Len(queue) : queue[j] \in 1 .. MaxTasks
  <2>1. Len(queue) \in Nat /\ queue \in [1 .. Len(queue) -> 1 .. MaxTasks]
    BY <1>1, LenProperties
  <2>2. /\ Tail(queue) \in Seq(1 .. MaxTasks) /\ Len(Tail(queue)) = Len(queue) - 1
        /\ \A j \in 1 .. Len(Tail(queue)) : Tail(queue)[j] = queue[j + 1]
    BY <1>1, HeadTailProperties
  <2>3. Len(queue) # 0 /\ Head(queue) = queue[1]
    BY <1>1, EmptySeq
  <2> QED BY <2>1, <2>2, <2>3
<1> DEFINE q == Tail(queue)
<1>3. /\ 1 \in 1 .. Len(queue)
      /\ \A j \in 1 .. Len(q) : j + 1 \in 1 .. Len(queue) /\ j + 1 # 1 /\ q[j] = queue[j + 1]
  BY <1>2
<1> HIDE DEF q
<1>4. \A j \in 1 .. Len(q) : q[j] # queue[1] /\ q[j] \in 1 .. MaxTasks
  BY <1>1, <1>2, <1>3 DEF TasksOK
<1>5. \A j \in 1 .. Len(q) : task'[q[j]].at = "queue"
  BY <1>1, <1>2, <1>3, <1>4 DEF TasksOK
<1>6. \A j, k \in 1 .. Len(q) : q[j] = q[k] => j = k
  <2>1. SUFFICES ASSUME NEW j \in 1 .. Len(q), NEW k \in 1 .. Len(q), q[j] = q[k]
                 PROVE  j = k
    OBVIOUS
  <2>2. j + 1 = k + 1
    BY <1>1, <1>3, <2>1 DEF TasksOK
  <2> QED BY <2>2
<1>7. \A i \in 1 .. MaxTasks : task'[i].at # "none" => task'[i].name # "none"
  BY <1>1 DEF TasksOK
<1>8. TasksOK'
  BY <1>5, <1>6, <1>7 DEF TasksOK, q
<1> QED BY <1>1, <1>2, <1>8

\* A free id is put at the end of the queue.
LEMMA TasksPut ==
  ASSUME RuntimeInv, NEW i \in 1 .. MaxTasks, task[i] = NoTask, NEW n \in Name,
         queue' = Append(queue, i),
         task' = [task EXCEPT ![i] = [name |-> n, at |-> "queue"]]
  PROVE  /\ TasksOK' /\ task' \in [1 .. MaxTasks -> TaskType]
         /\ queue' \in Seq(1 .. MaxTasks) /\ task'[i].name = n
<1>1. TasksOK /\ task \in [1 .. MaxTasks -> TaskType] /\ queue \in Seq(1 .. MaxTasks)
  BY Typed DEF RuntimeInv
<1> DEFINE t == [name |-> n, at |-> "queue"]
           q == Append(queue, i)
<1>2. t \in TaskType /\ t.name = n /\ n # "none" /\ t.at = "queue"
  BY DEF TaskType, Name
<1>3. /\ q \in Seq(1 .. MaxTasks) /\ Len(queue) \in Nat /\ Len(q) = Len(queue) + 1
      /\ q[Len(queue) + 1] = i /\ \A j \in 1 .. Len(queue) : q[j] = queue[j] /\ queue[j] \in 1 .. MaxTasks
  <2>1. Len(queue) \in Nat /\ queue \in [1 .. Len(queue) -> 1 .. MaxTasks]
    BY <1>1, LenProperties
  <2>2. /\ q \in Seq(1 .. MaxTasks) /\ Len(q) = Len(queue) + 1
        /\ \A j \in 1 .. Len(queue) : q[j] = queue[j]
        /\ q[Len(queue) + 1] = i
    BY <1>1, AppendProperties
  <2> QED BY <2>1, <2>2
<1> HIDE DEF t, q
<1>4. task' = [task EXCEPT ![i] = t] /\ queue' = q
  BY DEF t, q
<1>5. \A j \in 1 .. Len(queue) : queue[j] # i
  BY <1>1, Records DEF TasksOK
<1>6. \A j \in 1 .. Len(q) : j \in 1 .. Len(queue) \/ j = Len(queue) + 1
  BY <1>3
<1>7. \A j \in 1 .. Len(q) : task'[q[j]].at = "queue"
  <2>1. \A j \in 1 .. Len(queue) : task'[queue[j]].at = "queue"
    BY <1>1, <1>3, <1>4, <1>5 DEF TasksOK
  <2>2. task'[i].at = "queue"
    BY <1>1, <1>2, <1>4
  <2> QED BY <1>3, <1>6, <2>1, <2>2
<1>8. \A j, k \in 1 .. Len(q) : q[j] = q[k] => j = k
  BY <1>1, <1>3, <1>5, <1>6 DEF TasksOK
<1>9. \A j \in 1 .. MaxTasks : task'[j].at # "none" => task'[j].name # "none"
  BY <1>1, <1>2, <1>4 DEF TasksOK
<1>10. TasksOK'
  BY <1>4, <1>7, <1>8, <1>9 DEF TasksOK
<1> QED BY <1>1, <1>2, <1>3, <1>4, <1>10

\* The host answers a task: its id is free again.
LEMMA TasksAnswered ==
  ASSUME RuntimeInv, NEW i \in 1 .. MaxTasks, task[i].at = "host",
         queue' = queue, task' = [task EXCEPT ![i] = NoTask]
  PROVE  /\ TasksOK' /\ task' \in [1 .. MaxTasks -> TaskType]
         /\ queue' \in Seq(1 .. MaxTasks)
<1>1. TasksOK /\ task \in [1 .. MaxTasks -> TaskType] /\ queue \in Seq(1 .. MaxTasks)
  BY Typed DEF RuntimeInv
<1>2. \A j \in 1 .. Len(queue) : queue[j] # i /\ queue[j] \in 1 .. MaxTasks
  <2>1. \A j \in 1 .. Len(queue) : queue[j] \in 1 .. MaxTasks
    BY <1>1, ElementOfSeq
  <2>2. \A j \in 1 .. Len(queue) : task[queue[j]].at = "queue"
    BY <1>1 DEF TasksOK
  <2> QED BY <2>1, <2>2
<1>3. \A j \in 1 .. Len(queue) : task'[queue[j]] = task[queue[j]]
  BY <1>1, <1>2
<1>4. \A j \in 1 .. MaxTasks : task'[j] = NoTask \/ task'[j] = task[j]
  BY <1>1
<1>5. TasksOK'
  BY <1>1, <1>3, <1>4, Records DEF TasksOK
<1> QED BY <1>1, <1>5, Records

-----------------------------------------------------------------------------
(***************************************************************************)
(* The steps of a worker.                                                  *)
(***************************************************************************)

\* Worker w and its host code go from where they are to x and y; the store, and
\* what was said, stay.
LEMMA LoopGoes ==
  ASSUME RuntimeInv, NEW w \in Loops, NEW x \in LoopType, NEW y \in ThreadType,
         wk' = [wk EXCEPT ![w] = x], thread' = [thread EXCEPT ![w] = y],
         UNCHANGED <<kind, host, handle, db, history>>,
         task' \in [1 .. MaxTasks -> TaskType], queue' \in Seq(1 .. MaxTasks),
         x.task # 0 => task'[x.task].name = x.name,
         TasksOK', task' = task \/ Active(w), y = thread[w] \/ Active(w) \/ thread[w].runs # "none",
         x.pc \notin {"idle", "gone"} => Active(w) \/ \A v \in Loops : ~Active(v),
         LoopInv(w)'
  PROVE  RuntimeInv'
<1>1. RuntimeTypeOK /\ DbInv
  BY DEF RuntimeInv
<1>2. /\ wk \in [Loops -> LoopType] /\ thread \in [Loops -> ThreadType]
      /\ said \subseteq SaidType /\ aborted \in BOOLEAN
      /\ global \in GlobalStatus \cup {"absent"}
      /\ branch \in [{"go", "undo"} -> BranchStatus \cup {"none"}]
  BY <1>1, Typed
<1>3. wk' \in [Loops -> LoopType] /\ wk'[w] = x /\ \A v \in Loops \ {w} : wk'[v] = wk[v]
  BY <1>2
<1>4. thread' \in [Loops -> ThreadType] /\ thread'[w] = y
      /\ \A v \in Loops \ {w} : thread'[v] = thread[v]
  BY <1>2
<1>5. said' = said /\ aborted' = aborted /\ global' = global /\ branch' = branch
  BY DEF history, db
<1>6. DbInv'
  BY <1>1, <1>5, DbKept
<1>7. Active(w)' => Active(w) \/ \A v \in Loops : ~Active(v)
  BY <1>3 DEF Active
<1> QED BY <1>2, <1>3, <1>4, <1>5, <1>6, <1>7, LoopMoves

LEMMA LoopFields ==
  ASSUME RuntimeInv, NEW w \in Loops
  PROVE  /\ wk[w] \in LoopType /\ thread[w] \in ThreadType
         /\ wk \in [Loops -> LoopType] /\ thread \in [Loops -> ThreadType]
         /\ task \in [1 .. MaxTasks -> TaskType] /\ queue \in Seq(1 .. MaxTasks)
         /\ thread = [thread EXCEPT ![w] = thread[w]] /\ wk = [wk EXCEPT ![w] = wk[w]]
         /\ wk[w].task # 0 => task[wk[w].task].name = wk[w].name
         /\ LoopOK(w) /\ DriveOK(w)
         /\ SaidToLoop(w) /\ SaidByFunction(w) /\ SaidBeforeFinish(w)
<1>1. RuntimeTypeOK /\ LoopInv(w)
  BY DEF RuntimeInv
<1>2. /\ wk \in [Loops -> LoopType] /\ thread \in [Loops -> ThreadType]
      /\ task \in [1 .. MaxTasks -> TaskType] /\ queue \in Seq(1 .. MaxTasks)
  BY <1>1, Typed
<1>3. wk[w].task # 0 => task[wk[w].task].name = wk[w].name
  BY <1>1 DEF RuntimeTypeOK
<1> QED BY <1>1, <1>2, <1>3 DEF LoopInv

LEMMA LockOneOK ==
  ASSUME RuntimeInv, NEW w \in Loops, LockOne(w)
  PROVE  RuntimeInv'
<1> DEFINE x == [wk[w] EXCEPT !.pc = "process", !.st = global]
<1>1. /\ wk[w] \in LoopType /\ thread[w] \in ThreadType /\ wk \in [Loops -> LoopType]
      /\ thread \in [Loops -> ThreadType]
      /\ LoopOK(w) /\ SaidByFunction(w)
      /\ thread = [thread EXCEPT ![w] = thread[w]]
      /\ task \in [1 .. MaxTasks -> TaskType] /\ queue \in Seq(1 .. MaxTasks)
  BY LoopFields
<1>2. /\ wk[w].pc = "idle" /\ \A v \in Loops : ~Active(v)
      /\ global \in {"prepared", "submitted", "aborting"}
      /\ wk' = [wk EXCEPT ![w] = x]
      /\ UNCHANGED <<kind, host, handle, db, history, thread, task, queue>>
  BY <1>1 DEF LockOne, Schedulable, Active, calls
<1>3. x \in LoopType /\ x.pc = "process" /\ x.st = global /\ x.name = wk[w].name
      /\ x.task = wk[w].task
  BY <1>1, <1>2 DEF LoopType
<1>4. wk'[w] = x /\ thread' = thread /\ said' = said /\ global' = global /\ branch' = branch
      /\ driver' = driver
  BY <1>1, <1>2 DEF history, db, handle
<1>5. wk[w].task = 0 /\ driver = "up" /\ thread[w].runs = "none"
  BY <1>1, <1>2, Records DEF LoopOK
<1> HIDE DEF x
<1>6. LoopOK(w)'
  BY <1>1, <1>2, <1>3, <1>4, <1>5 DEF LoopOK
<1>7. DriveOK(w)'
  BY <1>2, <1>3, <1>4 DEF DriveOK, Active
<1>8. SaidToLoop(w)' /\ SaidBeforeFinish(w)'
  BY <1>3, <1>4 DEF SaidToLoop, SaidBeforeFinish
<1>9. SaidByFunction(w)'
  BY <1>1, <1>4, KeptSaid DEF SaidByFunction
<1>10. LoopInv(w)'
  BY <1>6, <1>7, <1>8, <1>9 DEF LoopInv
<1> QED BY <1>1, <1>2, <1>3, <1>4, <1>5, <1>10, LoopGoes, TasksKept

\* A worker leaves what it was doing, and no host code runs for it.
LEMMA LoopRests ==
  ASSUME RuntimeInv, NEW w \in Loops, NEW x \in {Idle, Gone},
         wk' = [wk EXCEPT ![w] = x],
         \/ thread' = thread /\ thread[w].runs = "none"
         \/ thread' = [thread EXCEPT ![w] = NoThread] /\ Active(w),
         driver = "up",
         UNCHANGED <<kind, host, handle, db, history, task, queue>>
  PROVE  RuntimeInv'
<1>1. /\ wk[w] \in LoopType /\ thread[w] \in ThreadType /\ wk \in [Loops -> LoopType]
      /\ thread \in [Loops -> ThreadType] /\ LoopOK(w)
      /\ task \in [1 .. MaxTasks -> TaskType] /\ queue \in Seq(1 .. MaxTasks)
      /\ thread = [thread EXCEPT ![w] = thread[w]]
  BY LoopFields
<1>2. x \in LoopType /\ x.pc \in {"idle", "gone"} /\ x.task = 0 /\ x.name = "none"
      /\ (x.pc = "gone" => x = Gone) /\ NoThread \in ThreadType
      /\ NoThread.runs = "none" /\ NoThread.opened = FALSE /\ NoThread.err = "none"
  BY Records
<1>3. thread' = [thread EXCEPT ![w] = NoThread] /\ (NoThread = thread[w] \/ Active(w))
  BY <1>1 DEF LoopOK
<1>4. wk'[w] = x /\ thread'[w] = NoThread /\ driver' = "up"
  BY <1>1, <1>3 DEF handle
<1>5. LoopOK(w)' /\ DriveOK(w)'
  BY <1>2, <1>4 DEF LoopOK, DriveOK, Active
<1>6. SaidToLoop(w)' /\ SaidBeforeFinish(w)' /\ SaidByFunction(w)'
  BY <1>2, <1>4 DEF SaidToLoop, SaidBeforeFinish, SaidByFunction
<1>7. LoopInv(w)'
  BY <1>5, <1>6 DEF LoopInv
<1> QED BY <1>1, <1>2, <1>3, <1>7, LoopGoes, TasksKept

LEMMA DriverUp ==
  ASSUME RuntimeInv, NEW w \in Loops, wk[w].pc # "gone"
  PROVE  driver = "up"
BY LoopFields, Records DEF LoopOK

LEMMA NoHostCode ==
  ASSUME RuntimeInv, NEW w \in Loops, wk[w].pc \notin {"gone", "calling"}
  PROVE  thread[w].runs = "none"
BY LoopFields, DriverUp DEF LoopOK

LEMMA StopOK ==
  ASSUME RuntimeInv, NEW w \in Loops, Stop(w)
  PROVE  RuntimeInv'
<1>1. wk[w].pc = "idle" /\ wk' = [wk EXCEPT ![w] = Gone] /\ thread' = thread
      /\ UNCHANGED <<kind, host, handle, db, history, task, queue>>
  BY DEF Stop, calls
<1> QED BY <1>1, DriverUp, NoHostCode, LoopRests

LEMMA PutBackOK ==
  ASSUME RuntimeInv, NEW w \in Loops, PutBack(w)
  PROVE  RuntimeInv'
<1>1. wk[w].pc = "process" /\ wk' = [wk EXCEPT ![w] = Idle] /\ thread' = thread
      /\ UNCHANGED <<kind, host, handle, db, history, task, queue>>
  BY DEF PutBack, EndRound, calls
<1> QED BY <1>1, DriverUp, NoHostCode, LoopRests

LEMMA EndsUnheardOK ==
  ASSUME RuntimeInv, NEW w \in Loops, EndsUnheard(w)
  PROVE  RuntimeInv'
<1>1. /\ wk[w] \in LoopType /\ wk \in [Loops -> LoopType] /\ thread \in [Loops -> ThreadType]
      /\ LoopOK(w) /\ DriveOK(w)
      /\ task \in [1 .. MaxTasks -> TaskType] /\ queue \in Seq(1 .. MaxTasks)
      /\ wk = [wk EXCEPT ![w] = wk[w]]
  BY LoopFields
<1>2. /\ thread[w].runs # "none" /\ wk[w] = Gone
      /\ thread' = [thread EXCEPT ![w] = NoThread]
      /\ UNCHANGED <<kind, host, handle, db, wk, task, queue, history>>
  BY DEF EndsUnheard, ThreadEnds
<1>3. thread'[w] = NoThread /\ wk'[w] = Gone /\ driver' = driver
  BY <1>1, <1>2 DEF handle
<1>4. LoopOK(w)' /\ DriveOK(w)'
  BY <1>1, <1>2, <1>3, Records DEF LoopOK, DriveOK, Active
<1>5. SaidToLoop(w)' /\ SaidBeforeFinish(w)' /\ SaidByFunction(w)'
  BY <1>3, Records DEF SaidToLoop, SaidBeforeFinish, SaidByFunction
<1>6. LoopInv(w)'
  BY <1>4, <1>5 DEF LoopInv
<1>7. Gone.pc = "gone" /\ Gone.task = 0 /\ NoThread \in ThreadType
  BY Records
<1>8. wk' = [wk EXCEPT ![w] = wk[w]] /\ task' = task /\ queue' = queue
  BY <1>1, <1>2
<1> QED BY <1>1, <1>2, <1>6, <1>7, <1>8, LoopGoes, TasksKept

\* Worker w's call has an answer r.  What it says, the host has said.
LEMMA AnsweredOK ==
  ASSUME RuntimeInv, NEW w \in Loops, NEW r \in Result, wk[w].pc = "calling",
         Answered(w, r),
         \/ thread' = thread /\ thread[w].runs = "none"
         \/ thread' = [thread EXCEPT ![w] = NoThread],
         UNCHANGED <<kind, host, handle, db, aborted>>,
         task' \in [1 .. MaxTasks -> TaskType], queue' \in Seq(1 .. MaxTasks), TasksOK',
         said \subseteq said', said' \subseteq SaidType,
         IF kind = "workflow" /\ wk[w].name = "go"
         THEN (r = "success" => Yes') /\ (r = "failure" => No')
         ELSE /\ r = "success" => <<wk[w].name, "success">> \in said'
              /\ r = "failure" => <<wk[w].name, "failure">> \in said'
  PROVE  RuntimeInv'
<1> DEFINE x == [wk[w] EXCEPT !.pc = "settle", !.task = 0, !.r = r]
<1>1. /\ wk[w] \in LoopType /\ thread[w] \in ThreadType /\ wk \in [Loops -> LoopType]
      /\ thread \in [Loops -> ThreadType] /\ LoopOK(w) /\ DriveOK(w)
      /\ thread = [thread EXCEPT ![w] = thread[w]]
  BY LoopFields
<1>2. wk' = [wk EXCEPT ![w] = x]
  BY <1>1 DEF Answered
<1>3. x \in LoopType /\ x.pc = "settle" /\ x.task = 0 /\ x.r = r /\ x.name = wk[w].name
      /\ x.st = wk[w].st
  <2>1. 0 \in 0 .. MaxTasks
    BY RuntimeAssumption
  <2> QED BY <1>1, <2>1 DEF LoopType
<1> HIDE DEF x
<1>4. thread' = [thread EXCEPT ![w] = NoThread]
  BY <1>1 DEF LoopOK
<1>5. driver = "up"
  BY DriverUp
<1>6. /\ wk' \in [Loops -> LoopType] /\ wk'[w] = x /\ thread'[w] = NoThread
      /\ thread' \in [Loops -> ThreadType]
      /\ \A v \in Loops \ {w} : wk'[v] = wk[v] /\ thread'[v] = thread[v]
  BY <1>1, <1>2, <1>3, <1>4, Records
<1>7. driver' = driver /\ global' = global /\ branch' = branch
  BY DEF handle, db
<1>8. NoThread.runs = "none" /\ NoThread.opened = FALSE /\ NoThread.err = "none"
  BY Records
<1>9. LoopOK(w)'
  BY <1>1, <1>3, <1>5, <1>6, <1>7, <1>8 DEF LoopOK
<1>10. DriveOK(w)'
  BY <1>1, <1>3, <1>6, <1>7, <1>8 DEF DriveOK, Active
<1>11. SaidToLoop(w)'
  BY <1>3, <1>6 DEF SaidToLoop
<1>12. SaidBeforeFinish(w)' /\ SaidByFunction(w)'
  BY <1>3, <1>6, <1>8 DEF SaidBeforeFinish, SaidByFunction
<1>13. LoopInv(w)'
  BY <1>9, <1>10, <1>11, <1>12 DEF LoopInv
<1>14. DbInv' /\ RuntimeTypeOK
  BY DbKept DEF RuntimeInv
<1>15. /\ aborted' \in BOOLEAN /\ global' \in GlobalStatus \cup {"absent"}
       /\ branch' \in [{"go", "undo"} -> BranchStatus \cup {"none"}]
  BY <1>7, <1>14, Typed
<1>16. Active(w)
  BY DEF Active
<1> QED BY <1>3, <1>6, <1>7, <1>13, <1>14, <1>15, <1>16, LoopMoves

\* The host says r of n.
LEMMA SaysOK ==
  ASSUME said \subseteq SaidType, NEW n \in Name \cup {"function"}, NEW r, Says(n, r)
  PROVE  /\ said \subseteq said' /\ said' \subseteq SaidType
         /\ r = "success" => <<n, "success">> \in said'
         /\ r = "failure" => <<n, "failure">> \in said'
BY DEF Says, SaidType

LEMMA CodesOK ==
  ASSUME NEW c \in Codes
  PROVE  /\ ToBranchResult(c) \in Result
         /\ ToBranchResult(c) = "success" => Meant(c) = "success"
         /\ ToBranchResult(c) = "failure" => Meant(c) = "failure"
BY DEF Codes, ToBranchResult, Meant, Result

LEMMA CalledName ==
  ASSUME RuntimeInv, NEW w \in Loops, wk[w].pc = "calling"
  PROVE  wk[w].name \in Name
BY LoopFields DEF LoopType, LoopOK, Name

LEMMA SaidTyped ==
  ASSUME RuntimeInv
  PROVE  said \subseteq SaidType
BY Typed DEF RuntimeInv

LEMMA NativeReturnsOK ==
  ASSUME RuntimeInv, NEW w \in Loops, NEW r \in Result, NativeReturns(w, r)
  PROVE  RuntimeInv'
<1>1. /\ wk[w].pc = "calling" /\ thread[w].runs = "handler" /\ Answered(w, r)
      /\ Says(wk[w].name, r) /\ thread' = [thread EXCEPT ![w] = NoThread]
      /\ UNCHANGED <<kind, host, handle, db, aborted>> /\ UNCHANGED <<task, queue>>
  BY DEF NativeReturns, Calls, ThreadEnds
<1>2. ~(kind = "workflow" /\ wk[w].name = "go")
  BY <1>1, LoopFields DEF LoopOK
<1>3. /\ said \subseteq said' /\ said' \subseteq SaidType
      /\ r = "success" => <<wk[w].name, "success">> \in said'
      /\ r = "failure" => <<wk[w].name, "failure">> \in said'
  BY <1>1, CalledName, SaidTyped, SaysOK
<1>4. task' \in [1 .. MaxTasks -> TaskType] /\ queue' \in Seq(1 .. MaxTasks) /\ TasksOK'
  BY <1>1, LoopFields, TasksKept
<1> QED BY <1>1, <1>2, <1>3, <1>4, AnsweredOK

LEMMA CallbackReturnsOK ==
  ASSUME RuntimeInv, NEW w \in Loops, NEW c \in Codes, CallbackReturns(w, c)
  PROVE  RuntimeInv'
<1>1. /\ wk[w].pc = "calling" /\ thread[w].runs = "handler" /\ Answered(w, ToBranchResult(c))
      /\ Says(wk[w].name, Meant(c)) /\ thread' = [thread EXCEPT ![w] = NoThread]
      /\ UNCHANGED <<kind, host, handle, db, aborted>> /\ UNCHANGED <<task, queue>>
  BY DEF CallbackReturns, Calls, ThreadEnds
<1>2. ~(kind = "workflow" /\ wk[w].name = "go")
  BY <1>1, LoopFields DEF LoopOK
<1>3. /\ said \subseteq said' /\ said' \subseteq SaidType
      /\ Meant(c) = "success" => <<wk[w].name, "success">> \in said'
      /\ Meant(c) = "failure" => <<wk[w].name, "failure">> \in said'
  BY <1>1, CalledName, SaidTyped, SaysOK
<1>4. task' \in [1 .. MaxTasks -> TaskType] /\ queue' \in Seq(1 .. MaxTasks) /\ TasksOK'
  BY <1>1, LoopFields, TasksKept
<1> QED BY <1>1, <1>2, <1>3, <1>4, CodesOK, AnsweredOK

LEMMA FunctionReturnsOK ==
  ASSUME RuntimeInv, NEW w \in Loops, NEW c \in Codes, FunctionReturns(w, c)
  PROVE  RuntimeInv'
<1> DEFINE r == FunctionResult(w, c)
<1>1. /\ wk[w].pc = "calling" /\ thread[w].runs = "function" /\ thread[w].opened
      /\ Answered(w, r)
      /\ Says("function", Meant(c)) /\ thread' = [thread EXCEPT ![w] = NoThread]
      /\ UNCHANGED <<kind, host, handle, db, aborted>> /\ UNCHANGED <<task, queue>>
  BY DEF FunctionReturns, Heard, ThreadEnds
<1>2. kind = "workflow" /\ wk[w].name = "go" /\ SaidByFunction(w) /\ thread[w] \in ThreadType
  BY <1>1, LoopFields DEF LoopOK
<1>3. /\ said \subseteq said' /\ said' \subseteq SaidType
      /\ Meant(c) = "failure" => <<"function", "failure">> \in said'
  BY <1>1, SaidTyped, SaysOK
<1>4. task' \in [1 .. MaxTasks -> TaskType] /\ queue' \in Seq(1 .. MaxTasks) /\ TasksOK'
  BY <1>1, LoopFields, TasksKept
<1>5. r \in Result
  BY <1>2, CodesOK DEF FunctionResult, ThreadType, Result
<1>6. (Yes => Yes') /\ (No => No')
  BY <1>3, KeptSaid
<1>7. r = "success" => Yes'
  BY <1>1, <1>2, <1>6 DEF FunctionResult, ThreadType, SaidByFunction
<1>8. r = "failure" => No'
  <2>1. CASE thread[w].err = "failure"
    BY <1>2, <1>6, <2>1 DEF SaidByFunction, No
  <2>2. CASE thread[w].err # "failure" /\ r = "failure"
    <3>1. ToBranchResult(c) = "failure"
      BY <1>2, <2>2 DEF FunctionResult, ThreadType
    <3> QED BY <1>3, <3>1, CodesOK DEF No
  <2> QED BY <2>1, <2>2
<1> HIDE DEF r
<1> QED BY <1>1, <1>2, <1>3, <1>4, <1>5, <1>7, <1>8, AnsweredOK

\* The result of a call that nobody answered.
LEMMA UnknownOK ==
  ASSUME RuntimeInv, NEW w \in Loops, wk[w].pc = "calling", Answered(w, "unknown"),
         \/ thread' = thread /\ thread[w].runs = "none"
         \/ thread' = [thread EXCEPT ![w] = NoThread],
         UNCHANGED <<kind, host, handle, db, history>>,
         task' \in [1 .. MaxTasks -> TaskType], queue' \in Seq(1 .. MaxTasks), TasksOK'
  PROVE  RuntimeInv'
<1>1. "unknown" \in Result
  BY DEF Result
<1>2. said' = said /\ aborted' = aborted /\ said \subseteq SaidType
  BY SaidTyped DEF history
<1> QED BY <1>1, <1>2, AnsweredOK

LEMMA NativePanicsOK ==
  ASSUME RuntimeInv, NEW w \in Loops, NativePanics(w)
  PROVE  RuntimeInv'
<1>1. /\ wk[w].pc = "calling" /\ thread' = [thread EXCEPT ![w] = NoThread]
      /\ UNCHANGED <<kind, host, handle, db, history>> /\ UNCHANGED <<task, queue>>
      /\ Answered(w, "unknown") \/ wk' = [wk EXCEPT ![w] = Gone]
  BY DEF NativePanics, ThreadEnds
<1>2. CASE Answered(w, "unknown")
  BY <1>1, <1>2, UnknownOK, LoopFields, TasksKept
<1>3. CASE wk' = [wk EXCEPT ![w] = Gone]
  <2>1. Active(w) /\ driver = "up"
    BY <1>1, DriverUp DEF Active
  <2> QED BY <1>1, <1>3, <2>1, LoopRests
<1> QED BY <1>1, <1>2, <1>3

LEMMA PullTimeoutOK ==
  ASSUME RuntimeInv, NEW w \in Loops, PullTimeout(w)
  PROVE  RuntimeInv'
<1>1. /\ wk[w].pc = "calling" /\ wk[w].task # 0 /\ Answered(w, "unknown")
      /\ thread' = thread /\ UNCHANGED <<kind, host, handle, db, history>>
      /\ UNCHANGED <<task, queue>>
  BY DEF PullTimeout, calls
<1>2. thread[w].runs = "none"
  BY <1>1, LoopFields, DriverUp DEF LoopOK
<1> QED BY <1>1, <1>2, UnknownOK, LoopFields, TasksKept

\* Tasks move that no worker waits for.
LEMMA TasksMove ==
  ASSUME RuntimeInv, UNCHANGED <<kind, host, handle, db, wk, thread, aborted>>,
         task' \in [1 .. MaxTasks -> TaskType], queue' \in Seq(1 .. MaxTasks), TasksOK',
         said \subseteq said', said' \subseteq SaidType,
         \A w \in Loops : wk[w].task # 0 => task'[wk[w].task].name = task[wk[w].task].name
  PROVE  RuntimeInv'
<1>1. /\ global' = global /\ branch' = branch /\ life' = life /\ inc' = inc /\ reg' = reg
      /\ driver' = driver /\ server' = server
  BY DEF db, handle
<1>2. \A w \in Loops : LoopInv(w)'
  BY <1>1, Kept
<1>3. DbInv'
  BY <1>1, DbKept DEF RuntimeInv
<1>4. LifeOK' /\ Exclusion'
  BY <1>1 DEF RuntimeInv, LifeOK, Exclusion, Active
<1>5. RuntimeTypeOK'
  <2>1. RuntimeTypeOK
    BY DEF RuntimeInv
  <2>2. \A w \in Loops : wk'[w].task # 0 => task'[wk'[w].task].name = wk'[w].name
    BY <2>1 DEF RuntimeTypeOK
  <2> QED BY <1>1, <2>1, <2>2 DEF RuntimeTypeOK, LoopType, ThreadType, TaskType, SaidType
<1> QED BY <1>2, <1>3, <1>4, <1>5 DEF RuntimeInv

LEMMA NextTaskOK ==
  ASSUME RuntimeInv, NextTask
  PROVE  RuntimeInv'
<1> DEFINE i == Head(queue)
           t == [task[i] EXCEPT !.at = "host"]
<1>1. TasksOK /\ task \in [1 .. MaxTasks -> TaskType] /\ queue \in Seq(1 .. MaxTasks)
  BY Typed DEF RuntimeInv
<1>2. queue # <<>> /\ queue' = Tail(queue) /\ task' = [task EXCEPT ![i] = t]
      /\ UNCHANGED <<kind, host, handle, db, wk, thread, aborted>> /\ said' = said
  BY <1>1 DEF NextTask, history
<1>3. i \in 1 .. MaxTasks /\ task[i].at = "queue"
  <2>1. 1 \in 1 .. Len(queue) /\ i = queue[1]
    BY <1>1, <1>2, EmptySeq
  <2> QED BY <1>1, <1>2, <2>1, HeadTailProperties DEF TasksOK
<1>4. t \in TaskType /\ t.name = task[i].name /\ t.name # "none"
  BY <1>1, <1>3 DEF TaskType, TasksOK
<1> HIDE DEF t, i
<1>5. TasksOK' /\ task' \in [1 .. MaxTasks -> TaskType] /\ queue' \in Seq(1 .. MaxTasks)
  BY <1>2, <1>4, TasksTaken DEF i
<1>6. \A j \in 1 .. MaxTasks : task'[j].name = task[j].name
  BY <1>1, <1>2, <1>3, <1>4
<1>7. \A w \in Loops : wk[w].task \in 0 .. MaxTasks
  BY LoopFields DEF LoopType
<1>8. \A w \in Loops : wk[w].task # 0 => task'[wk[w].task].name = task[wk[w].task].name
  BY <1>6, <1>7, RuntimeAssumption
<1> QED BY <1>2, <1>5, <1>8, SaidTyped, TasksMove

LEMMA NotWaitedFor ==
  ASSUME RuntimeInv, NEW i \in 1 .. MaxTasks, Waiting(i) = {}, NEW t,
         task' = [task EXCEPT ![i] = t]
  PROVE  \A w \in Loops : wk[w].task # 0 => task'[wk[w].task].name = task[wk[w].task].name
<1>1. SUFFICES ASSUME NEW w \in Loops, wk[w].task # 0
               PROVE  task'[wk[w].task] = task[wk[w].task]
  OBVIOUS
<1>2. wk[w].task # i
  BY <1>1, LoopFields DEF LoopOK, Waiting
<1>3. wk[w].task \in 1 .. MaxTasks /\ task \in [1 .. MaxTasks -> TaskType]
  BY <1>1, LoopFields, RuntimeAssumption DEF LoopType
<1> QED BY <1>2, <1>3

LEMMA NextTaskTooSmallOK ==
  ASSUME RuntimeInv, NextTaskTooSmall
  PROVE  RuntimeInv'
<1> DEFINE i == Head(queue)
<1>1. /\ queue # <<>> /\ queue' = Tail(queue) /\ task' = [task EXCEPT ![i] = NoTask]
      /\ \/ \E w \in Waiting(i) : Answered(w, "unknown")
         \/ Waiting(i) = {} /\ UNCHANGED wk
      /\ UNCHANGED <<kind, host, handle, db, thread, history>>
  BY DEF NextTaskTooSmall
<1>2. NoTask \in TaskType /\ NoTask.at = "none"
  BY Records
<1>3. TasksOK' /\ task' \in [1 .. MaxTasks -> TaskType] /\ queue' \in Seq(1 .. MaxTasks)
      /\ i \in 1 .. MaxTasks
  BY <1>1, <1>2, TasksTaken
<1> HIDE DEF i
<1>4. ASSUME NEW w \in Waiting(i), Answered(w, "unknown") PROVE RuntimeInv'
  <2>1. w \in Loops /\ wk[w].pc = "calling" /\ wk[w].task # 0
    BY <1>3 DEF Waiting
  <2>2. thread[w].runs = "none"
    BY <2>1, LoopFields, DriverUp DEF LoopOK
  <2>3. thread' = thread /\ UNCHANGED <<kind, host, handle, db, history>>
    BY <1>1
  <2> QED BY <1>3, <1>4, <2>1, <2>2, <2>3, UnknownOK
<1>5. CASE Waiting(i) = {} /\ UNCHANGED wk
  <2>1. \A w \in Loops : wk[w].task # 0 => task'[wk[w].task].name = task[wk[w].task].name
    BY <1>1, <1>3, <1>5, NotWaitedFor
  <2>2. said' = said /\ aborted' = aborted
    BY <1>1 DEF history
  <2> QED BY <1>1, <1>3, <1>5, <2>1, <2>2, SaidTyped, TasksMove
<1> QED BY <1>1, <1>4, <1>5

LEMMA ReplyOK ==
  ASSUME RuntimeInv, NEW i \in 1 .. MaxTasks, NEW c \in Codes, Reply(i, c)
  PROVE  RuntimeInv'
<1>1. /\ task[i].at = "host" /\ task' = [task EXCEPT ![i] = NoTask] /\ queue' = queue
      /\ Says(task[i].name, Meant(c))
      /\ \/ \E w \in Waiting(i) : Answered(w, ToBranchResult(c))
         \/ Waiting(i) = {} /\ UNCHANGED wk
      /\ UNCHANGED <<kind, host, handle, db, thread, aborted>>
  BY DEF Reply
<1>2. TasksOK /\ task \in [1 .. MaxTasks -> TaskType]
  BY Typed DEF RuntimeInv
<1>3. task[i].name \in Name
  BY <1>1, <1>2 DEF TasksOK, TaskType
<1>4. TasksOK' /\ task' \in [1 .. MaxTasks -> TaskType] /\ queue' \in Seq(1 .. MaxTasks)
  BY <1>1, TasksAnswered
<1>5. /\ said \subseteq said' /\ said' \subseteq SaidType
      /\ Meant(c) = "success" => <<task[i].name, "success">> \in said'
      /\ Meant(c) = "failure" => <<task[i].name, "failure">> \in said'
  BY <1>1, <1>3, SaidTyped, SaysOK
<1>6. ASSUME NEW w \in Waiting(i), Answered(w, ToBranchResult(c)) PROVE RuntimeInv'
  <2>1. w \in Loops /\ wk[w].pc = "calling" /\ wk[w].task # 0 /\ wk[w].task = i
    BY DEF Waiting
  <2>2. thread[w].runs = "none" /\ task[i].name = wk[w].name
        /\ ~(kind = "workflow" /\ wk[w].name = "go")
    BY <2>1, LoopFields, DriverUp DEF LoopOK
  <2>3. thread' = thread /\ UNCHANGED <<kind, host, handle, db, aborted>>
    BY <1>1
  <2> QED BY <1>4, <1>5, <1>6, <2>1, <2>2, <2>3, CodesOK, AnsweredOK
<1>7. CASE Waiting(i) = {} /\ UNCHANGED wk
  <2>1. \A w \in Loops : wk[w].task # 0 => task'[wk[w].task].name = task[wk[w].task].name
    BY <1>1, <1>7, NotWaitedFor
  <2> QED BY <1>1, <1>4, <1>5, <1>7, <2>1, TasksMove
<1> QED BY <1>1, <1>6, <1>7

-----------------------------------------------------------------------------
(***************************************************************************)
(* Process: a call, or the decision to change the status.                  *)
(***************************************************************************)
LEMMA CallLocalOK ==
  ASSUME RuntimeInv, NEW w \in Loops, NEW n \in Name, wk[w].pc = "process",
         n = "query" => kind = "msg",
         n # "query" /\ kind \in {"tcc", "xa"} => branch["go"] # "none",
         CallLocal(w, n), UNCHANGED <<kind, host, handle, db, history>>
  PROVE  RuntimeInv'
<1>1. /\ wk[w] \in LoopType /\ thread[w] \in ThreadType /\ wk \in [Loops -> LoopType]
      /\ thread \in [Loops -> ThreadType] /\ LoopOK(w) /\ DriveOK(w)
      /\ task \in [1 .. MaxTasks -> TaskType] /\ queue \in Seq(1 .. MaxTasks)
      /\ thread = [thread EXCEPT ![w] = thread[w]]
  BY LoopFields
<1>2. driver = "up" /\ thread[w].runs = "none" /\ thread[w] = NoThread /\ wk[w].task = 0
  BY <1>1, DriverUp, NoHostCode DEF LoopOK
<1>3. driver' = driver /\ global' = global /\ branch' = branch /\ said' = said
  BY DEF handle, db, history
<1>4. Active(w) /\ n # "none" /\ n \in Name
  BY DEF Active, Name
<1>5. wk[w].st # "none" /\ (wk[w].st = "aborting" => global = "aborting")
      /\ global \in {"prepared", "submitted", "aborting"}
  BY <1>1, <1>4 DEF DriveOK
<1>6. ~(kind = "workflow" /\ n = "go" /\ reg[n] = "pull")
  BY DEF RuntimeInv, LifeOK
<1>7. NoThread.runs = "none" /\ NoThread.opened = FALSE /\ NoThread.err = "none"
      /\ NoThread \in ThreadType
  BY Records
<1>8. CASE /\ wk' = [wk EXCEPT ![w].pc = "settle", ![w].name = n, ![w].r = "unknown"]
           /\ UNCHANGED calls
  <2> DEFINE x == [wk[w] EXCEPT !.pc = "settle", !.name = n, !.r = "unknown"]
  <2>1. wk' = [wk EXCEPT ![w] = x]
    BY <1>1, <1>8
  <2>2. x \in LoopType /\ x.pc = "settle" /\ x.name = n /\ x.r = "unknown" /\ x.task = 0
        /\ x.st = wk[w].st
    BY <1>1, <1>2, <1>4 DEF LoopType, Result
  <2> HIDE DEF x
  <2>3. wk'[w] = x /\ thread' = thread /\ task' = task /\ queue' = queue
    BY <1>1, <1>8, <2>1 DEF calls
  <2>4. LoopOK(w)' /\ DriveOK(w)'
    BY <1>2, <1>3, <1>4, <1>5, <2>2, <2>3 DEF LoopOK, DriveOK, Active
  <2>5. SaidToLoop(w)' /\ SaidByFunction(w)' /\ SaidBeforeFinish(w)'
    BY <1>2, <1>7, <2>2, <2>3 DEF SaidToLoop, SaidByFunction, SaidBeforeFinish
  <2>6. LoopInv(w)'
    BY <2>4, <2>5 DEF LoopInv
  <2> QED BY <1>1, <1>4, <2>1, <2>2, <2>3, <2>6, LoopGoes, TasksKept
<1>9. CASE /\ wk' = [wk EXCEPT ![w].pc = "calling", ![w].name = n]
           /\ thread' = [thread EXCEPT ![w].runs =
                           IF kind = "workflow" /\ n = "go" THEN "function" ELSE "handler"]
           /\ UNCHANGED <<task, queue>>
  <2> DEFINE x == [wk[w] EXCEPT !.pc = "calling", !.name = n]
             y == [NoThread EXCEPT !.runs =
                     IF kind = "workflow" /\ n = "go" THEN "function" ELSE "handler"]
  <2>1. wk' = [wk EXCEPT ![w] = x] /\ thread' = [thread EXCEPT ![w] = y]
    BY <1>1, <1>2, <1>9
  <2>2. x \in LoopType /\ x.pc = "calling" /\ x.name = n /\ x.task = 0 /\ x.st = wk[w].st
    BY <1>1, <1>2, <1>4 DEF LoopType
  <2>3. /\ y \in ThreadType /\ y.opened = FALSE /\ y.err = "none"
        /\ y.runs = IF kind = "workflow" /\ n = "go" THEN "function" ELSE "handler"
    BY <1>7 DEF ThreadType
  <2> HIDE DEF x, y
  <2>4. wk'[w] = x /\ thread'[w] = y /\ task' = task /\ queue' = queue
    BY <1>1, <1>9, <2>1
  <2>5. LoopOK(w)'
    BY <1>2, <1>3, <1>4, <2>2, <2>3, <2>4 DEF LoopOK
  <2>6. DriveOK(w)'
    BY <1>3, <1>4, <1>5, <2>2, <2>4 DEF DriveOK, Active
  <2>7. SaidToLoop(w)' /\ SaidByFunction(w)' /\ SaidBeforeFinish(w)'
    BY <2>2, <2>3, <2>4 DEF SaidToLoop, SaidByFunction, SaidBeforeFinish
  <2>8. LoopInv(w)'
    BY <2>5, <2>6, <2>7 DEF LoopInv
  <2> QED BY <1>1, <1>4, <2>1, <2>2, <2>3, <2>4, <2>8, LoopGoes, TasksKept
<1>10. ASSUME reg[n] = "pull", NEW i \in 1 .. MaxTasks, Dispatch(w, n, i) PROVE RuntimeInv'
  <2> DEFINE x == [wk[w] EXCEPT !.pc = "calling", !.name = n, !.task = i]
  <2>1. wk' = [wk EXCEPT ![w] = x] /\ thread' = thread
        /\ TasksOK' /\ task' \in [1 .. MaxTasks -> TaskType]
        /\ queue' \in Seq(1 .. MaxTasks) /\ task'[i].name = n
    <3>1. /\ task[i] = NoTask /\ queue' = Append(queue, i)
          /\ task' = [task EXCEPT ![i] = [name |-> n, at |-> "queue"]]
      BY <1>10 DEF Dispatch
    <3> QED BY <1>1, <1>10, <3>1, TasksPut DEF Dispatch
  <2>2. x \in LoopType /\ x.pc = "calling" /\ x.name = n /\ x.task = i /\ x.st = wk[w].st
    <3>1. i \in 0 .. MaxTasks
      BY RuntimeAssumption
    <3> QED BY <1>1, <1>4, <3>1 DEF LoopType
  <2> HIDE DEF x
  <2>3. wk'[w] = x /\ thread'[w] = NoThread
    BY <1>1, <1>2, <2>1
  <2>4. LoopOK(w)'
    BY <1>2, <1>3, <1>4, <1>6, <1>7, <1>10, <2>2, <2>3 DEF LoopOK
  <2>5. DriveOK(w)'
    BY <1>3, <1>4, <1>5, <2>2, <2>3 DEF DriveOK, Active
  <2>6. SaidToLoop(w)' /\ SaidByFunction(w)' /\ SaidBeforeFinish(w)'
    BY <1>7, <2>2, <2>3 DEF SaidToLoop, SaidByFunction, SaidBeforeFinish
  <2>7. LoopInv(w)'
    BY <2>4, <2>5, <2>6 DEF LoopInv
  <2> QED BY <1>1, <1>4, <2>1, <2>2, <2>7, LoopGoes
<1> QED BY <1>8, <1>9, <1>10 DEF CallLocal

\* A worker is about to change the status.
Finishes(w, s) == wk' = [wk EXCEPT ![w].pc = "finish", ![w].to = s] /\ UNCHANGED calls

LEMMA FinishesOK ==
  ASSUME RuntimeInv, NEW w \in Loops, wk[w].pc \in {"process", "settle"}, NEW s \in GlobalStatus,
         Finishes(w, s), s \in {"submitted", "aborting", "succeed", "failed"},
         s = "succeed" => Yes \/ kind \in {"tcc", "xa"}, s = "aborting" => No,
         s = "failed" => (wk[w].st = "aborting" \/ (kind = "msg" /\ No)) /\ Undone,
         UNCHANGED <<kind, host, handle, db, history>>
  PROVE  RuntimeInv'
<1> DEFINE x == [wk[w] EXCEPT !.pc = "finish", !.to = s]
<1>1. /\ wk[w] \in LoopType /\ thread[w] \in ThreadType /\ wk \in [Loops -> LoopType]
      /\ thread \in [Loops -> ThreadType] /\ LoopOK(w) /\ DriveOK(w)
      /\ task \in [1 .. MaxTasks -> TaskType] /\ queue \in Seq(1 .. MaxTasks)
      /\ thread = [thread EXCEPT ![w] = thread[w]]
  BY LoopFields
<1>2. driver = "up" /\ thread[w].runs = "none" /\ thread[w] = NoThread /\ wk[w].task = 0
  BY <1>1, DriverUp, NoHostCode DEF LoopOK
<1>3. driver' = driver /\ global' = global /\ branch' = branch /\ said' = said
  BY DEF handle, db, history
<1>4. wk' = [wk EXCEPT ![w] = x] /\ UNCHANGED calls
  BY <1>1 DEF Finishes
<1>5. x \in LoopType /\ x.pc = "finish" /\ x.name = wk[w].name /\ x.task = 0
      /\ x.st = wk[w].st /\ x.to = s
  BY <1>1, <1>2 DEF LoopType
<1> HIDE DEF x
<1>6. wk'[w] = x /\ thread' = thread /\ task' = task /\ queue' = queue
  BY <1>1, <1>4 DEF calls
<1>7. Active(w)
  BY DEF Active
<1>8. LoopOK(w)' /\ DriveOK(w)'
  BY <1>1, <1>2, <1>3, <1>5, <1>6, <1>7 DEF LoopOK, DriveOK, Active
<1>9. SaidToLoop(w)' /\ SaidByFunction(w)'
  BY <1>2, <1>5, <1>6, Records DEF SaidToLoop, SaidByFunction
<1>10. SaidBeforeFinish(w)'
  <2>1. (Yes => Yes') /\ (No => No') /\ (Undone => Undone')
    BY <1>3 DEF Yes, No, Undone
  <2> QED BY <1>5, <1>6, <2>1 DEF SaidBeforeFinish
<1>11. LoopInv(w)'
  BY <1>8, <1>9, <1>10 DEF LoopInv
<1>12. TasksOK'
  BY <1>6, TasksKept
<1>13. thread' = [thread EXCEPT ![w] = thread[w]]
  BY <1>1, <1>6
<1> QED BY <1>1, <1>4, <1>5, <1>6, <1>7, <1>11, <1>12, <1>13, LoopGoes

LEMMA ProcessOK ==
  ASSUME RuntimeInv, NEW w \in Loops, Process(w)
  PROVE  RuntimeInv'
<1> DEFINE sts == wk[w].st
           d == Advance(sts)
           n == IF d.op \in {"compensate", "cancel", "rollback"} THEN "undo" ELSE "go"
<1>1. /\ wk[w].pc = "process" /\ UNCHANGED <<kind, host, handle, db, history>>
      /\ \/ sts = "prepared" /\ kind = "msg" /\ CallLocal(w, "query")
         \/ sts # "prepared" /\ d.kind \in {"call", "run"} /\ CallLocal(w, n)
         \/ /\ sts # "prepared" /\ d.kind = "finish"
            /\ wk' = [wk EXCEPT ![w].pc = "finish", ![w].to = d.to]
            /\ UNCHANGED calls
  BY DEF Process
<1>2. RuntimeTypeOK /\ RowsOK /\ SaidInRows
  BY DEF RuntimeInv, DbInv
<1>3. /\ wk[w] \in LoopType /\ DriveOK(w) /\ Active(w)
  BY <1>1, LoopFields DEF Active
<1>4. global # "absent" /\ (sts # "prepared" => sts \in {"submitted", "aborting"})
  BY <1>3 DEF DriveOK, LoopType
<1>5. n \in Name /\ n # "query" /\ "query" \in Name
  BY DEF Name
<1>6. sts # "prepared" /\ kind \in {"tcc", "xa"} /\ branch["go"] = "none" => d.kind = "finish"
  BY DEF Advance, Finish
<1>7. sts # "prepared" =>
         \/ d.kind \in {"call", "run"}
         \/ /\ d.kind = "finish" /\ d.to = "succeed"
            /\ kind \in {"tcc", "xa"} \/ branch["go"] = "succeed"
         \/ /\ d.kind = "finish" /\ d.to = "aborting"
            /\ branch["go"] = "failed"
         \/ /\ d.kind = "finish" /\ d.to = "failed" /\ sts = "aborting"
            /\ \/ kind = "msg" \/ branch["undo"] \in {"none", "succeed"}
               \/ kind = "saga" /\ branch["undo"] = "failed"
  <2> HIDE DEF n, sts
  <2> QED BY <1>2, <1>4, AdvanceCases
<1> HIDE DEF d, n
<1>8. CASE sts = "prepared" /\ kind = "msg" /\ CallLocal(w, "query")
  BY <1>1, <1>5, <1>8, CallLocalOK
<1>9. CASE sts # "prepared" /\ d.kind \in {"call", "run"} /\ CallLocal(w, n)
  <2>1. kind \in {"tcc", "xa"} => branch["go"] # "none"
    BY <1>6, <1>9
  <2> QED BY <1>1, <1>5, <1>9, <2>1, CallLocalOK
<1>10. CASE /\ sts # "prepared" /\ d.kind = "finish"
            /\ wk' = [wk EXCEPT ![w].pc = "finish", ![w].to = d.to]
            /\ UNCHANGED calls
  <2>1. d.to \in GlobalStatus /\ d.to \in {"submitted", "aborting", "succeed", "failed"}
    BY <1>7, <1>10 DEF GlobalStatus
  <2>2. d.to = "succeed" => Yes \/ kind \in {"tcc", "xa"}
    BY <1>2, <1>7, <1>10 DEF SaidInRows, Yes
  <2>3. d.to = "aborting" => No
    BY <1>2, <1>7, <1>10 DEF SaidInRows, No
  <2>4. d.to = "failed" => sts = "aborting" /\ Undone
    BY <1>2, <1>7, <1>10 DEF SaidInRows, Undone
  <2>5. Finishes(w, d.to)
    BY <1>10 DEF Finishes
  <2> QED BY <1>1, <2>1, <2>2, <2>3, <2>4, <2>5, FinishesOK
<1> QED BY <1>1, <1>8, <1>9, <1>10

-----------------------------------------------------------------------------
(***************************************************************************)
(* The steps that write to the store.                                      *)
(***************************************************************************)

\* Worker w, with no host code running for it, goes to x and writes.
LEMMA LoopWrites ==
  ASSUME RuntimeInv, NEW w \in Loops, wk[w].pc \in {"process", "settle", "finish"},
         NEW x \in LoopType, wk' = [wk EXCEPT ![w] = x],
         x = Idle \/ (x.pc \in {"process", "finish"} /\ x.name # "query"),
         x.task = 0, x.pc # "idle" => x.st # "none",
         UNCHANGED <<kind, host, handle, thread, task, queue, said>>, aborted' \in BOOLEAN,
         global' \in GlobalStatus \cup {"absent"},
         branch' \in [{"go", "undo"} -> BranchStatus \cup {"none"}],
         x.pc # "idle" => /\ global' \in {"prepared", "submitted", "aborting"}
                          /\ x.st = "aborting" => global' = "aborting",
         x.pc = "finish" => x.to = "aborting" /\ No,
         DbInv'
  PROVE  RuntimeInv'
<1>1. /\ wk[w] \in LoopType /\ thread[w] \in ThreadType /\ wk \in [Loops -> LoopType]
      /\ thread \in [Loops -> ThreadType] /\ LoopOK(w) /\ DriveOK(w)
      /\ task \in [1 .. MaxTasks -> TaskType] /\ queue \in Seq(1 .. MaxTasks)
  BY LoopFields
<1>2. driver = "up" /\ thread[w].runs = "none" /\ thread[w] = NoThread /\ wk[w].task = 0
  BY <1>1, DriverUp, NoHostCode DEF LoopOK
<1>3. driver' = driver
  BY DEF handle
<1>4. wk' \in [Loops -> LoopType] /\ wk'[w] = x /\ \A v \in Loops \ {w} : wk'[v] = wk[v]
  BY <1>1
<1>5. NoThread.runs = "none" /\ NoThread.opened = FALSE /\ NoThread.err = "none"
      /\ Idle.pc = "idle" /\ Idle.name = "none"
  BY Records
<1>6. x.pc \in {"idle", "process", "finish"} /\ x.name # "query"
  BY <1>5
<1>7. LoopOK(w)'
  BY <1>2, <1>3, <1>4, <1>5, <1>6 DEF LoopOK
<1>8. DriveOK(w)'
  BY <1>2, <1>4, <1>5, <1>6 DEF DriveOK, Active
<1>9. SaidToLoop(w)' /\ SaidByFunction(w)'
  BY <1>2, <1>4, <1>5, <1>6 DEF SaidToLoop, SaidByFunction
<1>10. SaidBeforeFinish(w)'
  <2>1. No => No'
    BY KeptSaid
  <2> QED BY <1>4, <2>1 DEF SaidBeforeFinish
<1>11. LoopInv(w)'
  BY <1>7, <1>8, <1>9, <1>10 DEF LoopInv
<1>12. Active(w)
  BY DEF Active
<1>13. TasksOK' /\ said \subseteq SaidType
  BY TasksKept, SaidTyped
<1> QED BY <1>1, <1>4, <1>11, <1>12, <1>13, LoopMoves

LEMMA PreparedTimeoutOK ==
  ASSUME RuntimeInv, NEW w \in Loops, PreparedTimeout(w)
  PROVE  RuntimeInv'
<1>1. /\ wk[w].pc = "process" /\ wk[w].st = "prepared" /\ kind \in {"tcc", "xa"}
      /\ UNCHANGED <<kind, host, handle, thread, task, queue, said>> /\ branch' = branch
  BY DEF PreparedTimeout, calls
<1>2. CASE /\ global = "prepared" /\ global' = "aborting" /\ aborted' = TRUE
           /\ wk' = [wk EXCEPT ![w].st = "aborting"]
  <2> DEFINE x == [wk[w] EXCEPT !.st = "aborting"]
  <2>1. /\ wk[w] \in LoopType /\ wk \in [Loops -> LoopType] /\ LoopOK(w)
    BY LoopFields
  <2>2. wk' = [wk EXCEPT ![w] = x] /\ x \in LoopType /\ x.pc = "process" /\ x.st = "aborting"
        /\ x.name = wk[w].name /\ x.task = wk[w].task
    BY <1>1, <1>2, <2>1 DEF LoopType
  <2> HIDE DEF x
  <2>3. x.task = 0 /\ x.name # "query"
    BY <1>1, <2>1, <2>2 DEF LoopOK
  <2>4. DbInv'
    BY <1>1, <1>2 DEF RuntimeInv, DbInv, RowsOK, SaidInRows, SaidInStatus
  <2>5. branch \in [{"go", "undo"} -> BranchStatus \cup {"none"}]
    BY Typed DEF RuntimeInv
  <2>6. aborted' \in BOOLEAN /\ global' \in GlobalStatus
    BY <1>2 DEF GlobalStatus
  <2> QED BY <1>1, <1>2, <2>2, <2>3, <2>4, <2>5, <2>6, LoopWrites
<1>3. CASE EndRound(w) /\ UNCHANGED <<global, aborted>>
  <2>1. UNCHANGED <<db, history>>
    BY <1>1, <1>3 DEF db, history
  <2>2. thread[w].runs = "none" /\ driver = "up"
    BY <1>1, NoHostCode, DriverUp
  <2> QED BY <1>1, <1>3, <2>1, <2>2, LoopRests DEF EndRound
<1> QED BY <1>2, <1>3 DEF PreparedTimeout

\* A result is written into the row of the call it answers.
LEMMA RecordedDb ==
  ASSUME RuntimeInv, NEW w \in Loops, wk[w].pc = "settle", wk[w].name \in {"go", "undo"},
         NEW s \in {"succeed", "failed"}, branch' = [branch EXCEPT ![wk[w].name] = s],
         s = "succeed" => <<wk[w].name, "success">> \in said,
         s = "failed" => <<wk[w].name, "failure">> \in said,
         UNCHANGED <<kind, global, said, aborted>>
  PROVE  DbInv' /\ branch' \in [{"go", "undo"} -> BranchStatus \cup {"none"}]
<1> DEFINE n == wk[w].name
<1>1. branch \in [{"go", "undo"} -> BranchStatus \cup {"none"}] /\ DbInv
  BY Typed DEF RuntimeInv
<1>2. s \in BranchStatus /\ s # "none"
  BY DEF BranchStatus
<1>3. DriveOK(w) /\ Active(w)
  BY LoopFields DEF Active
<1>4. global \in {"prepared", "submitted", "aborting"}
      /\ (kind \in {"tcc", "xa"} => branch["go"] # "none" /\ branch["undo"] # "none")
  BY <1>1, <1>3 DEF DriveOK, DbInv, RowsOK
<1>5. branch'[n] = s /\ \A m \in {"go", "undo"} \ {n} : branch'[m] = branch[m]
  BY <1>1
<1>6. \A m \in {"go", "undo"} : branch[m] # "none" => branch'[m] # "none"
  BY <1>2, <1>5
<1>7. RowsOK'
  BY <1>1, <1>4, <1>6 DEF DbInv, RowsOK
<1>8. SaidInRows'
  BY <1>1, <1>5 DEF DbInv, SaidInRows
<1>9. SaidInStatus'
  <2>1. No => No'
    BY KeptSaid
  <2> QED BY <1>1, <1>4, <2>1 DEF DbInv, SaidInStatus
<1> QED BY <1>1, <1>2, <1>7, <1>8, <1>9 DEF DbInv

RecordsResult(w, s) ==
  /\ branch' = [branch EXCEPT ![wk[w].name] = s]
  /\ \/ wk' = [wk EXCEPT ![w] = [Idle EXCEPT !.pc = "process", !.st = wk[w].st]]
     \/ EndRound(w)
     \/ /\ s = "failed" /\ wk[w].name = "go"
        /\ wk' = [wk EXCEPT ![w].pc = "finish", ![w].to = "aborting"]

LEMMA RecordsOK ==
  ASSUME RuntimeInv, NEW w \in Loops, wk[w].pc = "settle", wk[w].name \in {"go", "undo"},
         NEW s \in {"succeed", "failed"}, RecordsResult(w, s),
         s = "succeed" => <<wk[w].name, "success">> \in said,
         s = "failed" => <<wk[w].name, "failure">> \in said,
         UNCHANGED <<kind, host, handle, global, thread, task, queue, said, aborted>>
  PROVE  RuntimeInv'
<1>1. DbInv' /\ branch' \in [{"go", "undo"} -> BranchStatus \cup {"none"}]
  BY RecordedDb DEF RecordsResult
<1>2. /\ wk[w] \in LoopType /\ wk \in [Loops -> LoopType] /\ LoopOK(w) /\ DriveOK(w)
  BY LoopFields
<1>3. wk[w].task = 0 /\ wk[w].st # "none" /\ (wk[w].st = "aborting" => global = "aborting")
      /\ global \in {"prepared", "submitted", "aborting"}
  BY <1>2 DEF LoopOK, DriveOK, Active
<1>4. aborted' \in BOOLEAN /\ global' \in GlobalStatus \cup {"absent"}
  BY Typed DEF RuntimeInv
<1> DEFINE next == [Idle EXCEPT !.pc = "process", !.st = wk[w].st]
           end == [wk[w] EXCEPT !.pc = "finish", !.to = "aborting"]
<1>5. next \in LoopType /\ next.pc = "process" /\ next.st = wk[w].st /\ next.name = "none"
      /\ next.task = 0
  BY <1>2, Records DEF LoopType
<1>6. end \in LoopType /\ end.pc = "finish" /\ end.st = wk[w].st /\ end.name = wk[w].name
      /\ end.task = 0 /\ end.to = "aborting"
  BY <1>2, <1>3 DEF LoopType, GlobalStatus
<1>7. Idle \in LoopType /\ Idle.task = 0 /\ Idle.pc = "idle"
  BY Records
<1>8. \/ wk' = [wk EXCEPT ![w] = next]
      \/ wk' = [wk EXCEPT ![w] = Idle]
      \/ wk' = [wk EXCEPT ![w] = end] /\ No
  BY <1>2 DEF RecordsResult, EndRound, No
<1>9. PICK x \in {next, Idle, end} : wk' = [wk EXCEPT ![w] = x] /\ (x = end => No \/ x = next \/ x = Idle)
  BY <1>8
<1> HIDE DEF next, end
<1>10. /\ x \in LoopType /\ x.task = 0 /\ x.pc \in {"idle", "process", "finish"}
       /\ x = Idle \/ (x.pc \in {"process", "finish"} /\ x.name # "query" /\ x.st = wk[w].st)
       /\ x.pc = "finish" => x.to = "aborting" /\ No
  BY <1>5, <1>6, <1>7, <1>9
<1> QED BY <1>1, <1>3, <1>4, <1>7, <1>9, <1>10, LoopWrites

LEMMA SettleOK ==
  ASSUME RuntimeInv, NEW w \in Loops, Settle(w)
  PROVE  RuntimeInv'
<1> DEFINE r == wk[w].r
           n == wk[w].name
<1>1. /\ wk[w].pc = "settle"
      /\ UNCHANGED <<kind, host, handle, global, thread, task, queue, said, aborted>>
  BY DEF Settle, calls, history
<1>2. LoopOK(w) /\ SaidToLoop(w) /\ wk[w] \in LoopType
  BY LoopFields
<1>3. /\ ~(kind = "workflow" /\ n = "go") /\ r = "success" => <<n, "success">> \in said
      /\ ~(kind = "workflow" /\ n = "go") /\ r = "failure" => <<n, "failure">> \in said
      /\ kind = "workflow" /\ n = "go" /\ r = "success" => Yes
      /\ kind = "workflow" /\ n = "go" /\ r = "failure" => No
  BY <1>1, <1>2 DEF SaidToLoop
<1>4. n = "query" => kind = "msg"
  BY <1>2 DEF LoopOK
<1>5. ASSUME NEW s \in {"submitted", "failed", "succeed", "aborting"}, Finishes(w, s),
             UNCHANGED branch,
             s = "succeed" => Yes \/ kind \in {"tcc", "xa"}, s = "aborting" => No,
             s = "failed" => kind = "msg" /\ No
      PROVE  RuntimeInv'
  <2>1. UNCHANGED <<kind, host, handle, db, history>>
    BY <1>1, <1>5 DEF db, history
  <2>2. s \in GlobalStatus
    BY DEF GlobalStatus
  <2>3. kind = "msg" => Undone
    BY DEF Undone
  <2> QED BY <1>1, <1>5, <2>1, <2>2, <2>3, FinishesOK
<1>6. CASE EndRound(w) /\ UNCHANGED branch
  <2>1. UNCHANGED <<kind, host, handle, db, history>>
    BY <1>1, <1>6 DEF db, history
  <2>2. thread[w].runs = "none" /\ driver = "up"
    BY <1>1, NoHostCode, DriverUp
  <2> QED BY <1>1, <1>6, <2>1, <2>2, LoopRests DEF EndRound
<1>7. ASSUME NEW s \in {"succeed", "failed"}, RecordsResult(w, s), n \in {"go", "undo"},
             ~(kind = "workflow" /\ n = "go"),
             s = "succeed" => r = "success", s = "failed" => r = "failure"
      PROVE  RuntimeInv'
  BY <1>1, <1>3, <1>7, RecordsOK
<1>8. UNCHANGED calls
  BY <1>1 DEF calls
<1> DEFINE finish(s) == wk' = [wk EXCEPT ![w].pc = "finish", ![w].to = s]
           record(s) == branch' = [branch EXCEPT ![n] = s]
           next == [Idle EXCEPT !.pc = "process", !.st = wk[w].st]
<1>9. \A s : finish(s) => Finishes(w, s)
  BY <1>8 DEF Finishes
<1>10. CASE r = "success" /\ n = "query" /\ finish("submitted") /\ UNCHANGED branch
  BY <1>5, <1>9, <1>10
<1>11. CASE r = "failure" /\ n = "query" /\ finish("failed") /\ UNCHANGED branch
  <2>1. No /\ kind = "msg"
    BY <1>3, <1>4, <1>11 DEF No
  <2> QED BY <1>5, <1>9, <1>11, <2>1
<1>12. CASE r = "success" /\ n = "go" /\ kind = "workflow" /\ finish("succeed") /\ UNCHANGED branch
  BY <1>3, <1>5, <1>9, <1>12
<1>13. CASE r = "failure" /\ n = "go" /\ kind = "workflow" /\ finish("aborting") /\ UNCHANGED branch
  BY <1>3, <1>5, <1>9, <1>13
<1>14. CASE /\ r = "success" /\ n \in {"go", "undo"} /\ ~(n = "go" /\ kind = "workflow")
            /\ record("succeed") /\ wk' = [wk EXCEPT ![w] = next]
  <2>1. RecordsResult(w, "succeed")
    BY <1>14 DEF RecordsResult
  <2> QED BY <1>7, <1>14, <2>1
<1>15. CASE /\ r = "failure" /\ n = "go" /\ kind = "saga"
            /\ record("failed") /\ finish("aborting")
  <2>1. RecordsResult(w, "failed")
    BY <1>15 DEF RecordsResult
  <2> QED BY <1>7, <1>15, <2>1
<1>16. CASE /\ r = "failure" /\ n = "undo" /\ kind = "saga"
            /\ record("failed") /\ EndRound(w)
  <2>1. RecordsResult(w, "failed")
    BY <1>16 DEF RecordsResult
  <2> QED BY <1>7, <1>16, <2>1
<1>17. CASE /\ r = "failure" /\ n \in {"go", "undo"} /\ kind \in {"tcc", "xa"}
            /\ record("failed") /\ EndRound(w)
  <2>1. RecordsResult(w, "failed")
    BY <1>17 DEF RecordsResult
  <2> QED BY <1>7, <1>17, <2>1
<1> QED BY <1>6, <1>10, <1>11, <1>12, <1>13, <1>14, <1>15, <1>16, <1>17 DEF Settle

LEMMA FinishRoundOK ==
  ASSUME RuntimeInv, NEW w \in Loops, FinishRound(w)
  PROVE  RuntimeInv'
<1> DEFINE to == wk[w].to
           next == [Idle EXCEPT !.pc = "process", !.st = to]
<1>1. /\ wk[w].pc = "finish" /\ UNCHANGED <<kind, host, handle, thread, task, queue, said>>
      /\ branch' = branch /\ aborted' = aborted
  BY DEF FinishRound, calls, history
<1>2. /\ wk[w] \in LoopType /\ SaidBeforeFinish(w) /\ DriveOK(w) /\ Active(w)
  BY <1>1, LoopFields DEF Active
<1>3. /\ to \in {"submitted", "aborting", "succeed", "failed"}
      /\ to = "succeed" => Yes \/ kind \in {"tcc", "xa"}
      /\ to = "aborting" => No
      /\ to = "failed" => (wk[w].st = "aborting" \/ (kind = "msg" /\ No)) /\ Undone
  BY <1>1, <1>2 DEF SaidBeforeFinish
<1>4. DbInv /\ branch \in [{"go", "undo"} -> BranchStatus \cup {"none"}] /\ aborted \in BOOLEAN
      /\ global # "absent"
  BY <1>2, Typed DEF RuntimeInv, DriveOK
<1>5. CASE global = wk[w].st /\ global' = to
  <2>1. RowsOK' /\ SaidInRows'
    BY <1>1, <1>3, <1>4, <1>5 DEF DbInv, RowsOK, SaidInRows
  <2>2. (Yes => Yes') /\ (No => No') /\ (Undone => Undone')
    BY <1>1 DEF Yes, No, Undone
  <2>3. SaidInStatus'
    <3>1. to = "succeed" => Yes' \/ kind \in {"tcc", "xa"}
      BY <1>3, <2>2
    <3>2. to \in {"aborting", "failed"} => aborted \/ No'
      BY <1>3, <1>4, <1>5, <2>2 DEF DbInv, SaidInStatus
    <3>3. to = "failed" => Undone'
      BY <1>3, <2>2
    <3> QED BY <1>1, <1>5, <3>1, <3>2, <3>3 DEF SaidInStatus
  <2>4. DbInv'
    BY <2>1, <2>3 DEF DbInv
  <2>5. global' \in GlobalStatus
    BY <1>3, <1>5 DEF GlobalStatus
  <2>6. Idle \in LoopType /\ Idle.task = 0 /\ Idle.pc = "idle"
    BY Records
  <2>7. CASE to \in {"submitted", "aborting"} /\ wk' = [wk EXCEPT ![w] = next]
    <3>1. next \in LoopType /\ next.pc = "process" /\ next.st = to /\ next.name = "none"
          /\ next.task = 0
      BY <2>7, Records DEF LoopType
    <3> HIDE DEF next
    <3> QED BY <1>1, <1>4, <1>5, <2>4, <2>5, <2>7, <3>1, LoopWrites
  <2>8. CASE wk' = [wk EXCEPT ![w] = Idle]
    BY <1>1, <1>4, <2>4, <2>5, <2>6, <2>8, LoopWrites
  <2> QED BY <1>5, <2>7, <2>8 DEF FinishRound, EndRound
<1>6. CASE EndRound(w) /\ UNCHANGED global
  <2>1. UNCHANGED <<db, history>>
    BY <1>1, <1>6 DEF db, history
  <2>2. thread[w].runs = "none" /\ driver = "up"
    BY <1>1, NoHostCode, DriverUp
  <2> QED BY <1>1, <1>6, <2>1, <2>2, LoopRests DEF EndRound
<1> QED BY <1>5, <1>6 DEF FinishRound

-----------------------------------------------------------------------------
(***************************************************************************)
(* A workflow function opens its branch, whether or not it is still heard. *)
(***************************************************************************)
LEMMA FunctionGoes ==
  ASSUME RuntimeInv, NEW w \in Loops, thread[w].runs = "function", NEW y \in ThreadType,
         thread' = [thread EXCEPT ![w] = y], y.runs = "function",
         UNCHANGED <<kind, host, handle, global, wk, task, queue, aborted>>,
         branch' \in [{"go", "undo"} -> BranchStatus \cup {"none"}], RowsOK', SaidInRows',
         said \subseteq said', said' \subseteq SaidType,
         y.err = "none" => Yes', y.err = "failure" => <<"go", "failure">> \in said'
  PROVE  RuntimeInv'
<1>1. /\ wk \in [Loops -> LoopType] /\ thread \in [Loops -> ThreadType]
      /\ task \in [1 .. MaxTasks -> TaskType] /\ queue \in Seq(1 .. MaxTasks)
      /\ LoopOK(w) /\ DriveOK(w)
      /\ wk[w].task # 0 => task[wk[w].task].name = wk[w].name
  BY LoopFields
<1>2. /\ thread' \in [Loops -> ThreadType] /\ thread'[w] = y /\ wk' = wk
      /\ \A v \in Loops \ {w} : thread'[v] = thread[v]
  BY <1>1
<1>3. driver' = driver
  BY DEF handle
<1>4. kind = "workflow" /\ global \in {"prepared", "submitted", "aborting"}
  BY <1>1 DEF LoopOK, DriveOK
<1>5. wk[w].pc \in {"calling", "gone"}
  BY <1>1, Records DEF LoopOK
<1>6. LoopOK(w)'
  BY <1>1, <1>2, <1>3 DEF LoopOK
<1>7. DriveOK(w)'
  BY <1>1, <1>2, <1>4 DEF DriveOK, Active
<1>8. SaidToLoop(w)' /\ SaidBeforeFinish(w)'
  BY <1>2, <1>5 DEF SaidToLoop, SaidBeforeFinish
<1>9. SaidByFunction(w)'
  BY <1>2 DEF SaidByFunction
<1>10. LoopInv(w)'
  BY <1>6, <1>7, <1>8, <1>9 DEF LoopInv
<1>11. DbInv'
  <2>1. No => No'
    BY KeptSaid
  <2>2. SaidInStatus
    BY DEF RuntimeInv, DbInv
  <2>3. SaidInStatus'
    BY <1>4, <2>1, <2>2 DEF SaidInStatus
  <2> QED BY <2>3 DEF DbInv
<1>12. aborted \in BOOLEAN /\ global \in GlobalStatus \cup {"absent"}
  BY Typed DEF RuntimeInv
<1>13. Active(w)' <=> Active(w)
  BY <1>2 DEF Active
<1> QED BY <1>1, <1>2, <1>10, <1>11, <1>12, <1>13, TasksKept, LoopMoves

LEMMA WfBranchRefusedOK ==
  ASSUME RuntimeInv, NEW w \in Loops, WfBranchRefused(w)
  PROVE  RuntimeInv'
<1> DEFINE y == [thread[w] EXCEPT !.opened = TRUE]
<1>1. /\ thread[w] \in ThreadType /\ thread \in [Loops -> ThreadType]
  BY LoopFields
<1>2. /\ thread[w].runs = "function" /\ thread[w].err = "none"
      /\ thread' = [thread EXCEPT ![w] = y] /\ said' = said \cup {<<"go", "refused">>}
      /\ UNCHANGED <<kind, host, handle, db, wk, task, queue, aborted>>
  BY <1>1 DEF WfBranchRefused
<1>3. y \in ThreadType /\ y.runs = "function" /\ y.err = "none"
  BY <1>1, <1>2 DEF ThreadType
<1> HIDE DEF y
<1>4. Yes' /\ said \subseteq said' /\ said' \subseteq SaidType
  <2>1. <<"go", "refused">> \in SaidType
    BY DEF SaidType, Name
  <2>2. Yes'
    BY <1>2 DEF Yes
  <2> QED BY <1>2, <2>1, <2>2, SaidTyped
<1>5. global' = global /\ branch' = branch
  BY <1>2 DEF db
<1>6. RowsOK' /\ SaidInRows'
  BY <1>2, <1>4, <1>5 DEF RuntimeInv, DbInv, RowsOK, SaidInRows
<1>7. branch \in [{"go", "undo"} -> BranchStatus \cup {"none"}]
  BY Typed DEF RuntimeInv
<1> QED BY <1>2, <1>3, <1>4, <1>5, <1>6, <1>7, FunctionGoes

LEMMA WfBranchOK ==
  ASSUME RuntimeInv, NEW w \in Loops, NEW r \in Result, WfBranch(w, r)
  PROVE  RuntimeInv'
<1>1. /\ thread[w] \in ThreadType /\ thread \in [Loops -> ThreadType] /\ LoopOK(w) /\ DriveOK(w)
  BY LoopFields
<1>2. /\ thread[w].runs = "function" /\ thread[w].err = "none"
      /\ UNCHANGED <<kind, host, handle, global, wk, task, queue, aborted>>
  BY DEF WfBranch
<1>3. kind = "workflow" /\ global # "absent"
  BY <1>1, <1>2 DEF LoopOK, DriveOK
<1>4. RowsOK /\ SaidInRows /\ branch \in [{"go", "undo"} -> BranchStatus \cup {"none"}]
  BY Typed DEF RuntimeInv, DbInv
<1>5. CASE branch["go"] = "succeed"
  <2> DEFINE y == [thread[w] EXCEPT !.opened = TRUE]
  <2>1. thread' = [thread EXCEPT ![w] = y] /\ branch' = branch /\ said' = said
    BY <1>1, <1>5 DEF WfBranch
  <2>2. y \in ThreadType /\ y.runs = "function" /\ y.err = "none"
    BY <1>1, <1>2 DEF ThreadType
  <2> HIDE DEF y
  <2>3. Yes' /\ said' \subseteq SaidType
    BY <1>4, <1>5, <2>1, SaidTyped DEF SaidInRows, Yes
  <2>4. RowsOK' /\ SaidInRows'
    BY <1>2, <1>4, <2>1 DEF RowsOK, SaidInRows
  <2> QED BY <1>2, <1>4, <2>1, <2>2, <2>3, <2>4, FunctionGoes
<1>6. CASE branch["go"] # "succeed"
  <2> DEFINE e == CASE r = "success" -> "none" [] r = "failure" -> "failure" [] OTHER -> "unknown"
             g == CASE r = "success" -> "succeed" [] r = "failure" -> "failed" [] OTHER -> "prepared"
             u == IF branch["undo"] = "none" THEN "prepared" ELSE branch["undo"]
             y == [thread[w] EXCEPT !.opened = TRUE, !.err = e]
  <2>1. /\ Says("go", r) /\ branch' = [go |-> g, undo |-> u]
        /\ thread' = [thread EXCEPT ![w] = y]
    BY <1>1, <1>6 DEF WfBranch
  <2>2. /\ e \in {"none", "failure", "unknown"} /\ g \in {"succeed", "failed", "prepared"}
        /\ (e = "none" \/ g = "succeed") => r = "success"
        /\ (e = "failure" \/ g = "failed") => r = "failure"
    BY DEF Result
  <2> HIDE DEF e, g
  <2>3. u \in BranchStatus /\ (u = branch["undo"] \/ u = "prepared")
    BY <1>4 DEF BranchStatus
  <2> HIDE DEF u
  <2>4. y \in ThreadType /\ y.runs = "function" /\ y.err = e
    BY <1>1, <1>2, <2>2 DEF ThreadType
  <2> HIDE DEF y
  <2>5. /\ said \subseteq said' /\ said' \subseteq SaidType
        /\ r = "success" => <<"go", "success">> \in said'
        /\ r = "failure" => <<"go", "failure">> \in said'
    BY <2>1, SaidTyped, SaysOK DEF Name
  <2>6. branch'["go"] = g /\ branch'["undo"] = u
    BY <2>1
  <2>7. branch' \in [{"go", "undo"} -> BranchStatus \cup {"none"}]
    BY <2>1, <2>2, <2>3 DEF BranchStatus
  <2>8. RowsOK'
    BY <1>2, <1>3 DEF RowsOK
  <2>9. SaidInRows'
    BY <1>4, <2>2, <2>3, <2>5, <2>6 DEF SaidInRows
  <2>10. (e = "none" => Yes') /\ (e = "failure" => <<"go", "failure">> \in said')
    BY <2>2, <2>5 DEF Yes
  <2> QED BY <1>2, <2>1, <2>4, <2>5, <2>7, <2>8, <2>9, <2>10, FunctionGoes
<1> QED BY <1>5, <1>6

-----------------------------------------------------------------------------
(***************************************************************************)
(* What the host asks for: the store moves, the workers do not.            *)
(***************************************************************************)
LEMMA DbMoves ==
  ASSUME RuntimeInv, UNCHANGED <<kind, host, handle, wk, calls, said>>, aborted' \in BOOLEAN,
         global' \in GlobalStatus \cup {"absent"},
         branch' \in [{"go", "undo"} -> BranchStatus \cup {"none"}],
         \/ global' = global \/ global = "absent"
         \/ global \in {"prepared", "submitted"} /\ global' \in {"submitted", "aborting"},
         \/ branch' = branch \/ global = "absent"
         \/ kind # "msg" /\ global # "aborting" /\ branch'["go"] # "none",
         DbInv'
  PROVE  RuntimeInv'
<1>1. /\ life' = life /\ inc' = inc /\ reg' = reg /\ driver' = driver /\ server' = server
      /\ thread' = thread /\ task' = task /\ queue' = queue
  BY DEF handle, calls
<1>2. \A v \in Loops : LoopInv(v)'
  <2>1. SUFFICES ASSUME NEW v \in Loops PROVE LoopInv(v)'
    OBVIOUS
  <2>2. global = "absent" => ~Active(v) /\ thread[v].runs = "none"
    BY LoopFields DEF DriveOK
  <2> QED BY <1>1, <2>2, Kept
<1>3. LifeOK' /\ Exclusion' /\ TasksOK'
  BY <1>1, TasksKept DEF RuntimeInv, LifeOK, Exclusion, Active
<1>4. RuntimeTypeOK'
  BY <1>1 DEF RuntimeInv, RuntimeTypeOK
<1> QED BY <1>2, <1>3, <1>4 DEF RuntimeInv

\* A transaction is new.
LEMMA CreatesOK ==
  ASSUME RuntimeInv, NEW s \in {"prepared", "submitted"}, NEW r \in {"none", "prepared"},
         Creates(s, r), kind \in {"saga", "msg"} => r = "prepared",
         UNCHANGED <<kind, host, handle, wk, calls, history>>
  PROVE  RuntimeInv'
<1>1. /\ global = "absent" /\ global' = s /\ branch' = [n \in {"go", "undo"} |-> r]
      /\ said' = said /\ aborted' = aborted /\ aborted \in BOOLEAN
  BY Typed DEF Creates, history, RuntimeInv
<1>2. branch' \in [{"go", "undo"} -> BranchStatus \cup {"none"}] /\ branch'["go"] = r
      /\ branch'["undo"] = r
  BY <1>1 DEF BranchStatus
<1>3. global' \in GlobalStatus
  BY <1>1 DEF GlobalStatus
<1>4. DbInv'
  BY <1>1, <1>2 DEF DbInv, RowsOK, SaidInRows, SaidInStatus
<1> QED BY <1>1, <1>2, <1>3, <1>4, DbMoves

LEMMA RegistersOK ==
  ASSUME RuntimeInv, kind \in {"tcc", "xa"}, Registers,
         UNCHANGED <<kind, host, handle, global, wk, calls, history>>
  PROVE  RuntimeInv'
<1>1. /\ global \in {"prepared", "submitted"} /\ branch["go"] = "none"
      /\ branch' = [n \in {"go", "undo"} |-> "prepared"]
      /\ said' = said /\ aborted' = aborted /\ aborted \in BOOLEAN
      /\ global \in GlobalStatus \cup {"absent"}
  BY Typed DEF Registers, history, RuntimeInv
<1>2. branch' \in [{"go", "undo"} -> BranchStatus \cup {"none"}] /\ branch'["go"] = "prepared"
      /\ branch'["undo"] = "prepared"
  BY <1>1 DEF BranchStatus
<1>3. DbInv'
  BY <1>1, <1>2 DEF RuntimeInv, DbInv, RowsOK, SaidInRows, SaidInStatus
<1> QED BY <1>1, <1>2, <1>3, DbMoves

LEMMA SubmitOK ==
  ASSUME RuntimeInv, Submit
  PROVE  RuntimeInv'
<1>1. /\ global = "prepared" /\ global' = "submitted" /\ branch' = branch
      /\ UNCHANGED <<kind, host, handle, wk, calls, said>> /\ aborted' = aborted
  BY DEF Submit, history
<1>2. /\ branch \in [{"go", "undo"} -> BranchStatus \cup {"none"}] /\ aborted \in BOOLEAN
  BY Typed DEF RuntimeInv
<1>3. DbInv' /\ global' \in GlobalStatus
  BY <1>1 DEF RuntimeInv, DbInv, RowsOK, SaidInRows, SaidInStatus, GlobalStatus
<1> QED BY <1>1, <1>2, <1>3, DbMoves

LEMMA AbortOK ==
  ASSUME RuntimeInv, Abort
  PROVE  RuntimeInv'
<1>1. /\ global \in {"prepared", "submitted"} /\ global' = "aborting" /\ branch' = branch
      /\ UNCHANGED <<kind, host, handle, wk, calls, said>> /\ aborted' = TRUE
  BY DEF Abort
<1>2. /\ branch \in [{"go", "undo"} -> BranchStatus \cup {"none"}]
  BY Typed DEF RuntimeInv
<1>3. DbInv' /\ global' \in GlobalStatus /\ aborted' \in BOOLEAN
  BY <1>1 DEF RuntimeInv, DbInv, RowsOK, SaidInRows, SaidInStatus, GlobalStatus
<1> QED BY <1>1, <1>2, <1>3, DbMoves

-----------------------------------------------------------------------------
(***************************************************************************)
(* The handle: it moves with the workers as they are, or takes them away.  *)
(***************************************************************************)
LEMMA HandleMoves ==
  ASSUME RuntimeInv, UNCHANGED <<kind, host, db, wk, calls, history>>,
         driver' = "up" <=> driver = "up",
         life' \in {"none", "opened", "bricked", "running", "stopping", "draining", "closed"},
         inc' \in 0 .. MaxInc,
         reg' \in [Name -> {"none", "native", "callback", "pull"}],
         driver' \in {"none", "up", "down"}, server' \in {"none", "up", "busy"},
         LifeOK'
  PROVE  RuntimeInv'
<1>1. /\ thread' = thread /\ task' = task /\ queue' = queue /\ global' = global
      /\ branch' = branch /\ said' = said /\ aborted' = aborted
  BY DEF calls, db, history
<1>2. \A v \in Loops : LoopInv(v)'
  BY <1>1, Kept
<1>3. DbInv'
  BY <1>1, DbKept DEF RuntimeInv
<1>4. Exclusion' /\ TasksOK'
  BY <1>1, TasksKept DEF RuntimeInv, Exclusion, Active
<1>5. RuntimeTypeOK'
  BY <1>1 DEF RuntimeInv, RuntimeTypeOK
<1> QED BY <1>2, <1>3, <1>4, <1>5 DEF RuntimeInv

\* Every worker is made anew: cancelled, or started with no host code running.
LEMMA LoopsReset ==
  ASSUME RuntimeInv, UNCHANGED <<kind, host, db, history>>, inc' = inc,
         NEW x \in {Idle, Gone}, wk' = [w \in Loops |-> x], driver' # "up" => x = Gone,
         \/ thread' = [w \in Loops |-> NoThread]
         \/ thread' = thread /\ host = "ffi" /\ driver' # "up"
         \/ thread' = thread /\ \A w \in Loops : thread[w] = NoThread,
         \/ UNCHANGED <<task, queue>>
         \/ task' = [i \in 1 .. MaxTasks |-> NoTask] /\ queue' = <<>>,
         life' \in {"none", "opened", "bricked", "running", "stopping", "draining", "closed"},
         reg' \in [Name -> {"none", "native", "callback", "pull"}],
         driver' \in {"none", "up", "down"}, server' \in {"none", "up", "busy"},
         LifeOK'
  PROVE  RuntimeInv'
<1>1. /\ RuntimeTypeOK /\ thread \in [Loops -> ThreadType]
      /\ task \in [1 .. MaxTasks -> TaskType] /\ queue \in Seq(1 .. MaxTasks)
  BY Typed DEF RuntimeInv
<1>2. global' = global /\ branch' = branch /\ said' = said /\ aborted' = aborted
  BY DEF db, history
<1>3. /\ x \in LoopType /\ x.pc \in {"idle", "gone"} /\ x.task = 0 /\ x.name = "none"
      /\ x.pc = "gone" => x = Gone
  BY Records
<1>4. /\ NoThread \in ThreadType /\ NoThread.runs = "none" /\ NoThread.opened = FALSE
      /\ NoThread.err = "none" /\ NoTask \in TaskType
  BY Records
<1>5. wk' \in [Loops -> LoopType] /\ \A w \in Loops : wk'[w] = x
  BY <1>3
<1>6. /\ thread' \in [Loops -> ThreadType]
      /\ \A w \in Loops : \/ thread'[w] = NoThread
                          \/ thread'[w] = thread[w] /\ host = "ffi" /\ driver' # "up"
  BY <1>1, <1>4
<1>7. \A w \in Loops : LoopInv(w)'
  <2>1. SUFFICES ASSUME NEW w \in Loops PROVE LoopInv(w)'
    OBVIOUS
  <2>2. LoopOK(w) /\ DriveOK(w) /\ SaidByFunction(w)
    BY LoopFields
  <2>3. wk'[w] = x
    BY <1>5
  <2>4. LoopOK(w)'
    BY <1>3, <1>4, <1>6, <2>2, <2>3 DEF LoopOK
  <2>5. DriveOK(w)'
    BY <1>2, <1>3, <1>4, <1>6, <2>2, <2>3 DEF DriveOK, Active
  <2>6. SaidToLoop(w)' /\ SaidBeforeFinish(w)'
    BY <1>3, <2>3 DEF SaidToLoop, SaidBeforeFinish
  <2>7. SaidByFunction(w)'
    BY <1>2, <1>4, <1>6, <2>2, KeptSaid DEF SaidByFunction
  <2> QED BY <2>4, <2>5, <2>6, <2>7 DEF LoopInv
<1>8. DbInv'
  BY <1>2, DbKept DEF RuntimeInv
<1>9. Exclusion'
  BY <1>3, <1>5 DEF Exclusion, Active
<1>10. TasksOK' /\ task' \in [1 .. MaxTasks -> TaskType] /\ queue' \in Seq(1 .. MaxTasks)
  <2>1. CASE UNCHANGED <<task, queue>>
    BY <1>1, <2>1, TasksKept
  <2>2. CASE task' = [i \in 1 .. MaxTasks |-> NoTask] /\ queue' = <<>>
    <3>1. queue' \in Seq(1 .. MaxTasks) /\ Len(queue') = 0
      BY <2>2, EmptySeq
    <3>2. \A i \in 1 .. MaxTasks : task'[i] = NoTask /\ NoTask.at = "none"
      BY <2>2, Records
    <3> QED BY <1>4, <2>2, <3>1, <3>2 DEF TasksOK
  <2> QED BY <2>1, <2>2
<1>11. RuntimeTypeOK'
  <2>1. \A w \in Loops : wk'[w].task = 0
    BY <1>3, <1>5
  <2> QED BY <1>1, <1>2, <1>5, <1>6, <1>10, <2>1
          DEF RuntimeTypeOK, LoopType, ThreadType, TaskType
<1> QED BY <1>7, <1>8, <1>9, <1>10, <1>11 DEF RuntimeInv

LEMMA HandleTyped ==
  ASSUME RuntimeInv
  PROVE  /\ life \in {"none", "opened", "bricked", "running", "stopping", "draining", "closed"}
         /\ inc \in 0 .. MaxInc /\ reg \in [Name -> {"none", "native", "callback", "pull"}]
         /\ driver \in {"none", "up", "down"} /\ server \in {"none", "up", "busy"}
         /\ host \in {"native", "ffi"} /\ LifeOK
         /\ wk \in [Loops -> LoopType] /\ thread \in [Loops -> ThreadType]
<1>1. RuntimeTypeOK /\ LifeOK
  BY DEF RuntimeInv
<1> QED BY <1>1, Typed, RuntimeAssumption DEF RuntimeTypeOK

LEMMA UnregisteredOK ==
  /\ Unregistered \in [Name -> {"none", "native", "callback", "pull"}]
  /\ Unregistered["go"] = "none"
BY DEF Unregistered, Name

LEMMA OpenOK ==
  ASSUME RuntimeInv, Open
  PROVE  RuntimeInv'
<1>1. /\ life \in {"none", "closed"} /\ inc < MaxInc /\ life' = "opened" /\ inc' = inc + 1
      /\ reg' = Unregistered /\ driver' = "none" /\ server' = server
      /\ UNCHANGED <<kind, host, db, wk, calls, history>> /\ thread' = thread
  BY DEF Open, calls
<1>2. inc' \in 0 .. MaxInc
  BY <1>1, HandleTyped, RuntimeAssumption
<1>3. LifeOK' /\ driver # "up"
  BY <1>1, HandleTyped, UnregisteredOK DEF LifeOK
<1> QED BY <1>1, <1>2, <1>3, HandleTyped, UnregisteredOK, HandleMoves

\* A handler is registered, one way or another.
LEMMA RegistrationOK ==
  ASSUME RuntimeInv, life = "opened", NEW n \in Name,
         NEW way \in {"native", "callback", "pull"}, reg' = [reg EXCEPT ![n] = way],
         kind = "workflow" /\ n = "go" => way # "pull",
         UNCHANGED <<kind, host, server, life, inc, driver, db, wk, calls, history>>
  PROVE  RuntimeInv'
<1>1. /\ reg \in [Name -> {"none", "native", "callback", "pull"}] /\ LifeOK
      /\ "go" \in Name /\ thread' = thread
  BY HandleTyped DEF Name, calls
<1>2. reg' \in [Name -> {"none", "native", "callback", "pull"}]
      /\ (kind = "workflow" => reg'["go"] # "pull")
  BY <1>1 DEF LifeOK
<1>3. LifeOK'
  BY <1>1, <1>2 DEF LifeOK
<1> QED BY <1>2, <1>3, HandleTyped, HandleMoves

LEMMA RegistrationsOK ==
  ASSUME RuntimeInv, NEW n \in Name,
         Handler(n) \/ PushHandler(n) \/ RegisterPull(n) \/ RegisterWorkflow
  PROVE  RuntimeInv'
<1>1. CASE Handler(n)
  BY <1>1, RegistrationOK DEF Handler
<1>2. CASE PushHandler(n)
  BY <1>2, RegistrationOK DEF PushHandler
<1>3. CASE RegisterPull(n)
  <2>1. PICK way \in {"callback", "pull"} : reg' = [reg EXCEPT ![n] = way]
    BY <1>3 DEF RegisterPull
  <2>2. /\ life = "opened" /\ (kind = "workflow" => n # "go")
        /\ UNCHANGED <<kind, host, server, life, inc, driver, db, wk, calls, history>>
    BY <1>3 DEF RegisterPull
  <2> QED BY <2>1, <2>2, RegistrationOK
<1>4. CASE RegisterWorkflow
  <2>1. "go" \in Name
    BY DEF Name
  <2> QED BY <1>4, <2>1, RegistrationOK DEF RegisterWorkflow
<1> QED BY <1>1, <1>2, <1>3, <1>4

LEMMA ServerOK ==
  ASSUME RuntimeInv, ServeTopicApi \/ Request \/ Responds \/ ServerStops
  PROVE  RuntimeInv'
<1>1. /\ life \in {"running", "stopping"} /\ server' \in {"none", "up", "busy"}
      /\ UNCHANGED <<kind, host, life, inc, reg, driver, db, wk, calls, history>>
  BY DEF ServeTopicApi, Request, Responds, ServerStops
<1>2. LifeOK'
  BY <1>1, HandleTyped DEF LifeOK
<1> QED BY <1>1, <1>2, HandleTyped, HandleMoves

LEMMA CloseOK ==
  ASSUME RuntimeInv, Close
  PROVE  RuntimeInv'
<1>1. /\ \/ life = "running" /\ life' = "stopping"
         \/ life \in {"opened", "bricked"} /\ life' = "closed"
      /\ UNCHANGED <<kind, host, server, inc, reg, driver, db, wk, calls, history>>
      /\ thread' = thread
  BY DEF Close, calls
<1>2. LifeOK'
  BY <1>1, HandleTyped DEF LifeOK
<1> QED BY <1>1, <1>2, HandleTyped, HandleMoves

LEMMA ShutdownReturnsOK ==
  ASSUME RuntimeInv, ShutdownReturns
  PROVE  RuntimeInv'
<1>1. /\ server = "none" /\ driver = "down" /\ life' = "draining"
      /\ UNCHANGED <<kind, host, server, inc, reg, driver, db, wk, calls, history>>
  BY DEF ShutdownReturns
<1>2. LifeOK'
  BY <1>1, HandleTyped DEF LifeOK
<1> QED BY <1>1, <1>2, HandleTyped, HandleMoves

LEMMA StartOK ==
  ASSUME RuntimeInv, Start
  PROVE  RuntimeInv'
<1>1. /\ life = "opened" /\ UNCHANGED <<kind, host, server, inc, reg, db, calls, history>>
      /\ thread' = thread /\ UNCHANGED <<task, queue>>
  BY DEF Start, calls
<1>2. \A w \in Loops : thread[w] = NoThread
  BY <1>1, HandleTyped DEF LifeOK
<1>3. CASE life' = "running" /\ driver' = "up" /\ wk' = [w \in Loops |-> Idle]
  <2>1. LifeOK'
    BY <1>1, <1>3, HandleTyped DEF LifeOK
  <2> QED BY <1>1, <1>2, <1>3, <2>1, HandleTyped, LoopsReset
<1>4. CASE life' = "bricked" /\ UNCHANGED <<driver, wk>>
  <2>1. LifeOK'
    BY <1>1, <1>4, HandleTyped DEF LifeOK
  <2> QED BY <1>1, <1>4, <2>1, HandleTyped, HandleMoves
<1> QED BY <1>3, <1>4 DEF Start, Spawn

\* run_until ends while the handle is up or stopping.
LEMMA RunEnds ==
  ASSUME RuntimeInv, driver = "up", driver' = "down", wk' = [w \in Loops |-> Gone],
         \/ thread' = [w \in Loops |-> NoThread]
         \/ thread' = thread /\ host = "ffi"
         \/ thread' = thread /\ \A w \in Loops : thread[w] = NoThread,
         UNCHANGED <<kind, host, server, life, inc, reg, db, task, queue, history>>
  PROVE  RuntimeInv'
<1>1. life \in {"running", "stopping"}
  BY HandleTyped DEF LifeOK
<1>2. LifeOK'
  BY <1>1, HandleTyped DEF LifeOK
<1> QED BY <1>2, HandleTyped, LoopsReset

LEMMA JoinNextOK ==
  ASSUME RuntimeInv, JoinNext
  PROVE  RuntimeInv'
<1>1. /\ driver = "up" /\ driver' = "down"
      /\ UNCHANGED <<kind, host, server, life, inc, reg, db, task, queue, history>>
  BY DEF JoinNext
<1>2. CASE (\A w \in Loops : wk[w] = Gone) /\ UNCHANGED <<wk, thread>>
  <2>1. wk' = [w \in Loops |-> Gone]
    BY <1>2, HandleTyped
  <2>2. \A w \in Loops : thread[w] = NoThread
    BY <1>1, <1>2, LoopFields, Records DEF LoopOK
  <2> QED BY <1>1, <1>2, <2>1, <2>2, RunEnds
<1>3. CASE DropSet
  BY <1>1, <1>3, HandleTyped, RunEnds DEF DropSet
<1> QED BY <1>2, <1>3 DEF JoinNext

LEMMA GraceExpiresOK ==
  ASSUME RuntimeInv, GraceExpires
  PROVE  RuntimeInv'
BY HandleTyped, RunEnds DEF GraceExpires, DropSet

LEMMA ClosedOK ==
  ASSUME RuntimeInv, Closed
  PROVE  RuntimeInv'
<1>1. /\ life = "draining" /\ (host = "ffi" => \A w \in Loops : thread[w] = NoThread)
      /\ life' = "closed" /\ task' = [i \in 1 .. MaxTasks |-> NoTask] /\ queue' = <<>>
      /\ UNCHANGED <<kind, host, server, inc, reg, driver, db, wk, thread, history>>
  BY DEF Closed
<1>2. driver # "up" /\ server = "none"
  BY <1>1, HandleTyped DEF LifeOK
<1>3. \A w \in Loops : wk[w] = Gone /\ thread[w] = NoThread
  BY <1>1, <1>2, HandleTyped, LoopFields DEF LoopOK
<1>4. wk' = [w \in Loops |-> Gone]
  BY <1>1, <1>3, HandleTyped
<1>5. LifeOK'
  BY <1>1, <1>2, <1>3, HandleTyped DEF LifeOK
<1> QED BY <1>1, <1>2, <1>3, <1>4, <1>5, HandleTyped, LoopsReset

LEMMA DieOK ==
  ASSUME RuntimeInv, Die
  PROVE  RuntimeInv'
<1>1. /\ life' = "none" /\ driver' = "none" /\ reg' = Unregistered /\ server' = "none"
      /\ wk' = [w \in Loops |-> Gone] /\ thread' = [w \in Loops |-> NoThread]
      /\ task' = [i \in 1 .. MaxTasks |-> NoTask] /\ queue' = <<>>
      /\ UNCHANGED <<kind, host, inc, db, history>>
  BY DEF Die
<1>2. LifeOK'
  BY <1>1, UnregisteredOK DEF LifeOK
<1> QED BY <1>1, <1>2, UnregisteredOK, LoopsReset

-----------------------------------------------------------------------------
(***************************************************************************)
(* The theorems.                                                           *)
(***************************************************************************)
LEMMA RuntimeInitOK == RuntimeInit => RuntimeInv
<1> SUFFICES ASSUME RuntimeInit PROVE RuntimeInv
  OBVIOUS
<1>1. /\ Gone \in LoopType /\ NoThread \in ThreadType /\ NoTask \in TaskType
      /\ <<>> \in Seq(1 .. MaxTasks) /\ Len(<<>>) = 0
  BY Records, EmptySeq
<1>2. \A w \in Loops : wk[w] = Gone /\ thread[w] = NoThread
  BY DEF RuntimeInit
<1>3. RuntimeTypeOK
  <2>1. wk \in [Loops -> LoopType] /\ thread \in [Loops -> ThreadType]
        /\ task \in [1 .. MaxTasks -> TaskType] /\ queue \in Seq(1 .. MaxTasks)
    BY <1>1 DEF RuntimeInit
  <2>2. \A w \in Loops : wk[w].task = 0
    BY <1>2, Records
  <2>3. 0 \in 0 .. MaxInc
    BY RuntimeAssumption
  <2>4. branch \in [{"go", "undo"} -> BranchStatus \cup {"none"}] /\ global = "absent"
    BY DEF RuntimeInit
  <2> QED BY <2>1, <2>2, <2>3, <2>4, UnregisteredOK
          DEF RuntimeInit, RuntimeTypeOK, LoopType, ThreadType, TaskType
<1>4. LifeOK /\ Exclusion
  BY <1>2, Records, UnregisteredOK DEF RuntimeInit, LifeOK, Exclusion, Active
<1>5. TasksOK
  <2>1. Len(queue) = 0
    BY <1>1 DEF RuntimeInit
  <2> QED BY <2>1, Records DEF RuntimeInit, TasksOK
<1>6. DbInv
  BY DEF RuntimeInit, DbInv, RowsOK, SaidInRows, SaidInStatus
<1>7. \A w \in Loops : LoopInv(w)
  <2>1. SUFFICES ASSUME NEW w \in Loops PROVE LoopInv(w)
    OBVIOUS
  <2>2. wk[w] = Gone /\ thread[w] = NoThread
    BY <1>2
  <2>3. LoopOK(w) /\ DriveOK(w)
    BY <2>2, Records DEF LoopOK, DriveOK, Active
  <2>4. SaidToLoop(w) /\ SaidByFunction(w) /\ SaidBeforeFinish(w)
    BY <2>2, Records DEF SaidToLoop, SaidByFunction, SaidBeforeFinish
  <2> QED BY <2>3, <2>4 DEF LoopInv
<1> QED BY <1>3, <1>4, <1>5, <1>6, <1>7 DEF RuntimeInv

LEMMA RuntimeNextOK == RuntimeInv /\ [RuntimeNext]_rtVars => RuntimeInv'
<1> SUFFICES ASSUME RuntimeInv, [RuntimeNext]_rtVars PROVE RuntimeInv'
  OBVIOUS
<1>1. CASE UNCHANGED rtVars
  <2>1. /\ UNCHANGED <<kind, host, db, wk, calls, history>> /\ thread' = thread
        /\ life' = life /\ inc' = inc /\ reg' = reg /\ driver' = driver /\ server' = server
    BY <1>1 DEF rtVars, db, calls, history
  <2>2. LifeOK'
    BY <2>1, HandleTyped DEF LifeOK
  <2> QED BY <2>1, <2>2, HandleTyped, HandleMoves
<1>2. CASE Open \/ Start \/ JoinNext \/ Close \/ GraceExpires \/ ShutdownReturns \/ Closed \/ Die
  BY <1>2, OpenOK, StartOK, JoinNextOK, CloseOK, GraceExpiresOK, ShutdownReturnsOK, ClosedOK, DieOK
<1>3. CASE ServeTopicApi \/ Request \/ Responds \/ ServerStops
  BY <1>3, ServerOK
<1>4. CASE RegisterWorkflow \/ \E n \in Uses : Handler(n) \/ PushHandler(n) \/ RegisterPull(n)
  <2>1. Uses \subseteq Name /\ "go" \in Name
    BY DEF Uses, Name
  <2> QED BY <1>4, <2>1, RegistrationsOK
<1>5. CASE SubmitSaga \/ SubmitWorkflow \/ MsgPrepare \/ TccBegin \/ XaBegin
  <2>1. CASE SubmitSaga
    BY <2>1, CreatesOK DEF SubmitSaga
  <2>2. CASE SubmitWorkflow
    BY <2>2, CreatesOK DEF SubmitWorkflow
  <2>3. CASE MsgPrepare
    BY <2>3, CreatesOK DEF MsgPrepare
  <2>4. CASE TccBegin \/ XaBegin
    BY <2>4, CreatesOK DEF TccBegin, XaBegin
  <2> QED BY <1>5, <2>1, <2>2, <2>3, <2>4
<1>6. CASE TccRegister \/ XaRegister
  BY <1>6, RegistersOK DEF TccRegister, XaRegister
<1>7. CASE Submit \/ Abort
  BY <1>7, SubmitOK, AbortOK
<1>8. ASSUME NEW w \in Loops,
             \/ LockOne(w) \/ Stop(w) \/ Process(w) \/ PreparedTimeout(w) \/ PutBack(w)
             \/ Settle(w) \/ FinishRound(w)
      PROVE  RuntimeInv'
  BY <1>8, LockOneOK, StopOK, ProcessOK, PreparedTimeoutOK, PutBackOK, SettleOK, FinishRoundOK
<1>9. ASSUME NEW w \in Loops,
             \/ NativePanics(w) \/ EndsUnheard(w) \/ PullTimeout(w) \/ WfBranchRefused(w)
             \/ \E r \in Result : NativeReturns(w, r) \/ WfBranch(w, r)
             \/ \E c \in Codes : CallbackReturns(w, c) \/ FunctionReturns(w, c)
      PROVE  RuntimeInv'
  BY <1>9, NativePanicsOK, EndsUnheardOK, PullTimeoutOK, WfBranchRefusedOK, NativeReturnsOK,
     WfBranchOK, CallbackReturnsOK, FunctionReturnsOK
<1>10. CASE \/ NextTask \/ NextTaskTooSmall
            \/ \E i \in 1 .. MaxTasks, c \in Codes : Reply(i, c)
  BY <1>10, NextTaskOK, NextTaskTooSmallOK, ReplyOK
<1> QED BY <1>1, <1>2, <1>3, <1>4, <1>5, <1>6, <1>7, <1>8, <1>9, <1>10 DEF RuntimeNext

\* At most one worker drives the transaction, what it knows the host has said, and
\* host code runs only for a worker that waits for it or was cancelled by the
\* shutdown, whatever the number of workers, handles and tasks (Driver::run_until,
\* call_local, PullQueue, run_host_workflow).
THEOREM RuntimeInvariant == RuntimeSpec => []RuntimeInv
BY RuntimeInitOK, RuntimeNextOK, PTL DEF RuntimeSpec

\* The answer a worker waits for is the answer to its own call.
THEOREM RuntimeTypes == RuntimeSpec => []RuntimeTypeOK
<1>1. RuntimeInv => RuntimeTypeOK
  BY DEF RuntimeInv
<1> QED BY <1>1, RuntimeInvariant, PTL

\* Only what the host really said moves a transaction, whatever handle, process,
\* thread or pulled task it was said through.
THEOREM HostDecides == RuntimeSpec => []OnlyHostDecides
<1>1. RuntimeInv => OnlyHostDecides
  <2> SUFFICES ASSUME RuntimeInv PROVE OnlyHostDecides
    OBVIOUS
  <2>1. SaidInRows /\ SaidInStatus
    BY DEF RuntimeInv, DbInv
  <2>2. global = "succeed" => Yes \/ (kind \in {"tcc", "xa"} /\ branch["go"] # "succeed")
    BY <2>1 DEF SaidInRows, SaidInStatus, Yes
  <2>3. global \in {"aborting", "failed"} => aborted \/ No
    BY <2>1 DEF SaidInStatus
  <2>4. global = "failed" /\ branch["undo"] # "none" /\ kind # "msg" =>
          <<"undo", "success">> \in said \/ (kind = "saga" /\ <<"undo", "failure">> \in said)
    BY <2>1 DEF SaidInStatus, Undone
  <2> QED BY <2>2, <2>3, <2>4 DEF OnlyHostDecides, Yes, No
<1> QED BY <1>1, RuntimeInvariant, PTL

\* Once run_until has ended no worker of it drives, and after dtmrs_close no host
\* code runs and the topic API has let go of the store.
THEOREM CloseIsQuiet == RuntimeSpec => []QuietAfterClose
<1>1. RuntimeInv => QuietAfterClose
  BY DEF RuntimeInv, LoopInv, LoopOK, LifeOK, QuietAfterClose
<1> QED BY <1>1, RuntimeInvariant, PTL

-----------------------------------------------------------------------------
(***************************************************************************)
(* Access tokens.  A list, and so the copy made of it, is right about      *)
(* every token that has not changed since the reading of it began, and     *)
(* that is less than Latency before it is put in place.                    *)
(***************************************************************************)

\* A list under way is that of a request, and no older than Latency.
PendingOK(r) ==
  /\ req[r].pc # "idle" => req[r].inst \in Instances /\ req[r].token \in Tokens
  /\ req[r].pc \in {"list", "reading"} => req[r].at <= clock /\ clock - req[r].at <= Latency
  /\ req[r].pc = "list" => req[r].list = {} /\ req[r].todo = {}
  /\ req[r].pc = "reading" => req[r].list \cap req[r].todo = {}

\* What has been read so far.
ListSays(r, t) == t \notin req[r].todo => (t \in req[r].list <=> t \in ActiveTokens)
CopySays(i, t) == t \in cache[i].set <=> t \in ActiveTokens

ListOK(r) ==
  req[r].pc = "reading" => \A t \in Tokens : since[t] < req[r].at => ListSays(r, t)

CheckOK(r) ==
  req[r].pc = "check" /\ ~req[r].failed =>
    \A t \in Tokens : clock - since[t] >= Ttl + Latency => CopySays(req[r].inst, t)

\* Where the last change was made nothing older is left, nor under way.
SureOK(r) ==
  sure[req[r].inst] =>
    /\ req[r].pc = "reading" => \A t \in Tokens : ListSays(r, t)
    /\ req[r].pc = "check" /\ ~req[r].failed => \A t \in Tokens : CopySays(req[r].inst, t)

CopyOK(i) ==
  /\ cache[i].at <= clock
  /\ \A t \in Tokens : since[t] < cache[i].at - Latency => CopySays(i, t)
  /\ sure[i] /\ cache[i].at # Expired => \A t \in Tokens : CopySays(i, t)

PendingInv(r) ==
  PendingOK(r) /\ ListOK(r) /\ CheckOK(r) /\ (req[r].pc # "idle" => SureOK(r))

AuthInv ==
  /\ AuthTypeOK
  /\ \A t \in Tokens : since[t] <= clock
  /\ \A r \in Requests : PendingInv(r)
  /\ \A i \in Instances : CopyOK(i)

RequestType ==
  [pc : {"idle", "list", "reading", "check"},
   inst : Instances \cup {"none"}, token : Tokens \cup {"none"},
   list : SUBSET Tokens, todo : SUBSET Tokens,
   at : 0 .. MaxClock, failed : BOOLEAN]
CopyType == [set : SUBSET Tokens, at : -Ttl .. MaxClock]

LEMMA AuthTyped ==
  ASSUME AuthInv
  PROVE  /\ clock \in 0 .. MaxClock /\ Ttl \in Nat /\ Ttl > 0 /\ Latency \in Nat
         /\ MaxClock \in Nat /\ clock \in Int /\ clock >= 0
         /\ table \in [Tokens -> {"absent", "active", "revoked"}]
         /\ cache \in [Instances -> CopyType] /\ req \in [Requests -> RequestType]
         /\ since \in [Tokens -> 0 .. MaxClock] /\ sure \in [Instances -> BOOLEAN]
         /\ session \in [Instances -> BOOLEAN]
         /\ admin \in [Instances -> {"idle", "invalidate"}] /\ backend \in Backends
<1>1. AuthTypeOK
  BY DEF AuthInv
<1>2. Ttl \in Nat /\ Ttl > 0 /\ Latency \in Nat /\ MaxClock \in Nat
  BY AuthAssumption
<1>3. clock \in Int /\ clock >= 0
  BY <1>1, <1>2 DEF AuthTypeOK
<1> QED BY <1>1, <1>2, <1>3 DEF AuthTypeOK, RequestType, CopyType

LEMMA NoRequestOK ==
  ASSUME AuthInv
  PROVE  /\ NoRequest \in RequestType /\ NoRequest.pc = "idle"
         /\ NoRequest.list = {} /\ NoRequest.todo = {}
<1>1. 0 \in 0 .. MaxClock
  BY AuthTyped
<1> QED BY <1>1 DEF NoRequest, RequestType

LEMMA TimesTyped ==
  ASSUME AuthInv
  PROVE  /\ \A t \in Tokens : since[t] \in Int /\ since[t] >= 0 /\ since[t] <= clock
         /\ \A i \in Instances : cache[i].at \in Int /\ cache[i].at <= clock
         /\ \A r \in Requests : req[r].at \in Int
<1>1. \A t \in Tokens : since[t] \in 0 .. MaxClock
  BY AuthTyped
<1>2. \A i \in Instances : cache[i].at \in -Ttl .. MaxClock
  BY AuthTyped DEF CopyType
<1>3. \A r \in Requests : req[r].at \in 0 .. MaxClock
  BY AuthTyped DEF RequestType
<1>4. \A t \in Tokens : since[t] <= clock
  BY DEF AuthInv
<1>5. \A i \in Instances : cache[i].at <= clock
  BY DEF AuthInv, CopyOK
<1> QED BY <1>1, <1>2, <1>3, <1>4, <1>5, AuthTyped

\* One request goes on; nothing else moves.
LEMMA RequestGoes ==
  ASSUME AuthInv, NEW r \in Requests, NEW q \in RequestType, Goto(r, q),
         UNCHANGED <<backend, clock, table, cache, session, admin, since, sure>>,
         PendingInv(r)'
  PROVE  AuthInv'
<1>1. req \in [Requests -> RequestType]
  BY AuthTyped
<1>2. req' \in [Requests -> RequestType] /\ \A s \in Requests \ {r} : req'[s] = req[s]
  BY <1>1 DEF Goto
<1>3. AuthTypeOK'
  BY <1>2 DEF AuthInv, AuthTypeOK, RequestType
<1>4. \A s \in Requests : PendingInv(s)'
  <2>1. SUFFICES ASSUME NEW s \in Requests \ {r} PROVE PendingInv(s)'
    OBVIOUS
  <2>2. PendingInv(s) /\ req'[s] = req[s]
    BY <1>2 DEF AuthInv
  <2>3. /\ \A t \in Tokens : ListSays(s, t)' <=> ListSays(s, t)
        /\ \A t \in Tokens : CopySays(req[s].inst, t)' <=> CopySays(req[s].inst, t)
    BY <2>2 DEF ListSays, CopySays, ActiveTokens
  <2>4. PendingOK(s)'
    BY <2>2 DEF PendingInv, PendingOK
  <2>5. ListOK(s)'
    BY <2>2, <2>3 DEF PendingInv, ListOK
  <2>6. CheckOK(s)'
    BY <2>2, <2>3 DEF PendingInv, CheckOK, CopySays, ActiveTokens
  <2>7. req[s].pc # "idle" => SureOK(s)'
    BY <2>2, <2>3 DEF PendingInv, SureOK, CopySays, ActiveTokens
  <2> QED BY <2>2, <2>4, <2>5, <2>6, <2>7 DEF PendingInv
<1>5. \A i \in Instances : CopyOK(i)'
  BY DEF AuthInv, CopyOK, CopySays, ActiveTokens
<1> QED BY <1>3, <1>4, <1>5 DEF AuthInv

LEMMA PresentOK ==
  ASSUME AuthInv, NEW r \in Requests, NEW i \in Instances, NEW t \in Tokens, Present(r, i, t)
  PROVE  AuthInv'
<1> DEFINE pc == IF NeedRefresh(i) THEN "list" ELSE "check"
           q == [NoRequest EXCEPT !.pc = pc, !.inst = i, !.token = t,
                                  !.at = IF pc = "list" THEN clock ELSE 0]
<1>1. /\ Goto(r, q)
      /\ UNCHANGED <<backend, clock, table, cache, session, admin, since, sure>>
  BY DEF Present
<1>2. 0 \in 0 .. MaxClock /\ clock \in 0 .. MaxClock /\ clock \in Int /\ Latency \in Nat
  BY AuthTyped
<1>3. /\ q \in RequestType /\ q.pc = pc /\ q.inst = i /\ q.token = t
      /\ q.list = {} /\ q.todo = {} /\ (pc = "list" => q.at = clock)
  BY <1>2, NoRequestOK DEF RequestType
<1>4. req'[r] = q
  BY <1>1, AuthTyped DEF Goto
<1>5. pc \in {"list", "check"} /\ (pc = "check" => ~NeedRefresh(i))
  OBVIOUS
<1> HIDE DEF q, pc
<1>6. PendingOK(r)'
  BY <1>1, <1>2, <1>3, <1>4, <1>5 DEF PendingOK
<1>7. ListOK(r)'
  BY <1>3, <1>4, <1>5 DEF ListOK
<1>8. CopyOK(i) /\ \A s \in Tokens : CopySays(i, s)' <=> CopySays(i, s)
  BY <1>1 DEF AuthInv, CopySays, ActiveTokens
<1>9. CheckOK(r)'
  <2>1. SUFFICES ASSUME pc = "check", NEW s \in Tokens, clock - since[s] >= Ttl + Latency
                 PROVE  CopySays(i, s)
    BY <1>1, <1>3, <1>4, <1>8 DEF CheckOK, CopySays, ActiveTokens
  <2>2. ~(clock - cache[i].at >= Ttl)
    BY <1>5, <2>1 DEF NeedRefresh
  <2>3. since[s] < cache[i].at - Latency
    BY <2>1, <2>2, AuthTyped, TimesTyped
  <2> QED BY <1>8, <2>3 DEF CopyOK
<1>10. SureOK(r)'
  <2>1. SUFFICES ASSUME pc = "check", sure[i] PROVE \A s \in Tokens : CopySays(i, s)
    BY <1>1, <1>3, <1>4, <1>5, <1>8 DEF SureOK, CopySays, ActiveTokens
  <2>2. ~(clock - cache[i].at >= Ttl)
    BY <1>5, <2>1 DEF NeedRefresh
  <2>3. cache[i].at # Expired
    BY <2>2, AuthTyped DEF Expired
  <2> QED BY <1>8, <2>1, <2>3 DEF CopyOK
<1>11. PendingInv(r)'
  BY <1>6, <1>7, <1>9, <1>10 DEF PendingInv
<1> QED BY <1>1, <1>3, <1>11, RequestGoes

\* A list is read, wholly or in part.
LEMMA ReadingOK ==
  ASSUME AuthInv, NEW r \in Requests, NEW q \in RequestType, Goto(r, q),
         UNCHANGED <<backend, clock, table, cache, session, admin, since, sure>>,
         req[r].pc \in {"list", "reading"}, q.pc = "reading", q.inst = req[r].inst,
         q.token = req[r].token, q.at = req[r].at, q.list \cap q.todo = {},
         \A t \in Tokens : t \notin q.todo =>
           \/ t \in q.list <=> t \in ActiveTokens
           \/ req[r].pc = "reading" /\ t \notin req[r].todo /\ (t \in q.list <=> t \in req[r].list)
  PROVE  AuthInv'
<1>1. PendingInv(r)
  BY DEF AuthInv
<1>2. req'[r] = q /\ ActiveTokens' = ActiveTokens
  BY AuthTyped DEF Goto, ActiveTokens
<1>3. \A t \in Tokens : ListSays(r, t)' \/ (req[r].pc = "reading" /\ ~ListSays(r, t))
  BY <1>2 DEF ListSays
<1>4. PendingOK(r)'
  BY <1>1, <1>2 DEF PendingInv, PendingOK
<1>5. ListOK(r)'
  <2>1. SUFFICES ASSUME NEW t \in Tokens, since[t] < req[r].at PROVE ListSays(r, t)'
    BY <1>2 DEF ListOK
  <2> QED BY <1>1, <1>3, <2>1 DEF PendingInv, ListOK
<1>6. CheckOK(r)'
  BY <1>2 DEF CheckOK
<1>7. SureOK(r)'
  <2>1. SUFFICES ASSUME NEW t \in Tokens, sure[req[r].inst] PROVE ListSays(r, t)'
    BY <1>2 DEF SureOK
  <2> QED BY <1>1, <1>3, <2>1 DEF PendingInv, SureOK
<1>8. PendingInv(r)'
  BY <1>4, <1>5, <1>6, <1>7 DEF PendingInv
<1> QED BY <1>8, RequestGoes

LEMMA ListSqlOK ==
  ASSUME AuthInv, NEW r \in Requests, ListSql(r)
  PROVE  AuthInv'
<1> DEFINE q == [req[r] EXCEPT !.pc = "reading", !.list = ActiveTokens]
<1>1. req[r] \in RequestType /\ ActiveTokens \in SUBSET Tokens
  BY AuthTyped DEF ActiveTokens
<1>2. /\ q \in RequestType /\ q.pc = "reading" /\ q.inst = req[r].inst
      /\ q.token = req[r].token /\ q.at = req[r].at /\ q.list = ActiveTokens
      /\ q.todo = req[r].todo
  BY <1>1 DEF RequestType
<1>3. /\ Goto(r, q) /\ req[r].pc = "list"
      /\ UNCHANGED <<backend, clock, table, cache, session, admin, since, sure>>
  BY DEF ListSql
<1> HIDE DEF q
<1>4. q.todo = {}
  BY <1>2, <1>3 DEF AuthInv, PendingInv, PendingOK
<1> QED BY <1>2, <1>3, <1>4, ReadingOK

LEMMA SMembersOK ==
  ASSUME AuthInv, NEW r \in Requests, SMembers(r)
  PROVE  AuthInv'
<1> DEFINE all == {t \in Tokens : table[t] # "absent"}
           q == [req[r] EXCEPT !.pc = "reading", !.todo = all]
<1>1. req[r] \in RequestType /\ all \in SUBSET Tokens /\ PendingOK(r)
      /\ \A t \in Tokens : t \notin all => t \notin ActiveTokens
  BY AuthTyped DEF ActiveTokens, AuthInv, PendingInv
<1>2. /\ Goto(r, q) /\ req[r].pc = "list"
      /\ UNCHANGED <<backend, clock, table, cache, session, admin, since, sure>>
  BY DEF SMembers
<1> HIDE DEF all
<1>3. /\ q \in RequestType /\ q.pc = "reading" /\ q.inst = req[r].inst
      /\ q.token = req[r].token /\ q.at = req[r].at /\ q.list = req[r].list /\ q.todo = all
  BY <1>1 DEF RequestType
<1>4. req[r].list = {}
  BY <1>1, <1>2 DEF PendingOK
<1> HIDE DEF q
<1> QED BY <1>1, <1>2, <1>3, <1>4, ReadingOK

LEMMA HGetAllOK ==
  ASSUME AuthInv, NEW r \in Requests, NEW t \in Tokens, HGetAll(r, t)
  PROVE  AuthInv'
<1> DEFINE rest == req[r].todo \ {t}
           more == req[r].list \cup ({t} \cap ActiveTokens)
           q == [req[r] EXCEPT !.todo = rest, !.list = more]
<1>1. req[r] \in RequestType
  BY AuthTyped
<1>2. rest \in SUBSET Tokens /\ more \in SUBSET Tokens
  BY <1>1 DEF ActiveTokens, RequestType
<1>3. /\ Goto(r, q) /\ req[r].pc = "reading" /\ t \in req[r].todo
      /\ UNCHANGED <<backend, clock, table, cache, session, admin, since, sure>>
  BY DEF HGetAll
<1>4. /\ q \in RequestType /\ q.pc = "reading" /\ q.inst = req[r].inst
      /\ q.token = req[r].token /\ q.at = req[r].at /\ q.list = more /\ q.todo = rest
  <2> HIDE DEF rest, more
  <2> QED BY <1>1, <1>2, <1>3 DEF RequestType
<1> HIDE DEF q
<1>5. req[r].list \cap req[r].todo = {}
  BY <1>3 DEF AuthInv, PendingInv, PendingOK
<1>6. t \in more <=> t \in ActiveTokens
  BY <1>3, <1>5
<1>7. \A s \in Tokens \ {t} : (s \in more <=> s \in req[r].list) /\ (s \in rest <=> s \in req[r].todo)
  OBVIOUS
<1>8. more \cap rest = {}
  BY <1>5
<1> HIDE DEF rest, more
<1>9. \A s \in Tokens : s \notin q.todo =>
        \/ s \in q.list <=> s \in ActiveTokens
        \/ req[r].pc = "reading" /\ s \notin req[r].todo /\ (s \in q.list <=> s \in req[r].list)
  BY <1>3, <1>4, <1>6, <1>7
<1> QED BY <1>3, <1>4, <1>8, <1>9, ReadingOK

LEMMA ListFailsOK ==
  ASSUME AuthInv, NEW r \in Requests, ListFails(r)
  PROVE  AuthInv'
<1> DEFINE q == [req[r] EXCEPT !.pc = "check", !.list = {}, !.todo = {}, !.at = 0, !.failed = TRUE]
<1>1. req[r] \in RequestType /\ 0 \in 0 .. MaxClock /\ PendingOK(r)
  BY AuthTyped DEF AuthInv, PendingInv
<1>2. /\ Goto(r, q) /\ req[r].pc \in {"list", "reading"}
      /\ UNCHANGED <<backend, clock, table, cache, session, admin, since, sure>>
  BY DEF ListFails
<1>3. /\ q \in RequestType /\ q.pc = "check" /\ q.inst = req[r].inst /\ q.token = req[r].token
      /\ q.failed = TRUE
  BY <1>1 DEF RequestType
<1>4. req'[r] = q
  BY <1>2, AuthTyped DEF Goto
<1> HIDE DEF q
<1>5. PendingOK(r)'
  BY <1>1, <1>2, <1>3, <1>4 DEF PendingOK
<1>6. ListOK(r)' /\ CheckOK(r)' /\ SureOK(r)'
  BY <1>3, <1>4 DEF ListOK, CheckOK, SureOK
<1>7. PendingInv(r)'
  BY <1>5, <1>6 DEF PendingInv
<1> QED BY <1>2, <1>3, <1>7, RequestGoes

LEMMA AnswerOK ==
  ASSUME AuthInv, NEW r \in Requests, Answer(r)
  PROVE  AuthInv'
<1>1. /\ Goto(r, NoRequest)
      /\ UNCHANGED <<backend, clock, table, cache, session, admin, since, sure>>
  BY DEF Answer
<1>2. req'[r] = NoRequest
  BY <1>1, AuthTyped DEF Goto
<1>3. PendingInv(r)'
  BY <1>2, NoRequestOK DEF PendingInv, PendingOK, ListOK, CheckOK
<1> QED BY <1>1, <1>3, NoRequestOK, RequestGoes

\* The copy of one instance is replaced: requests elsewhere do not see it.
LEMMA StoreListOK ==
  ASSUME AuthInv, NEW r \in Requests, StoreList(r)
  PROVE  AuthInv'
<1>0. PICK i \in Instances : i = req[r].inst
  BY DEF StoreList, AuthInv, PendingInv, PendingOK
<1> DEFINE c == [set |-> req[r].list, at |-> clock]
           q == [req[r] EXCEPT !.pc = "check", !.list = {}, !.at = 0]
<1>1. /\ req[r].pc = "reading" /\ req[r].todo = {} /\ cache' = [cache EXCEPT ![i] = c]
      /\ req' = [req EXCEPT ![r] = q]
      /\ UNCHANGED <<backend, clock, table, session, admin, since, sure>>
  BY <1>0 DEF StoreList, Goto
<1>2. /\ req \in [Requests -> RequestType] /\ cache \in [Instances -> CopyType]
      /\ clock \in 0 .. MaxClock /\ clock \in Int /\ Ttl \in Nat /\ Ttl > 0 /\ Latency \in Nat
      /\ MaxClock \in Nat
  BY AuthTyped
<1>3. PendingInv(r) /\ req[r].token \in Tokens
  BY <1>1 DEF AuthInv, PendingInv, PendingOK
<1>4. clock \in -Ttl .. MaxClock /\ 0 \in 0 .. MaxClock
  BY <1>2
<1>5. c \in CopyType /\ c.set = req[r].list /\ c.at = clock
  BY <1>2, <1>4 DEF CopyType, RequestType
<1>6. q \in RequestType /\ q.pc = "check" /\ q.inst = i /\ q.token = req[r].token
  BY <1>0, <1>2, <1>4 DEF RequestType
<1> HIDE DEF c, q
<1>7. /\ cache' \in [Instances -> CopyType] /\ cache'[i] = c
      /\ \A j \in Instances \ {i} : cache'[j] = cache[j]
  BY <1>1, <1>2, <1>3, <1>5
<1>8. /\ req' \in [Requests -> RequestType] /\ req'[r] = q
      /\ \A s \in Requests \ {r} : req'[s] = req[s]
  BY <1>1, <1>2, <1>6
<1>9. ActiveTokens' = ActiveTokens
  BY <1>1 DEF ActiveTokens
<1>10. AuthTypeOK'
  BY <1>1, <1>7, <1>8 DEF AuthInv, AuthTypeOK, RequestType, CopyType
<1>11. /\ \A t \in Tokens : since[t] < clock - Latency => CopySays(i, t)'
       /\ sure[i] => \A t \in Tokens : CopySays(i, t)'
  <2>1. /\ \A t \in Tokens : since[t] < req[r].at => ListSays(r, t)
        /\ sure[i] => \A t \in Tokens : ListSays(r, t)
    BY <1>0, <1>1, <1>3 DEF PendingInv, ListOK, SureOK
  <2>2. \A t \in Tokens : ListSays(r, t) => CopySays(i, t)'
    BY <1>1, <1>5, <1>7, <1>9 DEF ListSays, CopySays
  <2>3. \A t \in Tokens : since[t] < clock - Latency => since[t] < req[r].at
    <3>1. clock - req[r].at <= Latency
      BY <1>1, <1>3 DEF PendingInv, PendingOK
    <3> QED BY <1>2, <3>1, TimesTyped
  <2> QED BY <2>1, <2>2, <2>3
<1>12. \A t \in Tokens : clock - since[t] >= Ttl + Latency => CopySays(i, t)'
  <2>1. \A t \in Tokens : clock - since[t] >= Ttl + Latency => since[t] < clock - Latency
    BY <1>2, TimesTyped
  <2> QED BY <1>11, <2>1
<1>13. \A j \in Instances : CopyOK(j)'
  <2>1. CopyOK(i)'
    BY <1>1, <1>2, <1>5, <1>7, <1>11 DEF CopyOK
  <2>2. ASSUME NEW j \in Instances \ {i} PROVE CopyOK(j)'
    BY <1>1, <1>7, <1>9 DEF AuthInv, CopyOK, CopySays
  <2> QED BY <2>1, <2>2
<1>14. PendingInv(r)'
  <2>1. PendingOK(r)' /\ ListOK(r)'
    BY <1>3, <1>6, <1>8 DEF PendingOK, ListOK
  <2>2. CheckOK(r)'
    BY <1>1, <1>6, <1>8, <1>12 DEF CheckOK, CopySays
  <2>3. SureOK(r)'
    BY <1>1, <1>6, <1>8, <1>11 DEF SureOK, CopySays
  <2> QED BY <2>1, <2>2, <2>3 DEF PendingInv
<1>15. ASSUME NEW s \in Requests \ {r} PROVE PendingInv(s)'
  <2>1. PendingInv(s) /\ req'[s] = req[s]
    BY <1>8 DEF AuthInv
  <2>2. PendingOK(s)'
    BY <1>1, <2>1 DEF PendingInv, PendingOK
  <2>3. \A t \in Tokens : ListSays(s, t)' <=> ListSays(s, t)
    BY <1>9, <2>1 DEF ListSays
  <2>4. ListOK(s)'
    BY <1>1, <2>1, <2>3 DEF PendingInv, ListOK
  <2>5. CASE req[s].inst = i
    <3>1. CheckOK(s)'
      BY <1>1, <1>12, <2>1, <2>5 DEF CheckOK, CopySays
    <3>2. req[s].pc # "idle" => SureOK(s)'
      BY <1>1, <1>11, <2>1, <2>3, <2>5 DEF PendingInv, SureOK, CopySays
    <3> QED BY <2>1, <2>2, <2>4, <3>1, <3>2 DEF PendingInv
  <2>6. CASE req[s].inst # i /\ req[s].pc # "idle"
    <3>1. cache'[req[s].inst] = cache[req[s].inst]
      BY <1>7, <2>1, <2>6 DEF PendingInv, PendingOK
    <3>2. CheckOK(s)'
      BY <1>1, <1>9, <2>1, <3>1 DEF PendingInv, CheckOK, CopySays
    <3>3. SureOK(s)'
      BY <1>1, <1>9, <2>1, <2>3, <2>6, <3>1 DEF PendingInv, SureOK, CopySays
    <3> QED BY <2>1, <2>2, <2>4, <3>2, <3>3 DEF PendingInv
  <2>7. CASE req[s].pc = "idle"
    BY <2>1, <2>2, <2>4, <2>7 DEF PendingInv, CheckOK
  <2> QED BY <2>5, <2>6, <2>7
<1>16. \A t \in Tokens : since'[t] <= clock'
  BY <1>1 DEF AuthInv
<1> QED BY <1>10, <1>13, <1>14, <1>15, <1>16 DEF AuthInv

\* The console moves, and leaves the copies and the table alone.
LEMMA ConsoleOK ==
  ASSUME AuthInv, NEW i \in Instances, Login(i) \/ Logout(i) \/ ChangeFails(i)
  PROVE  AuthInv'
<1>1. /\ session' \in [Instances -> BOOLEAN] /\ admin' \in [Instances -> {"idle", "invalidate"}]
      /\ UNCHANGED <<backend, clock, table, cache, req, since, sure>>
  BY AuthTyped DEF Login, Logout, ChangeFails
<1>2. AuthTypeOK'
  BY <1>1 DEF AuthInv, AuthTypeOK
<1>3. \A r \in Requests : PendingInv(r)'
  BY <1>1 DEF AuthInv, PendingInv, PendingOK, ListOK, CheckOK, SureOK, ListSays, CopySays,
              ActiveTokens
<1>4. \A j \in Instances : CopyOK(j)'
  BY <1>1 DEF AuthInv, CopyOK, CopySays, ActiveTokens
<1> QED BY <1>1, <1>2, <1>3, <1>4 DEF AuthInv

\* A token changes now, and nobody is sure of it.
LEMMA ChangesOK ==
  ASSUME AuthInv, NEW i \in Instances, NEW t \in Tokens, NEW to \in {"active", "revoked"},
         Changes(i, t, to)
  PROVE  AuthInv'
<1>1. /\ admin' \in [Instances -> {"idle", "invalidate"}]
      /\ table' = [table EXCEPT ![t] = to]
      /\ since' = IF table[t] = to THEN since ELSE [since EXCEPT ![t] = clock]
      /\ sure' = [j \in Instances |-> FALSE]
      /\ UNCHANGED <<backend, clock, cache, session, req>>
  BY AuthTyped DEF Changes
<1>2. /\ table \in [Tokens -> {"absent", "active", "revoked"}] /\ clock \in 0 .. MaxClock
      /\ since \in [Tokens -> 0 .. MaxClock] /\ clock \in Int /\ Latency \in Nat /\ Ttl \in Nat
      /\ Ttl > 0
  BY AuthTyped
<1>3. /\ table' \in [Tokens -> {"absent", "active", "revoked"}]
      /\ since' \in [Tokens -> 0 .. MaxClock] /\ sure' \in [Instances -> BOOLEAN]
  BY <1>1, <1>2
<1>4. \A s \in Tokens : since'[s] = clock \/ (since'[s] = since[s] /\ table'[s] = table[s])
  BY <1>1, <1>2
<1>5. \A s \in Tokens : since'[s] # clock =>
        since'[s] = since[s] /\ (s \in ActiveTokens' <=> s \in ActiveTokens)
  BY <1>4 DEF ActiveTokens
<1>6. AuthTypeOK'
  BY <1>1, <1>3 DEF AuthInv, AuthTypeOK
<1>7. \A s \in Tokens : since'[s] <= clock'
  BY <1>1, <1>2, <1>4, TimesTyped
<1>8. ASSUME NEW r \in Requests PROVE PendingInv(r)'
  <2>1. PendingInv(r) /\ req'[r] = req[r]
    BY <1>1 DEF AuthInv
  <2>2. PendingOK(r)'
    BY <1>1, <2>1 DEF PendingInv, PendingOK
  <2>3. ListOK(r)'
    <3>1. SUFFICES ASSUME req[r].pc = "reading", NEW s \in Tokens, since'[s] < req[r].at
                   PROVE  ListSays(r, s)'
      BY <2>1 DEF ListOK
    <3>2. req[r].at <= clock
      BY <2>1, <3>1 DEF PendingInv, PendingOK
    <3>3. since'[s] # clock
      BY <1>2, <3>1, <3>2, TimesTyped
    <3>4. ListSays(r, s)
      BY <1>5, <2>1, <3>1, <3>3 DEF PendingInv, ListOK
    <3> QED BY <1>5, <2>1, <3>3, <3>4 DEF ListSays
  <2>4. CheckOK(r)'
    <3>1. SUFFICES ASSUME req[r].pc = "check", ~req[r].failed, NEW s \in Tokens,
                          clock - since'[s] >= Ttl + Latency
                   PROVE  CopySays(req[r].inst, s)'
      BY <1>1, <2>1 DEF CheckOK, CopySays
    <3>2. since'[s] # clock
      BY <1>2, <3>1
    <3>3. CopySays(req[r].inst, s)
      BY <1>5, <2>1, <3>1, <3>2 DEF PendingInv, CheckOK
    <3> QED BY <1>1, <1>5, <2>1, <3>2, <3>3 DEF CopySays
  <2>5. req[r].pc # "idle" => SureOK(r)'
    BY <1>1, <2>1 DEF PendingInv, PendingOK, SureOK
  <2> QED BY <2>1, <2>2, <2>3, <2>4, <2>5 DEF PendingInv
<1>9. ASSUME NEW j \in Instances PROVE CopyOK(j)'
  <2>1. CopyOK(j) /\ cache'[j] = cache[j] /\ ~sure'[j]
    BY <1>1 DEF AuthInv
  <2>2. ASSUME NEW s \in Tokens, since'[s] < cache[j].at - Latency PROVE CopySays(j, s)'
    <3>1. since'[s] # clock
      BY <1>2, <2>2, TimesTyped
    <3>2. CopySays(j, s)
      BY <1>5, <2>1, <2>2, <3>1 DEF CopyOK
    <3> QED BY <1>5, <2>1, <3>1, <3>2 DEF CopySays
  <2> QED BY <1>1, <2>1, <2>2 DEF CopyOK
<1> QED BY <1>6, <1>7, <1>8, <1>9 DEF AuthInv

LEMMA InvalidateCacheOK ==
  ASSUME AuthInv, NEW i \in Instances, InvalidateCache(i)
  PROVE  AuthInv'
<1> DEFINE c == [cache[i] EXCEPT !.at = Expired]
           free == \A r \in Requests : req[r].inst = i => req[r].pc \in {"idle", "list"}
<1>1. /\ admin' \in [Instances -> {"idle", "invalidate"}]
      /\ cache' = [cache EXCEPT ![i] = c] /\ sure' = [sure EXCEPT ![i] = free]
      /\ UNCHANGED <<backend, clock, table, session, req, since>>
  BY AuthTyped DEF InvalidateCache
<1>2. /\ cache \in [Instances -> CopyType] /\ sure \in [Instances -> BOOLEAN]
      /\ Ttl \in Nat /\ Ttl > 0 /\ Latency \in Nat /\ clock \in Int /\ clock >= 0 /\ MaxClock \in Nat
  BY AuthTyped
<1>3. Expired \in -Ttl .. MaxClock /\ Expired \in Int /\ Expired < 0
  BY <1>2 DEF Expired
<1>4. c \in CopyType /\ c.set = cache[i].set /\ c.at = Expired
  BY <1>2, <1>3 DEF CopyType
<1>5. free \in BOOLEAN
  OBVIOUS
<1>6. sure' \in [Instances -> BOOLEAN] /\ sure'[i] = free
      /\ \A j \in Instances \ {i} : sure'[j] = sure[j]
  BY <1>1, <1>2, <1>5
<1>7. free => \A r \in Requests : req[r].inst = i => req[r].pc \in {"idle", "list"}
  OBVIOUS
<1> HIDE DEF c, free
<1>8. /\ cache' \in [Instances -> CopyType] /\ cache'[i] = c
      /\ \A j \in Instances \ {i} : cache'[j] = cache[j]
  BY <1>1, <1>2, <1>4
<1>9. AuthTypeOK' /\ ActiveTokens' = ActiveTokens
  BY <1>1, <1>6, <1>8 DEF AuthInv, AuthTypeOK, CopyType, ActiveTokens
<1>10. \A j \in Instances, t \in Tokens : CopySays(j, t)' <=> CopySays(j, t)
  BY <1>4, <1>8, <1>9 DEF CopySays
<1>11. ASSUME NEW j \in Instances PROVE CopyOK(j)'
  <2>1. CASE j = i
    <3>1. ASSUME NEW t \in Tokens PROVE ~(since[t] < Expired - Latency)
      <4>1. since[t] \in Int /\ since[t] >= 0
        BY TimesTyped
      <4> QED BY <1>2, <1>3, <4>1
    <3>2. Expired <= clock
      BY <1>2, <1>3
    <3> QED BY <1>1, <1>4, <1>8, <2>1, <3>1, <3>2 DEF CopyOK, Expired
  <2>2. CASE j # i
    BY <1>1, <1>6, <1>8, <1>10, <2>2 DEF AuthInv, CopyOK, Expired
  <2> QED BY <2>1, <2>2
<1>12. ASSUME NEW r \in Requests PROVE PendingInv(r)'
  <2>1. PendingInv(r) /\ req'[r] = req[r]
    BY <1>1 DEF AuthInv
  <2>2. \A t \in Tokens : ListSays(r, t)' <=> ListSays(r, t)
    BY <1>9, <2>1 DEF ListSays
  <2>3. PendingOK(r)' /\ ListOK(r)'
    BY <1>1, <2>1, <2>2 DEF PendingInv, PendingOK, ListOK
  <2>4. req[r].pc # "idle" => req[r].inst \in Instances
    BY <2>1 DEF PendingInv, PendingOK
  <2>5. CheckOK(r)'
    <3>1. SUFFICES ASSUME req[r].pc = "check", ~req[r].failed, NEW t \in Tokens,
                          clock - since[t] >= Ttl + Latency
                   PROVE  CopySays(req[r].inst, t)'
      BY <1>1, <2>1 DEF CheckOK, CopySays
    <3>2. CopySays(req[r].inst, t)
      BY <2>1, <3>1 DEF PendingInv, CheckOK
    <3> QED BY <1>10, <2>1, <2>4, <3>1, <3>2 DEF CopySays
  <2>6. req[r].pc # "idle" => SureOK(r)'
    <3>1. SUFFICES ASSUME req[r].pc # "idle", sure'[req[r].inst]
                   PROVE  /\ req[r].pc = "reading" => \A t \in Tokens : ListSays(r, t)'
                          /\ req[r].pc = "check" /\ ~req[r].failed =>
                               \A t \in Tokens : CopySays(req[r].inst, t)'
      BY <2>1 DEF SureOK, CopySays
    <3>2. CASE req[r].inst = i
      BY <1>6, <1>7, <3>1, <3>2
    <3>3. CASE req[r].inst # i
      <4>1. SureOK(r) /\ sure[req[r].inst]
        BY <1>6, <2>1, <2>4, <3>1, <3>3 DEF PendingInv
      <4>2. /\ req[r].pc = "reading" => \A t \in Tokens : ListSays(r, t)
            /\ req[r].pc = "check" /\ ~req[r].failed =>
                 \A t \in Tokens : CopySays(req[r].inst, t)
        BY <4>1 DEF SureOK
      <4> QED BY <1>10, <2>1, <2>2, <2>4, <3>1, <4>2 DEF CopySays
    <3> QED BY <3>2, <3>3
  <2> QED BY <2>1, <2>3, <2>5, <2>6 DEF PendingInv
<1> QED BY <1>1, <1>9, <1>11, <1>12 DEF AuthInv

LEMMA RestartOK ==
  ASSUME AuthInv, NEW i \in Instances, Restart(i)
  PROVE  AuthInv'
<1> DEFINE c == [set |-> {}, at |-> Expired]
<1>1. /\ cache' = [cache EXCEPT ![i] = c] /\ session' \in [Instances -> BOOLEAN]
      /\ admin' \in [Instances -> {"idle", "invalidate"}]
      /\ req' = [r \in Requests |-> IF req[r].inst = i THEN NoRequest ELSE req[r]]
      /\ UNCHANGED <<backend, clock, table, since, sure>>
  BY AuthTyped DEF Restart
<1>2. /\ cache \in [Instances -> CopyType] /\ req \in [Requests -> RequestType]
      /\ Ttl \in Nat /\ Ttl > 0 /\ Latency \in Nat /\ clock \in Int /\ clock >= 0 /\ MaxClock \in Nat
  BY AuthTyped
<1>3. Expired \in -Ttl .. MaxClock /\ Expired \in Int /\ Expired < 0
  BY <1>2 DEF Expired
<1>4. c \in CopyType /\ c.at = Expired
  BY <1>3 DEF CopyType
<1> HIDE DEF c
<1>5. /\ cache' \in [Instances -> CopyType] /\ cache'[i] = c
      /\ \A j \in Instances \ {i} : cache'[j] = cache[j]
  BY <1>1, <1>2, <1>4
<1>6. req' \in [Requests -> RequestType]
      /\ \A r \in Requests : req'[r] = NoRequest \/ (req'[r] = req[r] /\ req[r].inst # i)
  BY <1>1, <1>2, NoRequestOK
<1>7. AuthTypeOK' /\ ActiveTokens' = ActiveTokens
  BY <1>1, <1>5, <1>6 DEF AuthInv, AuthTypeOK, CopyType, RequestType, ActiveTokens
<1>8. ASSUME NEW j \in Instances PROVE CopyOK(j)'
  <2>1. CASE j = i
    <3>1. ASSUME NEW t \in Tokens PROVE ~(since[t] < Expired - Latency)
      <4>1. since[t] \in Int /\ since[t] >= 0
        BY TimesTyped
      <4> QED BY <1>2, <1>3, <4>1
    <3>2. Expired <= clock
      BY <1>2, <1>3
    <3> QED BY <1>1, <1>4, <1>5, <2>1, <3>1, <3>2 DEF CopyOK, Expired
  <2>2. CASE j # i
    BY <1>1, <1>5, <1>7, <2>2 DEF AuthInv, CopyOK, Expired, CopySays
  <2> QED BY <2>1, <2>2
<1>9. ASSUME NEW r \in Requests PROVE PendingInv(r)'
  <2>1. CASE req'[r] = NoRequest
    BY <2>1, NoRequestOK DEF PendingInv, PendingOK, ListOK, CheckOK
  <2>2. CASE req'[r] = req[r] /\ req[r].inst # i /\ req[r].pc # "idle"
    <3>1. PendingInv(r) /\ req[r].inst \in Instances
      BY <2>2 DEF AuthInv, PendingInv, PendingOK
    <3>2. cache'[req[r].inst] = cache[req[r].inst]
      BY <1>5, <2>2, <3>1
    <3>3. PendingOK(r)' /\ ListOK(r)'
      BY <1>1, <1>7, <2>2, <3>1 DEF PendingInv, PendingOK, ListOK, ListSays
    <3>4. CheckOK(r)'
      BY <1>1, <1>7, <2>2, <3>1, <3>2 DEF PendingInv, CheckOK, CopySays
    <3>5. SureOK(r)'
      BY <1>1, <1>7, <2>2, <3>1, <3>2 DEF PendingInv, SureOK, CopySays, ListSays
    <3> QED BY <3>3, <3>4, <3>5 DEF PendingInv
  <2>3. CASE req'[r] = req[r] /\ req[r].pc = "idle"
    BY <2>3 DEF PendingInv, PendingOK, ListOK, CheckOK
  <2> QED BY <1>6, <2>1, <2>2, <2>3
<1> QED BY <1>1, <1>7, <1>8, <1>9 DEF AuthInv

\* Time passes while no check is between its list and its answer.
LEMMA ClockTicksOK ==
  ASSUME AuthInv, ClockTicks
  PROVE  AuthInv'
<1>1. /\ clock < MaxClock /\ clock' = clock + 1
      /\ \A r \in Requests : /\ req[r].pc # "check"
                             /\ req[r].pc # "idle" => clock - req[r].at < Latency
      /\ UNCHANGED <<backend, table, cache, session, admin, req, since, sure>>
  BY DEF ClockTicks
<1>2. clock \in Int /\ clock >= 0 /\ MaxClock \in Nat /\ Latency \in Nat
  BY AuthTyped
<1>3. clock' \in 0 .. MaxClock
  BY <1>1, <1>2
<1>4. AuthTypeOK' /\ ActiveTokens' = ActiveTokens
  BY <1>1, <1>3 DEF AuthInv, AuthTypeOK, ActiveTokens
<1>5. \A t \in Tokens : since'[t] <= clock'
  BY <1>1, <1>2, TimesTyped
<1>6. ASSUME NEW i \in Instances PROVE CopyOK(i)'
  <2>1. cache[i].at <= clock + 1
    BY <1>2, TimesTyped
  <2> QED BY <1>1, <1>4, <2>1 DEF AuthInv, CopyOK, CopySays
<1>7. ASSUME NEW r \in Requests PROVE PendingInv(r)'
  <2>1. PendingInv(r) /\ req[r].pc # "check" /\ req' = req
    BY <1>1 DEF AuthInv
  <2>2. PendingOK(r)'
    <3>1. req[r].pc \in {"list", "reading"} =>
            req[r].at <= clock + 1 /\ (clock + 1) - req[r].at <= Latency
      <4>1. SUFFICES ASSUME req[r].pc \in {"list", "reading"}
                     PROVE  req[r].at <= clock + 1 /\ (clock + 1) - req[r].at <= Latency
        OBVIOUS
      <4>2. req[r].at <= clock /\ clock - req[r].at < Latency /\ req[r].at \in Int
        BY <1>1, <2>1, <4>1, TimesTyped DEF PendingInv, PendingOK
      <4> QED BY <1>2, <4>2
    <3>2. req'[r] = req[r] /\ PendingOK(r)
      BY <2>1 DEF PendingInv
    <3>3. req'[r].pc \in {"list", "reading"} =>
            req'[r].at <= clock' /\ clock' - req'[r].at <= Latency
      BY <1>1, <3>1, <3>2
    <3>4. /\ req'[r].pc # "idle" => req'[r].inst \in Instances /\ req'[r].token \in Tokens
          /\ req'[r].pc = "list" => req'[r].list = {} /\ req'[r].todo = {}
          /\ req'[r].pc = "reading" => req'[r].list \cap req'[r].todo = {}
      BY <3>2 DEF PendingOK
    <3> QED BY <3>3, <3>4 DEF PendingOK
  <2>3. ListOK(r)' /\ CheckOK(r)'
    BY <1>1, <1>4, <2>1 DEF PendingInv, ListOK, CheckOK, ListSays
  <2>4. req[r].pc # "idle" => SureOK(r)'
    BY <1>1, <1>4, <2>1 DEF PendingInv, SureOK, ListSays
  <2> QED BY <2>1, <2>2, <2>3, <2>4 DEF PendingInv
<1> QED BY <1>4, <1>5, <1>6, <1>7 DEF AuthInv

LEMMA AuthInitOK == AuthInit => AuthInv
<1> SUFFICES ASSUME AuthInit PROVE AuthInv
  OBVIOUS
<1>1. Ttl \in Nat /\ Ttl > 0 /\ Latency \in Nat /\ MaxClock \in Nat
  BY AuthAssumption
<1>2. Expired \in -Ttl .. MaxClock /\ Expired \in Int /\ Expired < 0 /\ 0 \in 0 .. MaxClock
  BY <1>1 DEF Expired
<1> DEFINE c == [set |-> {}, at |-> Expired]
<1>3. c \in CopyType /\ c.at = Expired
  BY <1>2 DEF CopyType
<1>4. NoRequest \in RequestType /\ NoRequest.pc = "idle"
  BY <1>2 DEF NoRequest, RequestType
<1>5. /\ cache \in [Instances -> CopyType] /\ req \in [Requests -> RequestType]
      /\ \A i \in Instances : cache[i].at = Expired
      /\ \A r \in Requests : req[r].pc = "idle"
  BY <1>3, <1>4 DEF AuthInit
<1>6. AuthTypeOK
  <2>1. /\ backend \in Backends /\ clock \in 0 .. MaxClock
        /\ table \in [Tokens -> {"absent", "active", "revoked"}]
        /\ since \in [Tokens -> 0 .. MaxClock]
    BY <1>2 DEF AuthInit
  <2>2. /\ session \in [Instances -> BOOLEAN] /\ sure \in [Instances -> BOOLEAN]
        /\ admin \in [Instances -> {"idle", "invalidate"}]
    BY DEF AuthInit
  <2> QED BY <1>5, <2>1, <2>2 DEF AuthTypeOK, CopyType, RequestType
<1>7. \A t \in Tokens : since[t] = 0 /\ since[t] <= clock
  <2>1. clock = 0 /\ \A t \in Tokens : since[t] = 0
    BY DEF AuthInit
  <2>2. 0 <= 0
    OBVIOUS
  <2> QED BY <2>1, <2>2
<1>8. \A r \in Requests : PendingInv(r)
  BY <1>5 DEF PendingInv, PendingOK, ListOK, CheckOK
<1>9. \A i \in Instances : CopyOK(i)
  <2>1. clock = 0 /\ Expired <= 0 /\ ~(0 < Expired - Latency)
    BY <1>1, <1>2 DEF AuthInit
  <2> QED BY <1>5, <1>7, <2>1 DEF CopyOK
<1> QED BY <1>6, <1>7, <1>8, <1>9 DEF AuthInv

LEMMA AuthNextOK == AuthInv /\ [AuthNext]_authVars => AuthInv'
<1> SUFFICES ASSUME AuthInv, [AuthNext]_authVars PROVE AuthInv'
  OBVIOUS
<1>1. CASE ClockTicks
  BY <1>1, ClockTicksOK
<1>2. ASSUME NEW r \in Requests,
             \/ \E i \in Instances, t \in Tokens : Present(r, i, t)
             \/ \E t \in Tokens : HGetAll(r, t)
             \/ ListSql(r) \/ SMembers(r) \/ StoreList(r) \/ ListFails(r) \/ Answer(r)
      PROVE  AuthInv'
  BY <1>2, PresentOK, HGetAllOK, ListSqlOK, SMembersOK, StoreListOK, ListFailsOK, AnswerOK
<1>3. ASSUME NEW i \in Instances,
             \/ Login(i) \/ Logout(i) \/ InvalidateCache(i) \/ ChangeFails(i) \/ Restart(i)
             \/ \E t \in Tokens : TokensCreate(i, t) \/ TokensRevoke(i, t)
      PROVE  AuthInv'
  BY <1>3, ConsoleOK, InvalidateCacheOK, RestartOK, ChangesOK DEF TokensCreate, TokensRevoke
<1>4. CASE UNCHANGED authVars
  <2>1. UNCHANGED <<backend, clock, table, cache, session, admin, req, since, sure>>
    BY <1>4 DEF authVars
  <2>2. AuthTypeOK'
    BY <2>1 DEF AuthInv, AuthTypeOK
  <2>3. \A r \in Requests : PendingInv(r)'
    BY <2>1 DEF AuthInv, PendingInv, PendingOK, ListOK, CheckOK, SureOK, ListSays, CopySays,
                ActiveTokens
  <2>4. \A j \in Instances : CopyOK(j)'
    BY <2>1 DEF AuthInv, CopyOK, CopySays, ActiveTokens
  <2> QED BY <2>1, <2>2, <2>3, <2>4 DEF AuthInv
<1> QED BY <1>1, <1>2, <1>3, <1>4 DEF AuthNext

\* Every list and every copy is right about the tokens that have not changed since
\* the reading of it began, whichever lists overtook each other, on either store
\* (managed_ok, active_token_hashes, invalidate_cache).
THEOREM AuthInvariant == AuthSpec => []AuthInv
BY AuthInitOK, AuthNextOK, PTL DEF AuthSpec

LEMMA CheckedToken ==
  ASSUME AuthInv, NEW r \in Requests, req[r].pc = "check"
  PROVE  /\ req[r].token \in Tokens
         /\ CopySays(req[r].inst, req[r].token) => Right(r)
<1>1. req[r].token \in Tokens
  BY DEF AuthInv, PendingInv, PendingOK
<1> QED BY <1>1 DEF CopySays, ActiveTokens, Right, Hit

\* What the console did is in force everywhere within the copy's term and one list.
THEOREM TokensInForce == AuthSpec => []InForce
<1>1. AuthInv => InForce
  <2>1. SUFFICES ASSUME AuthInv, NEW r \in Requests, req[r].pc = "check", ~req[r].failed,
                        clock - since[req[r].token] >= Ttl + Latency
                 PROVE  Right(r)
    BY DEF InForce
  <2>2. CheckOK(r)
    BY <2>1 DEF AuthInv, PendingInv
  <2> QED BY <2>1, <2>2, CheckedToken DEF CheckOK
<1> QED BY <1>1, AuthInvariant, PTL

\* And at once where it was done, unless an older list is still under way there.
THEOREM TokensAtOnce == AuthSpec => []AtOnce
<1>1. AuthInv => AtOnce
  <2>1. SUFFICES ASSUME AuthInv, NEW r \in Requests, req[r].pc = "check", ~req[r].failed,
                        sure[req[r].inst]
                 PROVE  Right(r)
    BY DEF AtOnce
  <2>2. SureOK(r)
    BY <2>1 DEF AuthInv, PendingInv
  <2> QED BY <2>1, <2>2, CheckedToken DEF SureOK
<1> QED BY <1>1, AuthInvariant, PTL

=============================================================================
