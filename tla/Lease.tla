-------------------------------- MODULE Lease --------------------------------
(***************************************************************************)
(* Scheduling of one transaction under a clock: lock_one_due,              *)
(* release_lease, schedule_now and submit_prepared of the SQL store, used  *)
(* as the driver and the API use them.  What a drive does between lock and *)
(* release is reduced to the status it may write.                          *)
(*                                                                         *)
(* The row has one column that says when it is due (next_cron_time) and    *)
(* one that says until when it is taken (lease_until).  lease_until is     *)
(* also the token with which a worker gives the lease back, in whole       *)
(* seconds: nothing else tells two leases apart.                           *)
(*                                                                         *)
(* tt "saga" stands for saga and workflow, which start as submitted; "tcc" *)
(* for TCC and XA.                                                         *)
(***************************************************************************)
EXTENDS Core

CONSTANTS
  Workers,          \* worker loops and detached drivers
  NoWorker,         \* nobody
  TransTypes,       \* transaction types considered, of {"saga", "tcc", "msg"}
  LeaseSecs,        \* DriverConfig.lease_secs
  RetryInitial,     \* RetryPolicy.initial
  RetryMax,         \* RetryPolicy.max
  Timeout,          \* prepared time limit of TCC and XA, 0 for none
  Grace,            \* msg: seconds before the first check-back
  NEVER,            \* the due time of what is not to be scheduled
  MaxNow            \* the clock stops here

ASSUME WorkersAssumption == NoWorker \notin Workers
ASSUME TransTypesAssumption == TransTypes \subseteq {"saga", "tcc", "msg"}
ASSUME TimesAssumption ==
  /\ LeaseSecs \in Nat \ {0}
  /\ RetryInitial \in Nat \ {0} /\ RetryMax \in Nat /\ RetryInitial <= RetryMax
  /\ Timeout \in Nat /\ Grace \in Nat
  /\ MaxNow \in Nat /\ NEVER \in Nat /\ MaxNow < NEVER

VARIABLES
  now,              \* the clock, in seconds
  tt,               \* trans_type
  status,           \* trans_global.status
  create_time,
  next_cron_time,
  next_cron_interval,
  lease_until,      \* 0: nobody holds the row
  token,            \* each worker's g.lease_until, 0 when it drives nothing
  st,               \* each worker's idea of the status
  iv,               \* each worker's g.next_cron_interval
  submitting,       \* a submit between its SELECT and its UPDATE: what it read
  abort,            \* "written": an abort between its two store calls
  holder,           \* history: whose lock or claim wrote lease_until
  requested         \* history: when schedule_now was called, 0 once somebody came

row == <<tt, create_time>>
sched == <<next_cron_time, next_cron_interval, lease_until>>
mine == <<token, st, iv>>
vars == <<now, tt, status, create_time, next_cron_time, next_cron_interval,
          lease_until, token, st, iv, submitting, abort, holder, requested>>

NotSubmitting == [nct |-> 0, interval |-> 0, lease |-> 0]

TypeOK ==
  /\ now \in Nat \ {0}
  /\ tt \in TransTypes
  /\ status \in GlobalStatus \cup {"absent"}
  /\ create_time \in Nat
  /\ next_cron_time \in Nat /\ next_cron_interval \in Nat
  /\ lease_until \in Nat
  /\ token \in [Workers -> Nat]
  /\ st \in [Workers -> GlobalStatus]
  /\ iv \in [Workers -> Nat]
  /\ submitting \in [nct : Nat, interval : Nat, lease : Nat]
  /\ abort \in {"none", "written"}
  /\ holder \in Workers \cup {NoWorker}
  /\ requested \in Nat

Init ==
  /\ now = 1
  /\ tt \in TransTypes
  /\ status = "absent"
  /\ create_time = 0 /\ next_cron_time = 0 /\ next_cron_interval = 0
  /\ lease_until = 0
  /\ token = [w \in Workers |-> 0]
  /\ st = [w \in Workers |-> "submitted"]
  /\ iv = [w \in Workers |-> 0]
  /\ submitting = NotSubmitting
  /\ abort = "none"
  /\ holder = NoWorker
  /\ requested = 0

Tick ==
  /\ now < MaxNow
  /\ now' = now + 1
  /\ UNCHANGED <<row, status, sched, mine, submitting, abort, holder, requested>>

\* Worker w starts to drive with the given token, status and back-off.
Starts(w, tok, s, i) ==
  /\ token[w] = 0
  /\ token' = [token EXCEPT ![w] = tok]
  /\ st' = [st EXCEPT ![w] = s]
  /\ iv' = [iv EXCEPT ![w] = i]

\* The round of worker w is over: its locals are gone.
Ends(w) ==
  /\ token' = [token EXCEPT ![w] = 0]
  /\ st' = [st EXCEPT ![w] = "submitted"]
  /\ iv' = [iv EXCEPT ![w] = 0]

-----------------------------------------------------------------------------
(***************************************************************************)
(* Creation and submission.                                                *)
(***************************************************************************)

Deadline == PreparedDeadline(create_time, Timeout, NEVER)

\* Api::submit of a saga, or Api::prepare.  A saga is due at once, or created
\* under a lease claimed for a detached driver where the API process has one;
\* a prepared row is due when it has to be decided without its caller.
Create ==
  /\ status = "absent"
  /\ create_time' = now
  /\ \/ /\ tt = "saga"
        /\ status' = "submitted"
        /\ next_cron_time' = now
        /\ UNCHANGED <<lease_until, mine, holder>>
     \/ /\ tt = "saga"
        /\ status' = "submitted"
        /\ next_cron_time' = now + LeaseSecs
        /\ lease_until' = now + LeaseSecs
        /\ \E w \in Workers :
             Starts(w, now + LeaseSecs, "submitted", 0) /\ holder' = w
     \/ /\ tt # "saga"
        /\ status' = "prepared"
        /\ next_cron_time' = IF tt = "msg" THEN now + Grace
                             ELSE PreparedDeadline(now, Timeout, NEVER)
        /\ UNCHANGED <<lease_until, mine, holder>>
  /\ UNCHANGED <<now, tt, next_cron_interval, submitting, abort, requested>>

\* claim_and_submit computes the due time, which is also the lease it claims if
\* there is a detached driver, and submit_prepared reads the row.
SubmitRead ==
  /\ submitting = NotSubmitting
  /\ status = "prepared"
  /\ \/ submitting' = [nct |-> now, interval |-> next_cron_interval, lease |-> 0]
     \/ submitting' = [nct |-> now + LeaseSecs, interval |-> next_cron_interval,
                       lease |-> now + LeaseSecs]
  /\ UNCHANGED <<now, row, status, sched, mine, abort, holder, requested>>

\* submit_prepared writes if the row is still prepared; the caller learns
\* nothing of it and with an inline driver begins to drive in both cases.
SubmitWrite(w) ==
  /\ submitting # NotSubmitting
  /\ IF w = NoWorker THEN submitting.lease = 0 /\ UNCHANGED mine
     ELSE submitting.lease # 0 /\ Starts(w, submitting.nct, "submitted", submitting.interval)
  /\ IF status = "prepared"
     THEN /\ status' = "submitted"
          /\ next_cron_time' = submitting.nct
          /\ next_cron_interval' = 0
          /\ lease_until' = submitting.lease
          /\ holder' = w
          /\ requested' = IF submitting.lease # 0 THEN 0 ELSE requested
     ELSE UNCHANGED <<status, sched, holder, requested>>
  /\ submitting' = NotSubmitting
  /\ UNCHANGED <<now, row, abort>>

-----------------------------------------------------------------------------
(***************************************************************************)
(* Requests for immediate processing.                                      *)
(***************************************************************************)

\* schedule_now touches the due time only.  A request that finds a lease run
\* out but not yet given back does not count as kept: its due time is not
\* before the end of the lease, so a late release postpones it (and any
\* request before it).
ScheduleNow ==
  /\ next_cron_time' = now
  /\ next_cron_interval' = 0
  /\ requested' = IF lease_until = 0 \/ now < lease_until THEN now ELSE 0
  /\ UNCHANGED lease_until

\* Api::retry.
Retry ==
  /\ status # "absent" /\ ~IsFinal(status)
  /\ ScheduleNow
  /\ UNCHANGED <<now, row, status, mine, submitting, abort, holder>>

\* Api::abort changes the status with a comparison of its own ...
AbortWrite ==
  /\ abort = "none"
  /\ status \in IF tt = "saga" THEN {"submitted"} ELSE {"prepared"}
  /\ status' = "aborting"
  /\ abort' = "written"
  /\ UNCHANGED <<now, row, sched, mine, submitting, holder, requested>>

\* ... and then asks for immediate processing ...
AbortSchedule ==
  /\ abort = "written"
  /\ ScheduleNow
  /\ abort' = "none"
  /\ UNCHANGED <<now, row, status, mine, submitting, holder>>

\* ... unless it dies, or that call fails, which it does not look at.
AbortCutShort ==
  /\ abort = "written"
  /\ abort' = "none"
  /\ UNCHANGED <<now, row, status, sched, mine, submitting, holder, requested>>

-----------------------------------------------------------------------------
(***************************************************************************)
(* Workers.                                                                *)
(***************************************************************************)

\* Mutant of Lock: the due time alone decides, as it did before lease_until.
LockDue(w) ==
  /\ Schedulable(status, tt)
  /\ next_cron_time <= now
  /\ next_cron_time' = now + LeaseSecs
  /\ lease_until' = now + LeaseSecs
  /\ Starts(w, now + LeaseSecs, status, next_cron_interval)
  /\ holder' = w
  /\ requested' = 0
  /\ UNCHANGED <<now, row, status, next_cron_interval, submitting, abort>>

\* lock_one_due.
Lock(w) ==
  /\ Schedulable(status, tt)
  /\ next_cron_time <= now
  /\ lease_until <= now
  /\ next_cron_time' = now + LeaseSecs
  /\ lease_until' = now + LeaseSecs
  /\ Starts(w, now + LeaseSecs, status, next_cron_interval)
  /\ holder' = w
  /\ requested' = 0
  /\ UNCHANGED <<now, row, status, next_cron_interval, submitting, abort>>

\* Mutant of Release: whoever holds the row, its lease is freed.
ReleaseAny(w, interval) ==
  LET early == next_cron_time < lease_until
  IN /\ next_cron_interval' = IF early THEN 0 ELSE interval
     /\ next_cron_time' = IF early THEN next_cron_time ELSE now + interval
     /\ lease_until' = 0
     /\ holder' = NoWorker

\* Mutant of Release: the back-off overwrites a request made meanwhile.
ReleaseBackOff(w, interval) ==
  IF lease_until = token[w]
  THEN /\ next_cron_interval' = interval
       /\ next_cron_time' = now + interval
       /\ lease_until' = 0
       /\ holder' = NoWorker
  ELSE UNCHANGED <<sched, holder>>

\* release_lease: nothing happens unless the token is the one in the row; a
\* due time put before the end of the lease is somebody's request and stays.
Release(w, interval) ==
  LET early == next_cron_time < lease_until
  IN IF lease_until = token[w]
     THEN /\ next_cron_interval' = IF early THEN 0 ELSE interval
          /\ next_cron_time' = IF early THEN next_cron_time ELSE now + interval
          /\ lease_until' = 0
          /\ holder' = NoWorker
     ELSE UNCHANGED <<sched, holder>>

\* retry_later, after a branch or the check-back of a msg gave no success.
RetryLater(w) ==
  /\ token[w] # 0
  /\ st[w] # "prepared" \/ tt = "msg"
  /\ Release(w, NextIntervalWith(iv[w], RetryInitial, RetryMax))
  /\ Ends(w)
  /\ UNCHANGED <<now, row, status, submitting, abort, requested>>

\* process found a prepared TCC or XA transaction before its deadline.
NotDue(w) ==
  /\ token[w] # 0
  /\ st[w] = "prepared" /\ tt = "tcc" /\ now < Deadline
  /\ Release(w, Deadline - now)
  /\ Ends(w)
  /\ UNCHANGED <<now, row, status, submitting, abort, requested>>

\* What a drive that believes in status s may write.
Targets(s) ==
  CASE s = "prepared" /\ tt = "tcc" -> IF now >= Deadline THEN {"aborting"} ELSE {}
    [] s = "prepared" /\ tt # "tcc" -> {"submitted", "failed"}
    [] s = "submitted" -> IF tt = "saga" THEN {"succeed", "aborting"} ELSE {"succeed"}
    [] s = "aborting" -> {"failed"}
    [] OTHER -> {}

\* Driver::transition: a comparison that loses gives the lease back at once.
\* A final status ends the round and leaves the lease where it is.
Transition(w, to) ==
  /\ token[w] # 0
  /\ to \in Targets(st[w])
  /\ IF status = st[w]
     THEN /\ status' = to
          /\ IF IsFinal(to) THEN Ends(w)
             ELSE st' = [st EXCEPT ![w] = to] /\ UNCHANGED <<token, iv>>
          /\ UNCHANGED <<sched, holder>>
     ELSE /\ Release(w, 0)
          /\ Ends(w)
          /\ UNCHANGED status
  /\ UNCHANGED <<now, row, submitting, abort, requested>>

\* The process dies or a store call fails: the lease stays.
Crash(w) ==
  /\ token[w] # 0
  /\ Ends(w)
  /\ UNCHANGED <<now, row, status, sched, submitting, abort, holder, requested>>

-----------------------------------------------------------------------------
Next ==
  \/ Tick \/ Create \/ SubmitRead \/ Retry
  \/ AbortWrite \/ AbortSchedule \/ AbortCutShort
  \/ \E w \in Workers \cup {NoWorker} : SubmitWrite(w)
  \/ \E w \in Workers :
       \/ Lock(w) \/ RetryLater(w) \/ NotDue(w) \/ Crash(w)
       \/ \E to \in GlobalStatus : Transition(w, to)

Spec == Init /\ [][Next]_vars

-----------------------------------------------------------------------------
(***************************************************************************)
(* Properties.                                                             *)
(***************************************************************************)

\* Worker w gives a lease back.
Frees(w) == lease_until # 0 /\ lease_until' = 0 /\ token[w] # 0 /\ token'[w] = 0

\* A slow worker never frees its successor's lease (release_lease): for sagas
\* and workflows, whose leases come from lock_one_due and creation only.
ReleasesOwn == [][tt = "saga" => \A w \in Workers : Frees(w) => holder = w]_vars

\* The same for every type, as the comment on lease_until has it.
TokenNamesOneLease == [][\A w \in Workers : Frees(w) => holder = w]_vars

\* While a worker's lease runs nobody else drives the transaction on a lease
\* that runs too, however often schedule_now, retry and abort are called.
Exclusive ==
  tt = "saga" =>
    \A v, w \in Workers : token[v] > now /\ token[w] > now => v = w

\* A request to process the transaction now is never postponed by the back-off
\* of the worker that held the lease when it came.
RequestKept == requested # 0 => next_cron_time <= now

\* A transaction that is under way is due again before long, by the longest of
\* the delays the code uses: its holder may die at any moment, an abort may
\* never get to schedule_now, and the row still comes back.
DueAgain ==
  status \in {"submitted", "aborting"} =>
    \E delay \in {LeaseSecs, RetryMax, Timeout, Grace} : next_cron_time <= now + delay

\* Calling schedule_now after an abort only spares it a back-off, as the
\* comment in Api::abort has it: the row is due in any case.
AbortedIsDue == status = "aborting" /\ abort = "none" => next_cron_time < NEVER

=============================================================================
