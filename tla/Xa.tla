--------------------------------- MODULE Xa ---------------------------------
(***************************************************************************)
(* One XA transaction: the participants that register a branch, run their  *)
(* SQL and prepare it in their database (dtmrs-xa), the caller that        *)
(* submits or aborts, the prepared timeout, and Driver::drive_two_phase    *)
(* with workers that resolve what is prepared.  There is no barrier: what  *)
(* a database no longer knows, or does not know yet, counts as resolved.   *)
(*                                                                         *)
(* Participants number their branches themselves, in any order, so there   *)
(* may be holes.  Leases and the clock are left out as in TwoPhase.        *)
(***************************************************************************)
EXTENDS Core

CONSTANTS
  N,          \* branches are numbered 1..N
  Workers,    \* worker loops and detached drivers
  Deployments \* of {"sql", "sql_inline", "redis", "redis_inline"}

ASSUME NAssumption == N \in Nat \ {0}
ASSUME DeploymentsAssumption ==
  Deployments \subseteq {"sql", "sql_inline", "redis", "redis_inline"}

VARIABLES
  deployment,   \* which store, and may the API drive what it submits itself?
  status,       \* trans_global.status
  rows,         \* branches with rows in trans_branch_op
  commit,       \* status of the commit row of each branch
  rollback,     \* status of the rollback row of each branch
  caller,       \* whoever began the transaction
  submitting,   \* "read": a submit_prepared between its two SQL statements
  part,         \* where the participant of each branch is
  registering,  \* register_branch calls that have passed their check
  xact,         \* each branch's transaction in its database
  wk,           \* each worker: pc, its copy of the status, n, job, reply
  sent,         \* every <<op, branch>> ever sent
  known,        \* history: rows when the status left prepared ...
  held          \* ... and those of them that were prepared in their database

store == <<deployment, status, rows, commit, rollback>>
client == <<caller, submitting>>
parts == <<part, registering>>
history == <<known, held>>
vars == <<deployment, status, rows, commit, rollback, caller, submitting, part, registering, xact,
          wk, sent, known, held>>

Branch == 1 .. N
XaOp == {"commit", "rollback"}
Jobs == [kind : {"call", "finish", "wait"}, op : XaOp \cup {"none"},
         index : 0 .. N, to : GlobalStatus \cup {"none"}]

OnRedis == deployment \in {"redis", "redis_inline"}
Inline == deployment \in {"sql_inline", "redis_inline"}

\* A worker that drives nothing.
Idle == [pc |-> "idle", st |-> "prepared", n |-> 0, job |-> Wait, reply |-> "none"]

TypeOK ==
  /\ deployment \in Deployments
  /\ status \in GlobalStatus \cup {"absent"}
  /\ rows \subseteq Branch /\ registering \subseteq Branch
  /\ known \subseteq Branch /\ held \subseteq known
  /\ commit \in [Branch -> BranchStatus] /\ rollback \in [Branch -> BranchStatus]
  /\ caller \in {"new", "open", "gone"}
  /\ submitting \in {"none", "read"}
  /\ part \in [Branch -> {"none", "checked", "registered", "working", "waiting",
                          "ready", "failed"}]
  /\ xact \in [Branch -> {"none", "active", "preparing", "prepared", "committed",
                          "rolledback"}]
  /\ wk \in [Workers -> [pc : {"idle", "process", "loop", "call", "transition"},
                         st : {"prepared", "submitted", "aborting"}, n : 0 .. N,
                         job : Jobs, reply : {"none", "success", "failure"}]]
  /\ sent \subseteq XaOp \X rows

Init ==
  /\ deployment \in Deployments
  /\ status = "absent"
  /\ rows = {} /\ registering = {} /\ known = {} /\ held = {}
  /\ commit = [i \in Branch |-> "prepared"] /\ rollback = [i \in Branch |-> "prepared"]
  /\ caller = "new" /\ submitting = "none"
  /\ part = [i \in Branch |-> "none"]
  /\ xact = [i \in Branch |-> "none"]
  /\ wk = [w \in Workers |-> Idle]
  /\ sent = {}

-----------------------------------------------------------------------------
(***************************************************************************)
(* The participants and their databases.                                   *)
(***************************************************************************)

\* Api::register_branch looks at the status ...
RegisterRead(i) ==
  /\ caller = "open" /\ part[i] = "none"
  /\ IF status \in {"prepared", "submitted"}
     THEN part' = [part EXCEPT ![i] = "checked"] /\ registering' = registering \cup {i}
     ELSE part' = [part EXCEPT ![i] = "failed"] /\ UNCHANGED registering
  /\ UNCHANGED <<store, client, xact, wk, sent, history>>

\* ... and writes the rows of commit and rollback.
RegisterWrite(i) ==
  /\ i \in registering
  /\ registering' = registering \ {i}
  /\ rows' = rows \cup {i}
  /\ part' = [part EXCEPT ![i] = IF @ = "checked" THEN "registered" ELSE @]
  /\ UNCHANGED <<deployment, status, commit, rollback, client, xact, wk, sent, history>>

\* Xa::begin, once the branch is registered; then the business SQL.
XaBegin(i) ==
  /\ part[i] = "registered"
  /\ part' = [part EXCEPT ![i] = "working"]
  /\ xact' = [xact EXCEPT ![i] = "active"]
  /\ UNCHANGED <<store, client, registering, wk, sent, history>>

\* XaBranch::prepare sends PREPARE TRANSACTION, or XA END and XA PREPARE.
Prepare(i) ==
  /\ part[i] = "working"
  /\ part' = [part EXCEPT ![i] = "waiting"]
  /\ xact' = [xact EXCEPT ![i] = "preparing"]
  /\ UNCHANGED <<store, client, registering, wk, sent, history>>

\* XaBranch::discard.
Discard(i) ==
  /\ part[i] = "working"
  /\ part' = [part EXCEPT ![i] = "failed"]
  /\ xact' = [xact EXCEPT ![i] = "rolledback"]
  /\ UNCHANGED <<store, client, registering, wk, sent, history>>

\* The database prepares: from now on the change is durable, and locked.
Prepared(i) ==
  /\ xact[i] = "preparing"
  /\ xact' = [xact EXCEPT ![i] = "prepared"]
  /\ UNCHANGED <<store, client, parts, wk, sent, history>>

\* Or it refuses.
Refused(i) ==
  /\ part[i] = "waiting" /\ xact[i] = "preparing"
  /\ part' = [part EXCEPT ![i] = "failed"]
  /\ xact' = [xact EXCEPT ![i] = "rolledback"]
  /\ UNCHANGED <<store, client, registering, wk, sent, history>>

PrepareOk(i) ==
  /\ part[i] = "waiting" /\ xact[i] # "preparing"
  /\ part' = [part EXCEPT ![i] = "ready"]
  /\ UNCHANGED <<store, client, registering, xact, wk, sent, history>>

\* The participant dies, or loses sight of what it asked for.
Lost(i) ==
  /\ part[i] \in {"checked", "registered", "working", "waiting"}
  /\ part' = [part EXCEPT ![i] = "failed"]
  /\ UNCHANGED <<store, client, registering, xact, wk, sent, history>>

\* XaBranch::drop detaches and closes the connection, as does a crash: what is
\* not prepared the database rolls back.
Disconnect(i) ==
  /\ part[i] = "failed" /\ xact[i] \in {"active", "preparing"}
  /\ xact' = [xact EXCEPT ![i] = "rolledback"]
  /\ UNCHANGED <<store, client, parts, wk, sent, history>>

\* Mutant of Resolve: what is not found is an error for ever.
ResolveStrict(op, i, r) ==
  LET done == IF op = "commit" THEN "committed" ELSE "rolledback"
  IN \/ r = "success" /\ xact[i] = "prepared" /\ xact' = [xact EXCEPT ![i] = done]
     \/ r = "failure" /\ UNCHANGED xact

\* resolve, from the branch's commit and rollback handlers: Done, or
\* AlreadyResolved if the database does not know the xid, which is a success
\* as well.
Resolve(op, i, r) ==
  LET done == IF op = "commit" THEN "committed" ELSE "rolledback"
  IN \/ r = "success" /\ xact' = [xact EXCEPT ![i] = IF @ = "prepared" THEN done ELSE @]
     \/ r = "failure" /\ UNCHANGED xact

\* A call that timed out, or a copy of one, arrives.
ExecuteStray ==
  /\ \E c \in sent : Resolve(c[1], c[2], "success")
  /\ UNCHANGED <<store, client, parts, wk, sent, history>>

-----------------------------------------------------------------------------
(***************************************************************************)
(* The caller, which may fall silent at any point: nothing makes it go on. *)
(***************************************************************************)

\* Mutant of Decides: whatever is not over can be decided again.
DecidesAgain(to) ==
  IF ~IsFinal(status)
  THEN status' = to /\ known' = rows /\ held' = {i \in rows : xact[i] = "prepared"}
  ELSE UNCHANGED <<status, history>>

\* The UPDATE of submit_prepared and the comparison in abort: only what is
\* prepared can be decided.
Decides(to) ==
  IF status = "prepared"
  THEN /\ status' = to
       /\ known' = rows
       /\ held' = {i \in rows : xact[i] = "prepared"}
  ELSE UNCHANGED <<status, history>>

Begin ==
  /\ caller = "new"
  /\ caller' = "open"
  /\ status' = "prepared"
  /\ UNCHANGED <<deployment, rows, commit, rollback, submitting, parts, xact, wk, sent, history>>

\* drive_detached: the API process drives what it has just submitted.
DriveDetached(w) ==
  /\ wk[w] = Idle
  /\ wk' = [wk EXCEPT ![w].pc = "process", ![w].st = "submitted"]

\* Every participant the caller asked has prepared: Api::submit.  SQL reads the
\* row and is done unless it is prepared ...
SubmitRead ==
  /\ caller = "open" /\ \A i \in Branch : part[i] \in {"none", "ready"}
  /\ caller' = "gone"
  /\ submitting' = IF status = "prepared" THEN "read" ELSE "none"
  /\ UNCHANGED <<store, parts, xact, wk, sent, history>>

\* ... then writes it if it still is and, whether it was or not, may drive it as
\* submitted.
SubmitWrite ==
  /\ submitting = "read"
  /\ submitting' = "none"
  /\ Decides("submitted")
  /\ \/ UNCHANGED wk
     \/ Inline /\ \E w \in Workers : DriveDetached(w)
  /\ UNCHANGED <<deployment, rows, commit, rollback, caller, parts, xact, sent>>

\* Redis does both in one script, and drives only what that has changed.
SubmitAtomic ==
  /\ caller = "open" /\ \A i \in Branch : part[i] \in {"none", "ready"}
  /\ caller' = "gone"
  /\ Decides("submitted")
  /\ \/ UNCHANGED wk
     \/ Inline /\ status = "prepared" /\ \E w \in Workers : DriveDetached(w)
  /\ UNCHANGED <<deployment, rows, commit, rollback, submitting, parts, xact, sent>>

Submit ==
  \/ ~OnRedis /\ (SubmitRead \/ SubmitWrite)
  \/ OnRedis /\ SubmitAtomic

\* Api::abort, from the caller or anyone else, at any time: what is decided
\* refuses it.
Abort ==
  /\ status # "absent"
  /\ Decides("aborting")
  /\ UNCHANGED <<deployment, rows, commit, rollback, client, parts, xact, wk, sent>>

-----------------------------------------------------------------------------
(***************************************************************************)
(* The driver.                                                             *)
(***************************************************************************)
EndRound(w) == wk' = [wk EXCEPT ![w] = Idle]

Lock(w) ==
  /\ wk[w].pc = "idle"
  /\ Schedulable(status, "xa")
  /\ wk' = [wk EXCEPT ![w].pc = "process", ![w].st = status]
  /\ UNCHANGED <<store, client, parts, xact, sent, history>>

\* Store::transition as the driver calls it: SQL compares, Redis compares only
\* where somebody else may write.
CanTransition(w) ==
  \/ status = wk[w].st
  \/ OnRedis /\ ~StatusContested(wk[w].st, "xa")

\* A prepared transaction past its deadline is rolled back.
PreparedTimeout(w) ==
  /\ wk[w].pc = "process" /\ wk[w].st = "prepared"
  /\ IF CanTransition(w)
     THEN /\ status' = "aborting"
          /\ known' = rows /\ held' = {i \in rows : xact[i] = "prepared"}
          /\ wk' = [wk EXCEPT ![w].st = "aborting"]
     ELSE EndRound(w) /\ UNCHANGED <<status, history>>
  /\ UNCHANGED <<deployment, rows, commit, rollback, client, parts, xact, sent>>

NotDue(w) ==
  /\ wk[w].pc = "process" /\ wk[w].st = "prepared"
  /\ EndRound(w)
  /\ UNCHANGED <<store, client, parts, xact, sent, history>>

\* Mutant of Highest: the highest index, which counts from 0, for the number.
HighestIndex(S) == IF S = {} THEN 0 ELSE Last(S) - 1

\* The highest branch number says how many branches there are.
Highest(S) == IF S = {} THEN 0 ELSE Last(S)

Count(w) ==
  LET n == Highest(rows)
      end == Finish(IF wk[w].st = "aborting" THEN "failed" ELSE "succeed")
  IN /\ wk[w].pc = "process" /\ wk[w].st # "prepared"
     /\ wk' = [wk EXCEPT ![w].n = n,
                         ![w].pc = IF n = 0 THEN "transition" ELSE "loop",
                         ![w].job = IF n = 0 THEN end ELSE @]
     /\ UNCHANGED <<store, client, parts, xact, sent, history>>

\* A number nobody has registered has no URL: the round is over.
Advance(w) ==
  LET first(v) == [i \in 1 .. wk[w].n |-> v[i]]
      d == XaAdvance(wk[w].st, first(commit), first(rollback))
      hole == d.kind = "call" /\ d.index \notin rows
  IN /\ wk[w].pc = "loop"
     /\ IF hole THEN EndRound(w)
        ELSE wk' = [wk EXCEPT ![w].pc = IF d.kind = "call" THEN "call" ELSE "transition",
                              ![w].job = d]
     /\ sent' = IF d.kind = "call" /\ ~hole THEN sent \cup {<<d.op, d.index>>} ELSE sent
     /\ UNCHANGED <<store, client, parts, xact, history>>

Execute(w) ==
  /\ wk[w].pc = "call" /\ wk[w].reply = "none"
  /\ \E r \in {"success", "failure"} :
       Resolve(wk[w].job.op, wk[w].job.index, r) /\ wk' = [wk EXCEPT ![w].reply = r]
  /\ UNCHANGED <<store, client, parts, sent, history>>

\* SUCCESS and FAILURE are recorded; after the latter the branch will be called
\* again, in the same direction.
Record(w) ==
  LET s == IF wk[w].reply = "success" THEN "succeed" ELSE "failed"
      i == wk[w].job.index
  IN /\ wk[w].pc = "call" /\ wk[w].reply # "none"
     /\ IF wk[w].job.op = "commit"
        THEN commit' = [commit EXCEPT ![i] = s] /\ UNCHANGED rollback
        ELSE rollback' = [rollback EXCEPT ![i] = s] /\ UNCHANGED commit
     /\ IF s = "succeed"
        THEN wk' = [wk EXCEPT ![w].pc = "loop", ![w].job = Wait, ![w].reply = "none"]
        ELSE EndRound(w)
     /\ UNCHANGED <<deployment, status, rows, client, parts, xact, sent, history>>

\* ONGOING, or no usable answer: retry_later.
NoAnswer(w) ==
  /\ wk[w].pc = "call"
  /\ EndRound(w)
  /\ UNCHANGED <<store, client, parts, xact, sent, history>>

Transition(w) ==
  /\ wk[w].pc = "transition"
  /\ status' = IF CanTransition(w) THEN wk[w].job.to ELSE status
  /\ EndRound(w)
  /\ UNCHANGED <<deployment, rows, commit, rollback, client, parts, xact, sent, history>>

Crash(w) ==
  /\ wk[w].pc # "idle"
  /\ EndRound(w)
  /\ UNCHANGED <<store, client, parts, xact, sent, history>>

-----------------------------------------------------------------------------
Next ==
  \/ Begin \/ Submit \/ Abort \/ ExecuteStray
  \/ \E i \in Branch :
       \/ RegisterRead(i) \/ RegisterWrite(i) \/ XaBegin(i) \/ Prepare(i) \/ Discard(i)
       \/ Prepared(i) \/ Refused(i) \/ PrepareOk(i) \/ Lost(i) \/ Disconnect(i)
  \/ \E w \in Workers :
       \/ Lock(w) \/ PreparedTimeout(w) \/ NotDue(w) \/ Count(w) \/ Advance(w)
       \/ Execute(w) \/ Record(w) \/ NoAnswer(w) \/ Transition(w)
       \/ Crash(w)

Spec == Init /\ [][Next]_vars

(***************************************************************************)
(* Fairness.  One worker keeps polling and gets through its rounds, the    *)
(* others may stop for good; a handler that is called again and again in   *)
(* the end reaches its database.  Nothing is assumed of caller and         *)
(* participants.                                                           *)
(***************************************************************************)
Succeeds(w) == Execute(w) /\ wk'[w].reply = "success"

Fairness ==
  LET w == CHOOSE x \in Workers : TRUE IN
    /\ WF_vars(Lock(w))
    /\ SF_vars(PreparedTimeout(w))
    /\ SF_vars(Count(w))
    /\ SF_vars(Advance(w))
    /\ WF_vars(Record(w))
    /\ SF_vars(Succeeds(w))
    /\ SF_vars(Record(w) /\ wk[w].reply = "success")
    /\ SF_vars(Transition(w))

FairSpec == Spec /\ Fairness

-----------------------------------------------------------------------------
(***************************************************************************)
(* Properties.                                                             *)
(***************************************************************************)

\* No branch is committed in its database while another is rolled back there,
\* whatever the participants, stale workers, late calls and the timeout do.
AllOrNothing == ~ \E i, j \in Branch : xact[i] = "committed" /\ xact[j] = "rolledback"

\* Why commit_prepared may count an unknown xid as a success: a commit that is
\* recorded as a success has taken place, here or earlier.
RecordedIsCommitted == \A i \in Branch : commit[i] = "succeed" => xact[i] = "committed"

\* A decided transaction is decided in every database that had prepared when
\* the decision fell, and a success leaves no transaction open anywhere.
DecidedIsWhole ==
  /\ status = "succeed" =>
       /\ \A i \in known : xact[i] = "committed"
       /\ \A i \in Branch : xact[i] \in {"none", "committed"}
  /\ status = "failed" =>
       /\ \A i \in held : xact[i] = "rolledback"
       /\ \A i \in Branch : xact[i] # "committed"

\* The refinement of Commitment.  What counts in a database is what is prepared.
Decision ==
  CASE status \in {"absent", "prepared"} -> "open"
    [] status = "submitted" -> "commit"
    [] status = "aborting" -> "abort"
    [] status = "succeed" -> "committed"
    [] status = "failed" -> "aborted"
Shows(i) ==
  CASE xact[i] \in {"none", "active", "preparing"} -> "none"
    [] xact[i] = "prepared" -> "held"
    [] xact[i] = "committed" -> "done"
    [] xact[i] = "rolledback" -> "undone"
Effect == [i \in Branch |-> Shows(i)]
Promise == INSTANCE Commitment WITH decision <- Decision, effect <- Effect, counted <- held

\* XA is an atomic commitment across the participants' databases: it is decided
\* once, submitted only while every database that began holds its part, and no
\* database that has prepared moves before the decision or against it, although
\* resolve answers SUCCESS to xids it does not know and workers, participants
\* and sessions die (dtmrs-xa, Embedded::submit, drive_two_phase).
Implements == Promise!CSpec

\* A branch number below the highest that nobody has registered.
Hole == \E i \in 1 .. Highest(rows) : i \notin rows

\* No lock is held for ever by a branch the coordinator knows of: a transaction
\* that somebody has begun is decided although caller, participants and workers
\* die, and what was prepared in its databases by then is resolved.  Only a
\* hole in the numbering can hold it up.
Resolved ==
  (status = "prepared") ~>
    \/ IsFinal(status) /\ \A i \in held : xact[i] # "prepared"
    \/ Hole

\* Once a transaction has failed no database has a prepared branch of it.
NoneLeftPrepared == status = "failed" => \A i \in Branch : xact[i] # "prepared"

=============================================================================
