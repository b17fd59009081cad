------------------------------ MODULE XaProofs ------------------------------
(***************************************************************************)
(* Proofs about Xa for every number of branches, numbered with holes or    *)
(* without, and every set of workers.  They hold in every deployment but   *)
(* SQL with inline drivers, where MCXaSql.cfg shows RecordedIsCommitted    *)
(* violated; the theorems name that hypothesis.                            *)
(***************************************************************************)
EXTENDS Xa, CoreProofs

-----------------------------------------------------------------------------
(***************************************************************************)
(* The inductive invariant.                                                *)
(***************************************************************************)

\* A call in progress was sent, for a branch with rows.  A commit answered
\* SUCCESS has taken place; a rollback has, where the branch was prepared when
\* the decision fell.
CallsOK ==
  \A w \in Workers :
    /\ wk[w].pc # "call" => wk[w].reply = "none"
    /\ wk[w].pc = "call" =>
         /\ wk[w].job.op \in XaOp /\ wk[w].job.index \in rows
         /\ <<wk[w].job.op, wk[w].job.index>> \in sent
    /\ wk[w].pc = "call" /\ wk[w].reply = "success" =>
         /\ wk[w].job.op = "commit" => xact[wk[w].job.index] = "committed"
         /\ wk[w].job.op = "rollback" /\ wk[w].job.index \in held =>
              xact[wk[w].job.index] = "rolledback"

\* The same of the branch rows.
RecordedOK ==
  \A i \in Branch :
    /\ commit[i] = "succeed" => xact[i] = "committed"
    /\ rollback[i] = "succeed" =>
         /\ <<"rollback", i>> \in sent
         /\ i \in held => xact[i] = "rolledback"

\* However old a worker's copy is, it does not err about the direction: a
\* detached driver, whose copy is never read, starts only where submit compared.
CopyOK ==
  /\ deployment # "sql_inline"
  /\ \A w \in Workers :
       /\ wk[w].st = "aborting" => status \in {"aborting", "failed"}
       /\ wk[w].st = "submitted" => status \in {"submitted", "succeed"}

\* Calls leave only in the direction that was decided, and a commit takes
\* place only there.
DirectionOK ==
  \A i \in Branch :
    /\ <<"commit", i>> \in sent => status \in {"submitted", "succeed"}
    /\ <<"rollback", i>> \in sent => status \in {"aborting", "failed"}
    /\ xact[i] = "committed" => status \in {"submitted", "succeed"}

\* How far a participant is says what its database has, and whether the
\* coordinator knows the branch: it is registered before it works.
PartOK ==
  \A i \in Branch :
    /\ part[i] \in {"none", "checked", "registered"} => xact[i] = "none"
    /\ part[i] = "working" => xact[i] = "active"
    /\ part[i] = "waiting" => xact[i] \in {"preparing", "prepared", "rolledback"}
    /\ part[i] = "ready" => xact[i] \in {"prepared", "committed", "rolledback"}
    /\ part[i] \in {"waiting", "ready"} /\ xact[i] = "rolledback" =>
         status \in {"aborting", "failed"}
    /\ i \in registering => part[i] \in {"checked", "failed"}
    /\ part[i] = "checked" => i \in registering
    /\ part[i] \in {"registered", "working", "waiting", "ready"} => i \in rows
    /\ i \in rows => part[i] \notin {"none", "checked"}

\* Once submit has begun, the branches are the ones that are ready, for good.
SubmittedOK ==
  /\ caller = "new" <=> status = "absent"
  /\ submitting = "read" \/ status \in {"submitted", "succeed"} =>
       caller = "gone" /\ \A i \in Branch : part[i] \in {"none", "ready"}
  /\ status \in {"submitted", "succeed"} => known = rows

\* What was prepared when the decision fell is prepared or resolved.
HeldOK ==
  /\ known \subseteq rows
  /\ \A i \in held : xact[i] \in {"prepared", "committed", "rolledback"}

\* A worker beyond the count has counted every branch of the decision.
CountOK ==
  \A w \in Workers :
    wk[w].pc \in {"loop", "call", "transition"} =>
      wk[w].st # "prepared" /\ \A i \in known : i <= wk[w].n

\* What a worker about to write the final status knows of the databases.
DecidedOK ==
  \A w \in Workers :
    wk[w].pc = "transition" =>
      \/ /\ wk[w].job.to = "succeed" /\ wk[w].st = "submitted"
         /\ \A i \in known : xact[i] = "committed"
      \/ /\ wk[w].job.to = "failed" /\ wk[w].st = "aborting"
         /\ \A i \in held : xact[i] = "rolledback"

\* A final status keeps what the deciding worker knew.
FinalOK ==
  /\ status = "succeed" => \A i \in known : xact[i] = "committed"
  /\ status = "failed" => \A i \in held : xact[i] = "rolledback"

IInv ==
  /\ TypeOK /\ CallsOK /\ RecordedOK /\ CopyOK /\ DirectionOK /\ PartOK
  /\ SubmittedOK /\ HeldOK /\ CountOK /\ DecidedOK /\ FinalOK

-----------------------------------------------------------------------------
(***************************************************************************)
(* Preservation, one lemma per kind of step.                               *)
(***************************************************************************)

\* The state of one worker.
WorkerState ==
  [pc : {"idle", "process", "loop", "call", "transition"},
   st : {"prepared", "submitted", "aborting"}, n : 0 .. N,
   job : Jobs, reply : {"none", "success", "failure"}]

\* The highest number counts at least as far as every branch there is.
LEMMA HighestCounts ==
  ASSUME NEW S \in SUBSET Branch
  PROVE  /\ Highest(S) \in 0 .. N
         /\ \A i \in S : i <= Highest(S)
         /\ Highest(S) = 0 => S = {}
<1>1. CASE S = {}
  BY <1>1, NAssumption DEF Highest
<1>2. CASE S # {}
  <2>1. Last(S) \in S /\ \A j \in S : j <= Last(S)
    BY <1>2, NAssumption, LastIsGreatest DEF Branch
  <2>2. Highest(S) = Last(S) /\ Last(S) \in 1 .. N
    BY <1>2, <2>1 DEF Highest, Branch
  <2>3. 1 .. N \subseteq 0 .. N /\ 0 \notin 1 .. N
    BY NAssumption
  <2> QED BY <2>1, <2>2, <2>3
<1> QED BY <1>1, <1>2

\* The initial state satisfies the invariant.
LEMMA InitInv ==
  ASSUME "sql_inline" \notin Deployments
  PROVE  Init => IInv
<1> SUFFICES ASSUME Init PROVE IInv
  OBVIOUS
<1>1. Idle \in WorkerState
  BY NAssumption DEF Idle, WorkerState, Wait, Jobs
<1>2. TypeOK
  BY <1>1 DEF Init, TypeOK, WorkerState, BranchStatus, GlobalStatus
<1>3. CallsOK /\ RecordedOK /\ CopyOK /\ DirectionOK /\ PartOK
  BY DEF Init, Idle, CallsOK, RecordedOK, CopyOK, DirectionOK, PartOK
<1>4. SubmittedOK /\ HeldOK /\ CountOK /\ DecidedOK /\ FinalOK
  BY DEF Init, Idle, SubmittedOK, HeldOK, CountOK, DecidedOK, FinalOK
<1> QED BY <1>2, <1>3, <1>4 DEF IInv

\* Steps of participants, databases and stray calls leave the coordinator
\* alone, and keep what it knows if they never take back what a database has
\* prepared or resolved, except in the direction that was decided.
LEMMA DatabaseInv ==
  ASSUME IInv,
         UNCHANGED <<deployment, status, commit, rollback, caller, submitting, wk, sent, known,
                     held>>,
         rows \subseteq rows', rows' \subseteq Branch, registering' \subseteq Branch,
         part' \in [Branch -> {"none", "checked", "registered", "working", "waiting",
                               "ready", "failed"}],
         xact' \in [Branch -> {"none", "active", "preparing", "prepared", "committed",
                               "rolledback"}],
         \A i \in Branch : xact[i] \in {"committed", "rolledback"} => xact'[i] = xact[i],
         \A i \in Branch : xact[i] = "prepared" =>
            xact'[i] \in {"prepared", "committed", "rolledback"},
         \A i \in Branch : xact'[i] = "committed" =>
            xact[i] = "committed" \/ status \in {"submitted", "succeed"}
  PROVE  /\ TypeOK' /\ CallsOK' /\ RecordedOK' /\ CopyOK' /\ DirectionOK'
         /\ HeldOK' /\ CountOK' /\ DecidedOK' /\ FinalOK'
<1> USE DEF IInv
<1>1. rows \subseteq Branch /\ held \subseteq Branch /\ known \subseteq Branch
  BY DEF TypeOK
<1>2. TypeOK'
  <2>1. sent' \subseteq XaOp \X rows'
    BY DEF TypeOK
  <2> QED BY <2>1 DEF TypeOK
<1>3. CallsOK' /\ RecordedOK'
  <2>1. CallsOK'
    BY <1>1 DEF CallsOK
  <2>2. RecordedOK'
    BY <1>1 DEF RecordedOK
  <2> QED BY <2>1, <2>2
<1>4. CopyOK' /\ CountOK'
  BY DEF CopyOK, CountOK
<1>5. DirectionOK'
  BY DEF DirectionOK
<1>6. HeldOK'
  BY <1>1 DEF HeldOK
<1>7. DecidedOK' /\ FinalOK'
  BY <1>1 DEF DecidedOK, FinalOK
<1> QED BY <1>2, <1>3, <1>4, <1>5, <1>6, <1>7

\* The participants: registration, the work, and its preparation.
LEMMA ParticipantInv ==
  ASSUME IInv, NEW i \in Branch,
         \/ RegisterRead(i) \/ RegisterWrite(i) \/ XaBegin(i) \/ Prepare(i) \/ Discard(i)
         \/ Prepared(i) \/ Refused(i) \/ PrepareOk(i) \/ Lost(i) \/ Disconnect(i)
  PROVE  IInv'
<1> USE DEF IInv
<1>1. UNCHANGED <<deployment, status, commit, rollback, caller, submitting, wk, sent, known,
                  held>>
  BY DEF RegisterRead, RegisterWrite, XaBegin, Prepare, Discard, Prepared, Refused,
     PrepareOk, Lost, Disconnect, store, client, history
<1>2. /\ part \in [Branch -> {"none", "checked", "registered", "working", "waiting",
                             "ready", "failed"}]
      /\ xact \in [Branch -> {"none", "active", "preparing", "prepared", "committed",
                              "rolledback"}]
      /\ rows \subseteq Branch /\ registering \subseteq Branch
  BY DEF TypeOK
<1> DEFINE Types == /\ part' \in [Branch -> {"none", "checked", "registered", "working",
                                             "waiting", "ready", "failed"}]
                    /\ xact' \in [Branch -> {"none", "active", "preparing", "prepared",
                                             "committed", "rolledback"}]
           Keeps == /\ \A k \in Branch :
                         xact[k] \in {"prepared", "committed", "rolledback"} => xact'[k] = xact[k]
                    /\ \A k \in Branch : xact'[k] = "committed" => xact[k] = "committed"
<1>3. CASE RegisterRead(i)
  <2>1. /\ caller = "open" /\ part[i] = "none" /\ rows' = rows /\ xact' = xact
        /\ \/ /\ part' = [part EXCEPT ![i] = "checked"]
              /\ registering' = registering \cup {i}
           \/ part' = [part EXCEPT ![i] = "failed"] /\ registering' = registering
    BY <1>3 DEF RegisterRead, store
  <2>2. Types /\ Keeps /\ registering' \subseteq Branch
    BY <1>2, <2>1
  <2>3. PartOK' /\ SubmittedOK'
    BY <1>1, <1>2, <2>1 DEF PartOK, SubmittedOK
  <2> QED BY <1>1, <1>2, <2>1, <2>2, <2>3, DatabaseInv
<1>4. CASE RegisterWrite(i)
  <2>1. /\ i \in registering /\ registering' = registering \ {i} /\ xact' = xact
        /\ rows' = rows \cup {i}
        /\ part' = [part EXCEPT ![i] = IF part[i] = "checked" THEN "registered" ELSE part[i]]
    BY <1>4 DEF RegisterWrite
  <2>2. part[i] \in {"checked", "failed"} /\ status \notin {"submitted", "succeed"}
    BY <2>1 DEF PartOK, SubmittedOK
  <2>3. Types /\ Keeps /\ registering' \subseteq Branch /\ rows' \subseteq Branch
    BY <1>2, <2>1
  <2>4. PartOK' /\ SubmittedOK'
    BY <1>1, <1>2, <2>1, <2>2 DEF PartOK, SubmittedOK
  <2> QED BY <1>1, <2>1, <2>3, <2>4, DatabaseInv
<1>5. CASE XaBegin(i) \/ Prepare(i) \/ Discard(i) \/ Prepared(i) \/ Refused(i)
           \/ PrepareOk(i) \/ Lost(i) \/ Disconnect(i)
  <2>1. rows' = rows /\ registering' = registering
    BY <1>5 DEF XaBegin, Prepare, Discard, Prepared, Refused, PrepareOk, Lost, Disconnect,
       store, parts
  <2>2. CASE XaBegin(i) \/ Prepare(i) \/ Discard(i) \/ Refused(i) \/ Disconnect(i)
    <3>1. Types /\ Keeps
      BY <1>2, <2>2 DEF XaBegin, Prepare, Discard, Refused, Disconnect, parts, PartOK
    <3>2. PartOK' /\ SubmittedOK'
      BY <1>1, <1>2, <2>1, <2>2 DEF XaBegin, Prepare, Discard, Refused, Disconnect, parts,
         PartOK, SubmittedOK
    <3> QED BY <1>1, <1>2, <2>1, <3>1, <3>2, DatabaseInv
  <2>3. CASE Prepared(i) \/ PrepareOk(i) \/ Lost(i)
    <3>1. Types /\ Keeps
      BY <1>2, <2>3 DEF Prepared, PrepareOk, Lost, parts
    <3>2. PartOK' /\ SubmittedOK'
      BY <1>1, <1>2, <2>1, <2>3 DEF Prepared, PrepareOk, Lost, parts, PartOK, SubmittedOK
    <3> QED BY <1>1, <1>2, <2>1, <3>1, <3>2, DatabaseInv
  <2> QED BY <1>5, <2>2, <2>3
<1> QED BY <1>3, <1>4, <1>5

\* What resolve does: a prepared branch goes the way of the op, and after a
\* SUCCESS it has.
LEMMA ResolveEffect ==
  ASSUME IInv, NEW op \in XaOp, NEW i \in rows, NEW r \in {"success", "failure"},
         <<op, i>> \in sent, Resolve(op, i, r)
  PROVE  /\ xact' \in [Branch -> {"none", "active", "preparing", "prepared", "committed",
                                  "rolledback"}]
         /\ \A k \in Branch :
              \/ xact'[k] = xact[k]
              \/ /\ xact[k] = "prepared"
                 /\ \/ xact'[k] = "committed" /\ status \in {"submitted", "succeed"}
                    \/ xact'[k] = "rolledback" /\ status \in {"aborting", "failed"}
         /\ r = "success" /\ op = "commit" => xact'[i] = "committed"
         /\ r = "success" /\ op = "rollback" /\ i \in held => xact'[i] = "rolledback"
<1> USE DEF IInv
<1>1. /\ i \in Branch /\ op \in {"commit", "rollback"}
      /\ xact \in [Branch -> {"none", "active", "preparing", "prepared", "committed",
                              "rolledback"}]
  BY DEF TypeOK, XaOp
<1>2. /\ op = "commit" => status \in {"submitted", "succeed"}
      /\ op = "rollback" => status \in {"aborting", "failed"}
  BY <1>1 DEF DirectionOK
<1>3. CASE r = "failure"
  BY <1>1, <1>3 DEF Resolve
<1>4. CASE r = "success" /\ op = "commit"
  <2>1. xact' = [xact EXCEPT ![i] = IF xact[i] = "prepared" THEN "committed" ELSE xact[i]]
    BY <1>4 DEF Resolve
  <2>2. xact[i] \in {"prepared", "committed"}
    BY <1>1, <1>2, <1>4 DEF PartOK, SubmittedOK
  <2> QED BY <1>1, <1>2, <1>4, <2>1, <2>2
<1>5. CASE r = "success" /\ op = "rollback"
  <2>1. xact' = [xact EXCEPT ![i] = IF xact[i] = "prepared" THEN "rolledback" ELSE xact[i]]
    BY <1>5 DEF Resolve
  <2>2. i \in held => xact[i] \in {"prepared", "rolledback"}
    BY <1>1, <1>2, <1>5 DEF HeldOK, DirectionOK
  <2> QED BY <1>1, <1>2, <1>5, <2>1, <2>2
<1> QED BY <1>1, <1>3, <1>4, <1>5

\* Executing a call that was sent, awaited or not: the rest of what was known
\* survives, whatever happens to the worker's reply.
LEMMA ResolveInv ==
  ASSUME IInv, NEW op \in XaOp, NEW i \in rows, NEW r \in {"success", "failure"},
         <<op, i>> \in sent, Resolve(op, i, r),
         UNCHANGED <<deployment, status, rows, commit, rollback, caller, submitting, part,
                     registering, wk, sent, known, held>>
  PROVE  IInv'
<1> USE DEF IInv
<1>1. /\ xact' \in [Branch -> {"none", "active", "preparing", "prepared", "committed",
                               "rolledback"}]
      /\ \A k \in Branch :
           \/ xact'[k] = xact[k]
           \/ /\ xact[k] = "prepared"
              /\ \/ xact'[k] = "committed" /\ status \in {"submitted", "succeed"}
                 \/ xact'[k] = "rolledback" /\ status \in {"aborting", "failed"}
  BY ResolveEffect
<1>2. /\ TypeOK' /\ CallsOK' /\ RecordedOK' /\ CopyOK' /\ DirectionOK'
      /\ HeldOK' /\ CountOK' /\ DecidedOK' /\ FinalOK'
  <2>1. /\ rows' \subseteq Branch /\ registering' \subseteq Branch
        /\ part' \in [Branch -> {"none", "checked", "registered", "working", "waiting",
                                 "ready", "failed"}]
    BY DEF TypeOK
  <2> QED BY <1>1, <2>1, DatabaseInv
<1>3. PartOK' /\ SubmittedOK'
  BY <1>1 DEF PartOK, SubmittedOK
<1> QED BY <1>2, <1>3

\* A stray call is executed.
LEMMA ExecuteStrayInv ==
  ASSUME IInv, ExecuteStray
  PROVE  IInv'
<1>1. PICK c \in sent : Resolve(c[1], c[2], "success")
  BY DEF ExecuteStray
<1>2. c[1] \in XaOp /\ c[2] \in rows /\ <<c[1], c[2]>> \in sent
  <2>1. c \in XaOp \X rows
    BY DEF IInv, TypeOK
  <2> QED BY <2>1
<1>3. UNCHANGED <<deployment, status, rows, commit, rollback, caller, submitting, part,
                  registering, wk, sent, known, held>>
  BY DEF ExecuteStray, store, client, parts, history
<1> QED BY <1>1, <1>2, <1>3, ResolveInv

\* An awaited call is executed, and its answer kept.
LEMMA ExecuteInv ==
  ASSUME IInv, NEW w \in Workers, Execute(w)
  PROVE  IInv'
<1> USE DEF IInv
<1> DEFINE op == wk[w].job.op
           i == wk[w].job.index
<1>1. PICK r \in {"success", "failure"} :
         Resolve(op, i, r) /\ wk' = [wk EXCEPT ![w].reply = r]
  BY DEF Execute
<1>2. /\ wk[w].pc = "call"
      /\ UNCHANGED <<deployment, status, rows, commit, rollback, caller, submitting, part,
                     registering, sent, known, held>>
  BY DEF Execute, store, client, parts, history
<1>3. op \in XaOp /\ i \in rows /\ <<op, i>> \in sent
  BY <1>2 DEF CallsOK
<1>4. /\ xact' \in [Branch -> {"none", "active", "preparing", "prepared", "committed",
                               "rolledback"}]
      /\ \A k \in Branch :
           \/ xact'[k] = xact[k]
           \/ /\ xact[k] = "prepared"
              /\ \/ xact'[k] = "committed" /\ status \in {"submitted", "succeed"}
                 \/ xact'[k] = "rolledback" /\ status \in {"aborting", "failed"}
      /\ r = "success" /\ op = "commit" => xact'[i] = "committed"
      /\ r = "success" /\ op = "rollback" /\ i \in held => xact'[i] = "rolledback"
  BY <1>1, <1>3, ResolveEffect
<1>5. /\ wk \in [Workers -> WorkerState] /\ wk' \in [Workers -> WorkerState]
      /\ \A v \in Workers : /\ wk'[v].pc = wk[v].pc /\ wk'[v].st = wk[v].st
                            /\ wk'[v].n = wk[v].n /\ wk'[v].job = wk[v].job
                            /\ wk'[v].reply = IF v = w THEN r ELSE wk[v].reply
  BY <1>1 DEF TypeOK, WorkerState
<1>6. rows \subseteq Branch /\ held \subseteq Branch /\ known \subseteq Branch
  BY DEF TypeOK
<1>7. TypeOK'
  BY <1>2, <1>4, <1>5 DEF TypeOK, WorkerState
<1>8. CallsOK'
  BY <1>2, <1>3, <1>4, <1>5, <1>6 DEF CallsOK
<1>9. RecordedOK' /\ DirectionOK' /\ PartOK'
  <2>1. RecordedOK'
    BY <1>2, <1>4 DEF RecordedOK
  <2>2. DirectionOK'
    BY <1>2, <1>4 DEF DirectionOK
  <2>3. PartOK'
    BY <1>2, <1>4 DEF PartOK, SubmittedOK
  <2> QED BY <2>1, <2>2, <2>3
<1>10. CopyOK' /\ SubmittedOK' /\ CountOK'
  BY <1>2, <1>5 DEF CopyOK, SubmittedOK, CountOK
<1>11. HeldOK'
  BY <1>2, <1>4, <1>6 DEF HeldOK
<1>12. DecidedOK' /\ FinalOK'
  BY <1>2, <1>4, <1>5, <1>6 DEF DecidedOK, FinalOK
<1> QED BY <1>7, <1>8, <1>9, <1>10, <1>11, <1>12

\* The decision falls, by submit, abort or the timeout, on a transaction that
\* is prepared: nobody has called anything yet.
LEMMA DecisionInv ==
  ASSUME IInv, status = "prepared", status' \in {"submitted", "aborting"},
         known' = rows, held' = {i \in rows : xact[i] = "prepared"},
         submitting' \in {"none", submitting},
         \/ status' = "aborting" /\ caller' = caller
         \/ caller' = "gone" /\ \A i \in Branch : part[i] \in {"none", "ready"},
         UNCHANGED <<deployment, rows, commit, rollback, part, registering, xact, sent>>,
         wk' \in [Workers -> WorkerState],
         \A v \in Workers :
           \/ wk'[v] = wk[v]
           \/ /\ wk'[v].pc \in {wk[v].pc, "process"} /\ wk'[v].reply = wk[v].reply
              /\ wk'[v].st \in {"prepared", status'}
  PROVE  IInv'
<1> USE DEF IInv
<1>1. \A v \in Workers : /\ wk[v].st = "prepared" /\ wk[v].reply = "none"
                         /\ wk[v].pc \in {"idle", "process"}
  BY DEF CopyOK, CountOK, CallsOK, TypeOK
<1>2. \A v \in Workers : /\ wk'[v].st \in {"prepared", status'} /\ wk'[v].reply = "none"
                         /\ wk'[v].pc \in {"idle", "process"}
  BY <1>1
<1>3. TypeOK'
  BY DEF TypeOK, WorkerState, GlobalStatus
<1>4. CallsOK' /\ CopyOK' /\ CountOK' /\ DecidedOK'
  BY <1>2 DEF CallsOK, CopyOK, CountOK, DecidedOK
<1>5. RecordedOK' /\ DirectionOK' /\ PartOK'
  BY DEF RecordedOK, DirectionOK, PartOK
<1>6. SubmittedOK' /\ HeldOK' /\ FinalOK'
  BY DEF SubmittedOK, HeldOK, FinalOK
<1> QED BY <1>3, <1>4, <1>5, <1>6

\* drive_detached starts a driver with an empty round.
LEMMA DetachedWorkers ==
  ASSUME IInv, NEW w \in Workers, DriveDetached(w)
  PROVE  /\ wk[w].pc = "idle" /\ wk' \in [Workers -> WorkerState]
         /\ \A v \in Workers \ {w} : wk'[v] = wk[v]
         /\ wk'[w].pc = "process" /\ wk'[w].st = "submitted" /\ wk'[w].reply = wk[w].reply
  BY DEF DriveDetached, Idle, IInv, TypeOK, WorkerState

\* A step of a caller that finds nothing to decide, and starts no driver.
LEMMA CallerOnlyInv ==
  ASSUME IInv, status # "absent",
         UNCHANGED <<deployment, status, rows, commit, rollback, part, registering, xact, wk,
                     sent, known, held>>,
         caller' = caller \/ caller' = "gone",
         \/ submitting' \in {"none", submitting}
         \/ /\ submitting' = "read" /\ caller' = "gone"
            /\ \A i \in Branch : part[i] \in {"none", "ready"}
  PROVE  IInv'
<1> USE DEF IInv
<1>1. TypeOK' /\ CallsOK' /\ RecordedOK' /\ CopyOK' /\ DirectionOK' /\ PartOK'
  BY DEF TypeOK, CallsOK, RecordedOK, CopyOK, DirectionOK, PartOK
<1>2. SubmittedOK' /\ HeldOK' /\ CountOK' /\ DecidedOK' /\ FinalOK'
  BY DEF SubmittedOK, HeldOK, CountOK, DecidedOK, FinalOK
<1> QED BY <1>1, <1>2

\* The steps of submit and abort: what is prepared is decided, what is not is
\* left alone.  On SQL a submit may have read the row long before.
LEMMA SubmitInv ==
  ASSUME IInv, Submit \/ Abort
  PROVE  IInv'
<1> USE DEF IInv
<1>1. /\ UNCHANGED <<deployment, rows, commit, rollback, part, registering, xact, sent>>
      /\ deployment # "sql_inline"
  BY DEF Submit, SubmitRead, SubmitWrite, SubmitAtomic, Abort, store, parts, CopyOK
<1>2. CASE SubmitRead
  <2>1. status # "absent"
    BY <1>2 DEF SubmitRead, SubmittedOK
  <2> QED BY <1>1, <1>2, <2>1, CallerOnlyInv DEF SubmitRead, store, history
<1>3. CASE (~OnRedis /\ SubmitWrite) \/ (OnRedis /\ SubmitAtomic) \/ Abort
  <2>1. /\ status # "absent" /\ submitting' \in {"none", submitting}
        /\ caller' = caller \/ caller' = "gone"
    BY <1>3 DEF SubmitWrite, SubmitAtomic, Abort, client, SubmittedOK
  <2>2. CASE status = "prepared"
    <3>1. /\ known' = rows /\ held' = {i \in rows : xact[i] = "prepared"}
          /\ \/ status' = "aborting" /\ caller' = caller
             \/ /\ status' = "submitted" /\ caller' = "gone"
                /\ \A i \in Branch : part[i] \in {"none", "ready"}
      BY <1>3, <2>2 DEF SubmitWrite, SubmitAtomic, Abort, Decides, client, SubmittedOK
    <3>2. CASE UNCHANGED wk
      <4>1. wk' \in [Workers -> WorkerState] /\ \A v \in Workers : wk'[v] = wk[v]
        BY <3>2 DEF TypeOK, WorkerState
      <4> QED BY <1>1, <2>1, <2>2, <3>1, <4>1, DecisionInv
    <3>3. CASE status' = "submitted" /\ \E w \in Workers : DriveDetached(w)
      <4>1. /\ wk' \in [Workers -> WorkerState]
            /\ \A v \in Workers :
                 \/ wk'[v] = wk[v]
                 \/ /\ wk'[v].pc \in {wk[v].pc, "process"} /\ wk'[v].reply = wk[v].reply
                    /\ wk'[v].st \in {"prepared", status'}
        BY <3>3, DetachedWorkers
      <4> QED BY <1>1, <2>1, <2>2, <3>1, <4>1, DecisionInv
    <3> QED BY <1>3, <2>2, <3>2, <3>3 DEF SubmitWrite, SubmitAtomic, Abort, Decides
  <2>3. CASE status # "prepared"
    <3>1. UNCHANGED <<status, known, held, wk>>
      BY <1>1, <1>3, <2>3, TypeOK DEF SubmitWrite, SubmitAtomic, Abort, Decides, history,
         Inline, OnRedis
    <3> QED BY <1>1, <2>1, <3>1, CallerOnlyInv
  <2> QED BY <2>2, <2>3
<1> QED BY <1>2, <1>3 DEF Submit

\* The caller begins.
LEMMA BeginInv ==
  ASSUME IInv, Begin
  PROVE  IInv'
<1> USE DEF IInv
<1>1. /\ UNCHANGED <<deployment, rows, commit, rollback, submitting, part, registering, xact, wk,
                     sent, known, held>>
      /\ status = "absent" /\ status' = "prepared" /\ caller = "new" /\ caller' = "open"
  BY DEF Begin, parts, history, SubmittedOK
<1>2. TypeOK' /\ CallsOK' /\ RecordedOK' /\ CopyOK' /\ DirectionOK' /\ PartOK'
  BY <1>1 DEF TypeOK, GlobalStatus, CallsOK, RecordedOK, CopyOK, DirectionOK, PartOK
<1>3. SubmittedOK' /\ HeldOK' /\ CountOK' /\ DecidedOK' /\ FinalOK'
  BY <1>1 DEF SubmittedOK, HeldOK, CountOK, DecidedOK, FinalOK
<1> QED BY <1>2, <1>3

\* A worker that ends its round, or begins one, writes nothing: the only thing
\* that matters is that a fresh copy is right.
LEMMA QuietInv ==
  ASSUME IInv, NEW w \in Workers,
         UNCHANGED <<deployment, status, rows, commit, rollback, caller, submitting, part,
                     registering, xact, sent, known, held>>,
         \/ EndRound(w)
         \/ /\ status \in {"prepared", "submitted", "aborting"} /\ wk[w].pc = "idle"
            /\ wk' = [wk EXCEPT ![w].pc = "process", ![w].st = status]
  PROVE  IInv'
<1> USE DEF IInv
<1>1. /\ wk' \in [Workers -> WorkerState] /\ \A v \in Workers \ {w} : wk'[v] = wk[v]
      /\ wk'[w].pc \in {"idle", "process"} /\ wk'[w].reply = "none"
      /\ wk'[w].st \in {"prepared", status}
  <2>1. wk \in [Workers -> WorkerState] /\ Idle \in WorkerState
    BY NAssumption DEF TypeOK, WorkerState, Idle, Wait, Jobs
  <2>2. CASE EndRound(w)
    BY <2>1, <2>2 DEF EndRound, Idle
  <2>3. CASE /\ status \in {"prepared", "submitted", "aborting"} /\ wk[w].pc = "idle"
             /\ wk' = [wk EXCEPT ![w].pc = "process", ![w].st = status]
    BY <2>1, <2>3 DEF WorkerState, CallsOK
  <2> QED BY <2>2, <2>3
<1>2. TypeOK' /\ CallsOK' /\ CopyOK'
  <2>1. TypeOK'
    BY <1>1 DEF TypeOK, WorkerState
  <2>2. CallsOK' /\ CopyOK'
    BY <1>1 DEF CallsOK, CopyOK
  <2> QED BY <2>1, <2>2
<1>3. CountOK' /\ DecidedOK'
  BY <1>1 DEF CountOK, DecidedOK
<1>4. RecordedOK' /\ DirectionOK' /\ PartOK' /\ SubmittedOK' /\ HeldOK' /\ FinalOK'
  BY DEF RecordedOK, DirectionOK, PartOK, SubmittedOK, HeldOK, FinalOK
<1> QED BY <1>2, <1>3, <1>4

\* The prepared timeout compares before it turns the transaction round.
LEMMA PreparedTimeoutInv ==
  ASSUME IInv, NEW w \in Workers, PreparedTimeout(w)
  PROVE  IInv'
<1>1. UNCHANGED <<deployment, rows, commit, rollback, caller, submitting, part, registering, xact,
                  sent>>
  BY DEF PreparedTimeout, client, parts
<1>2. CASE CanTransition(w)
  <2>1. /\ status = "prepared" /\ status' = "aborting"
        /\ known' = rows /\ held' = {i \in rows : xact[i] = "prepared"}
        /\ wk' = [wk EXCEPT ![w].st = "aborting"]
    BY <1>2 DEF PreparedTimeout, CanTransition, StatusContested
  <2>2. /\ wk' \in [Workers -> WorkerState]
        /\ \A v \in Workers :
             \/ wk'[v] = wk[v]
             \/ /\ wk'[v].pc \in {wk[v].pc, "process"} /\ wk'[v].reply = wk[v].reply
                /\ wk'[v].st \in {"prepared", status'}
    BY <2>1 DEF IInv, TypeOK, WorkerState
  <2> QED BY <1>1, <2>1, <2>2, DecisionInv
<1>3. CASE ~CanTransition(w)
  BY <1>1, <1>3, QuietInv DEF PreparedTimeout, history
<1> QED BY <1>2, <1>3

\* drive_two_phase counts: the highest number covers every branch.
LEMMA CountInv ==
  ASSUME IInv, NEW w \in Workers, Count(w)
  PROVE  IInv'
<1> USE DEF IInv
<1> DEFINE m == Highest(rows)
           end == Finish(IF wk[w].st = "aborting" THEN "failed" ELSE "succeed")
<1>1. /\ wk[w].pc = "process" /\ wk[w].st # "prepared"
      /\ wk' = [wk EXCEPT ![w].n = m,
                          ![w].pc = IF m = 0 THEN "transition" ELSE "loop",
                          ![w].job = IF m = 0 THEN end ELSE wk[w].job]
      /\ UNCHANGED <<deployment, status, rows, commit, rollback, caller, submitting, part,
                     registering, xact, sent, known, held>>
  BY DEF Count, store, client, parts, history
<1>2. m \in 0 .. N /\ (\A i \in rows : i <= m) /\ (m = 0 => rows = {})
  BY HighestCounts DEF TypeOK
<1>3. /\ end \in Jobs
      /\ \/ end.to = "failed" /\ wk[w].st = "aborting"
         \/ end.to = "succeed" /\ wk[w].st = "submitted"
  BY <1>1, NAssumption DEF Finish, Jobs, GlobalStatus, TypeOK
<1> HIDE DEF m, end
<1>4. /\ wk \in [Workers -> WorkerState] /\ wk' \in [Workers -> WorkerState]
      /\ \A v \in Workers \ {w} : wk'[v] = wk[v]
      /\ wk'[w].st = wk[w].st /\ wk'[w].reply = wk[w].reply /\ wk'[w].n = m
      /\ \/ wk'[w].pc = "loop"
         \/ wk'[w].pc = "transition" /\ m = 0 /\ wk'[w].job = end
  BY <1>1, <1>2, <1>3 DEF TypeOK, WorkerState
<1>5. TypeOK'
  BY <1>1, <1>4 DEF TypeOK, WorkerState
<1>6. CallsOK' /\ CopyOK'
  BY <1>1, <1>4 DEF CallsOK, CopyOK
<1>7. CountOK'
  BY <1>1, <1>2, <1>4 DEF CountOK, HeldOK
<1>8. DecidedOK'
  <2>1. m = 0 => known = {} /\ held = {}
    BY <1>2 DEF HeldOK, TypeOK
  <2> QED BY <1>1, <1>3, <1>4, <2>1 DEF DecidedOK
<1>9. RecordedOK' /\ DirectionOK' /\ PartOK' /\ SubmittedOK' /\ HeldOK' /\ FinalOK'
  BY <1>1 DEF RecordedOK, DirectionOK, PartOK, SubmittedOK, HeldOK, FinalOK
<1> QED BY <1>5, <1>6, <1>7, <1>8, <1>9

\* A worker's decision: calls go to branches with rows, in the direction that
\* was decided; the end is backed by what the branch rows vouch for.
LEMMA AdvanceInv ==
  ASSUME IInv, NEW w \in Workers, Advance(w)
  PROVE  IInv'
<1> USE DEF IInv
<1> DEFINE m == wk[w].n
           c == [i \in 1 .. m |-> commit[i]]
           u == [i \in 1 .. m |-> rollback[i]]
           d == TwoPhaseAdvance(wk[w].st, c, u, "commit", "rollback")
           hole == d.kind = "call" /\ d.index \notin rows
<1>1. /\ wk[w].pc = "loop"
      /\ IF hole THEN EndRound(w)
         ELSE wk' = [wk EXCEPT ![w].pc = IF d.kind = "call" THEN "call" ELSE "transition",
                               ![w].job = d]
      /\ sent' = IF d.kind = "call" /\ ~hole THEN sent \cup {<<d.op, d.index>>} ELSE sent
      /\ UNCHANGED <<deployment, status, rows, commit, rollback, caller, submitting, part,
                     registering, xact, known, held>>
  BY DEF Advance, XaAdvance, store, client, parts, history
<1>2. /\ m \in 0 .. N /\ m \in Nat /\ 1 .. m \subseteq Branch
      /\ wk[w].st \in {"submitted", "aborting"}
      /\ known \subseteq 1 .. m /\ held \subseteq known
  <2>1. /\ m \in 0 .. N /\ wk[w].st \in {"prepared", "submitted", "aborting"}
        /\ known \subseteq Branch /\ held \subseteq known
    BY DEF TypeOK
  <2>2. wk[w].st # "prepared" /\ \A i \in known : i <= m
    BY <1>1 DEF CountOK
  <2> HIDE DEF m
  <2> QED BY <2>1, <2>2, NAssumption DEF Branch
<1>3. c \in [1 .. m -> BranchStatus] /\ u \in [1 .. m -> BranchStatus]
  BY <1>2 DEF TypeOK
<1>4. /\ \A i \in 1 .. m : c[i] = "succeed" => xact[i] = "committed"
      /\ \A i \in 1 .. m : u[i] = "succeed" /\ i \in held => xact[i] = "rolledback"
  BY <1>2 DEF RecordedOK
<1>5. \/ /\ wk[w].st = "submitted" /\ d = Finish("succeed")
         /\ \A i \in 1 .. m : c[i] = "succeed"
      \/ wk[w].st = "submitted" /\ \E i \in 1 .. m : d = Call("commit", i)
      \/ /\ wk[w].st = "aborting" /\ d = Finish("failed")
         /\ \A i \in 1 .. m : u[i] = "succeed"
      \/ wk[w].st = "aborting" /\ \E i \in 1 .. m : d = Call("rollback", i)
  <2> HIDE DEF c, u, m
  <2> QED BY <1>2, <1>3, TwoPhaseAdvanceCases
<1> HIDE DEF c, u, d, m
<1>6. RecordedOK' /\ PartOK' /\ SubmittedOK' /\ HeldOK' /\ FinalOK'
  <2>1. sent \subseteq sent'
    BY <1>1
  <2> QED BY <1>1, <2>1 DEF RecordedOK, PartOK, SubmittedOK, HeldOK, FinalOK
<1>7. CASE hole
  BY <1>1, <1>7, QuietInv
<1>8. ASSUME NEW o \in XaOp, NEW i \in 1 .. m, d = Call(o, i), i \in rows,
             o = "commit" => wk[w].st = "submitted", o = "rollback" => wk[w].st = "aborting"
      PROVE  IInv'
  <2>1. /\ d.kind = "call" /\ d.op = o /\ d.index = i /\ i \in Branch
        /\ d \in Jobs /\ <<o, i>> \in XaOp \X rows
    BY <1>2, <1>8 DEF Call, Jobs, Branch
  <2>2. /\ wk' = [wk EXCEPT ![w].pc = "call", ![w].job = d]
        /\ sent' = sent \cup {<<o, i>>}
    BY <1>1, <1>8, <2>1
  <2>3. /\ wk \in [Workers -> WorkerState] /\ wk' \in [Workers -> WorkerState]
        /\ \A v \in Workers \ {w} : wk'[v] = wk[v]
        /\ wk'[w].pc = "call" /\ wk'[w].job = d /\ wk'[w].st = wk[w].st
        /\ wk'[w].n = m /\ wk'[w].reply = wk[w].reply
    <3>1. wk \in [Workers -> WorkerState] /\ d \in Jobs
      BY <2>1 DEF TypeOK, WorkerState
    <3> QED BY <2>2, <3>1 DEF WorkerState, m
  <2>4. TypeOK'
    BY <1>1, <2>1, <2>2, <2>3 DEF TypeOK, WorkerState
  <2>5. CallsOK'
    <3>1. wk[w].reply = "none"
      BY <1>1 DEF CallsOK
    <3> QED BY <1>1, <1>8, <2>1, <2>2, <2>3, <3>1 DEF CallsOK
  <2>6. DirectionOK'
    BY <1>1, <1>8, <2>2 DEF DirectionOK, CopyOK, XaOp
  <2>7. CopyOK' /\ CountOK' /\ DecidedOK'
    BY <1>1, <2>3 DEF CopyOK, CountOK, DecidedOK, m
  <2> QED BY <1>6, <2>4, <2>5, <2>6, <2>7
<1>9. ASSUME \/ /\ wk[w].st = "submitted" /\ d = Finish("succeed")
                /\ \A i \in 1 .. m : c[i] = "succeed"
             \/ /\ wk[w].st = "aborting" /\ d = Finish("failed")
                /\ \A i \in 1 .. m : u[i] = "succeed"
      PROVE  IInv'
  <2>1. /\ d.kind = "finish" /\ d \in Jobs
        /\ \/ /\ d.to = "succeed" /\ wk[w].st = "submitted"
              /\ \A i \in known : xact[i] = "committed"
           \/ /\ d.to = "failed" /\ wk[w].st = "aborting"
              /\ \A i \in held : xact[i] = "rolledback"
    BY <1>2, <1>4, <1>9, NAssumption DEF Finish, Jobs, GlobalStatus
  <2>2. /\ wk' = [wk EXCEPT ![w].pc = "transition", ![w].job = d]
        /\ sent' = sent
    BY <1>1, <2>1
  <2>3. /\ wk \in [Workers -> WorkerState] /\ wk' \in [Workers -> WorkerState]
        /\ \A v \in Workers \ {w} : wk'[v] = wk[v]
        /\ wk'[w].pc = "transition" /\ wk'[w].job = d /\ wk'[w].st = wk[w].st
        /\ wk'[w].n = m /\ wk'[w].reply = wk[w].reply
    <3>1. wk \in [Workers -> WorkerState] /\ d \in Jobs
      BY <2>1 DEF TypeOK, WorkerState
    <3> QED BY <2>2, <3>1 DEF WorkerState, m
  <2>4. TypeOK'
    BY <1>1, <2>2, <2>3 DEF TypeOK, WorkerState
  <2>5. CallsOK' /\ CopyOK' /\ DirectionOK'
    BY <1>1, <2>2, <2>3 DEF CallsOK, CopyOK, DirectionOK
  <2>6. CountOK' /\ DecidedOK'
    BY <1>1, <2>1, <2>3 DEF CountOK, DecidedOK, m
  <2> QED BY <1>6, <2>4, <2>5, <2>6
<1>10. CASE ~hole
  <2>1. \A o, i : Call(o, i).kind = "call" /\ Call(o, i).index = i
    BY DEF Call
  <2> QED BY <1>5, <1>8, <1>9, <1>10, <2>1 DEF XaOp
<1> QED BY <1>7, <1>10

\* An answer is recorded.
LEMMA RecordInv ==
  ASSUME IInv, NEW w \in Workers, Record(w)
  PROVE  IInv'
<1> USE DEF IInv
<1> DEFINE s == IF wk[w].reply = "success" THEN "succeed" ELSE "failed"
           i == wk[w].job.index
<1>1. /\ wk[w].pc = "call"
      /\ \/ /\ wk[w].job.op = "commit" /\ commit' = [commit EXCEPT ![i] = s]
            /\ rollback' = rollback
         \/ /\ wk[w].job.op = "rollback" /\ rollback' = [rollback EXCEPT ![i] = s]
            /\ commit' = commit
      /\ \/ wk' = [wk EXCEPT ![w].pc = "loop", ![w].job = Wait, ![w].reply = "none"]
         \/ EndRound(w)
      /\ UNCHANGED <<deployment, status, rows, caller, submitting, part, registering, xact, sent,
                     known, held>>
  BY DEF Record, CallsOK, XaOp, client, parts, history
<1>2. /\ i \in Branch /\ s \in BranchStatus
      /\ <<wk[w].job.op, i>> \in sent
      /\ s = "succeed" /\ wk[w].job.op = "commit" => xact[i] = "committed"
      /\ s = "succeed" /\ wk[w].job.op = "rollback" /\ i \in held => xact[i] = "rolledback"
  <2>1. s \in BranchStatus /\ (s = "succeed" => wk[w].reply = "success")
    BY DEF BranchStatus
  <2>2. rows \subseteq Branch
    BY DEF TypeOK
  <2> QED BY <1>1, <2>1, <2>2 DEF CallsOK
<1> HIDE DEF s, i
<1>3. /\ commit' \in [Branch -> BranchStatus] /\ rollback' \in [Branch -> BranchStatus]
      /\ RecordedOK'
  <2>1. commit \in [Branch -> BranchStatus] /\ rollback \in [Branch -> BranchStatus]
    BY DEF TypeOK
  <2> QED BY <1>1, <1>2, <2>1 DEF RecordedOK
<1>4. /\ wk' \in [Workers -> WorkerState] /\ \A v \in Workers \ {w} : wk'[v] = wk[v]
      /\ wk'[w].reply = "none"
      /\ \/ wk'[w].pc = "idle" /\ wk'[w].st = "prepared"
         \/ wk'[w].pc = "loop" /\ wk'[w].st = wk[w].st /\ wk'[w].n = wk[w].n
  <2>1. wk \in [Workers -> WorkerState] /\ Idle \in WorkerState /\ Wait \in Jobs
    BY NAssumption DEF TypeOK, WorkerState, Idle, Wait, Jobs
  <2>2. CASE wk' = [wk EXCEPT ![w].pc = "loop", ![w].job = Wait, ![w].reply = "none"]
    BY <2>1, <2>2 DEF WorkerState
  <2>3. CASE EndRound(w)
    BY <2>1, <2>3 DEF EndRound, Idle
  <2> QED BY <1>1, <2>2, <2>3
<1>5. TypeOK'
  BY <1>1, <1>3, <1>4 DEF TypeOK, WorkerState
<1>6. CallsOK' /\ CopyOK'
  BY <1>1, <1>4 DEF CallsOK, CopyOK
<1>7. CountOK' /\ DecidedOK'
  BY <1>1, <1>4 DEF CountOK, DecidedOK
<1>8. DirectionOK' /\ PartOK' /\ SubmittedOK' /\ HeldOK' /\ FinalOK'
  BY <1>1 DEF DirectionOK, PartOK, SubmittedOK, HeldOK, FinalOK
<1> QED BY <1>3, <1>5, <1>6, <1>7, <1>8

\* The final status goes the way that was decided and inherits what the
\* deciding worker knew.
LEMMA TransitionInv ==
  ASSUME IInv, NEW w \in Workers, Transition(w)
  PROVE  IInv'
<1> USE DEF IInv
<1>1. /\ wk[w].pc = "transition" /\ wk' = [wk EXCEPT ![w] = Idle]
      /\ status' = status \/ status' = wk[w].job.to
      /\ UNCHANGED <<deployment, rows, commit, rollback, caller, submitting, part, registering,
                     xact, sent, known, held>>
  BY DEF Transition, EndRound, client, parts, history
<1>2. \/ status' = status
      \/ /\ status \in {"submitted", "succeed"} /\ status' = "succeed"
         /\ \A i \in known : xact[i] = "committed"
      \/ /\ status \in {"aborting", "failed"} /\ status' = "failed"
         /\ \A i \in held : xact[i] = "rolledback"
  BY <1>1 DEF DecidedOK, CopyOK
<1>3. /\ wk' \in [Workers -> WorkerState] /\ \A v \in Workers \ {w} : wk'[v] = wk[v]
      /\ wk'[w].reply = "none" /\ wk'[w].pc = "idle" /\ wk'[w].st = "prepared"
  <2>1. wk \in [Workers -> WorkerState] /\ Idle \in WorkerState
    BY NAssumption DEF TypeOK, WorkerState, Idle, Wait, Jobs
  <2> QED BY <1>1, <2>1 DEF Idle
<1>4. TypeOK'
  BY <1>1, <1>2, <1>3 DEF TypeOK, WorkerState, GlobalStatus
<1>5. CallsOK' /\ CopyOK'
  BY <1>1, <1>2, <1>3 DEF CallsOK, CopyOK
<1>6. CountOK' /\ DecidedOK'
  BY <1>1, <1>3 DEF CountOK, DecidedOK
<1>7. RecordedOK' /\ DirectionOK' /\ PartOK'
  BY <1>1, <1>2 DEF RecordedOK, DirectionOK, PartOK
<1>8. SubmittedOK' /\ HeldOK' /\ FinalOK'
  BY <1>1, <1>2 DEF SubmittedOK, HeldOK, FinalOK
<1> QED BY <1>4, <1>5, <1>6, <1>7, <1>8

\* Every step of the specification preserves the invariant.
LEMMA NextInv == IInv /\ [Next]_vars => IInv'
<1> SUFFICES ASSUME IInv, [Next]_vars PROVE IInv'
  OBVIOUS
<1>1. CASE UNCHANGED vars
  BY <1>1 DEF vars, IInv, TypeOK, CallsOK, RecordedOK, CopyOK, DirectionOK, PartOK,
     SubmittedOK, HeldOK, CountOK, DecidedOK, FinalOK
<1>2. CASE Begin \/ Submit \/ Abort \/ ExecuteStray
  BY <1>2, BeginInv, SubmitInv, ExecuteStrayInv
<1>3. ASSUME NEW i \in Branch,
             \/ RegisterRead(i) \/ RegisterWrite(i) \/ XaBegin(i) \/ Prepare(i) \/ Discard(i)
             \/ Prepared(i) \/ Refused(i) \/ PrepareOk(i) \/ Lost(i) \/ Disconnect(i)
      PROVE  IInv'
  BY <1>3, ParticipantInv
<1>4. ASSUME NEW w \in Workers, Lock(w) \/ NotDue(w) \/ NoAnswer(w) \/ Crash(w)
      PROVE  IInv'
  <2>1. UNCHANGED <<deployment, status, rows, commit, rollback, caller, submitting, part,
                    registering, xact, sent, known, held>>
    BY <1>4 DEF Lock, NotDue, NoAnswer, Crash, store, client, parts, history
  <2> QED BY <1>4, <2>1, QuietInv DEF Lock, NotDue, NoAnswer, Crash, Schedulable
<1>5. ASSUME NEW w \in Workers,
             \/ PreparedTimeout(w) \/ Count(w) \/ Advance(w) \/ Execute(w) \/ Record(w)
             \/ Transition(w)
      PROVE  IInv'
  BY <1>5, PreparedTimeoutInv, CountInv, AdvanceInv, ExecuteInv, RecordInv, TransitionInv
<1> QED BY <1>1, <1>2, <1>3, <1>4, <1>5 DEF Next

\* IInv holds in every reachable state, for every N and every set of workers.
THEOREM XaInvariant ==
  ASSUME "sql_inline" \notin Deployments
  PROVE  Spec => []IInv
  BY InitInv, NextInv, PTL DEF Spec

-----------------------------------------------------------------------------
(***************************************************************************)
(* The results.                                                            *)
(***************************************************************************)

\* Every variable keeps its type.
THEOREM XaTypeCorrect ==
  ASSUME "sql_inline" \notin Deployments
  PROVE  Spec => []TypeOK
<1>1. IInv => TypeOK
  BY DEF IInv
<1> QED BY <1>1, XaInvariant, PTL

\* No branch is committed in its database while another is rolled back there:
\* a commit takes place only after a submit, and a submit only when every
\* branch that was begun is ready.
THEOREM XaAllOrNothing ==
  ASSUME "sql_inline" \notin Deployments
  PROVE  Spec => []AllOrNothing
<1>1. IInv => AllOrNothing
  <2> SUFFICES ASSUME IInv, NEW i \in Branch, NEW j \in Branch,
                      xact[i] = "committed", xact[j] = "rolledback"
               PROVE  FALSE
    BY DEF AllOrNothing
  <2>1. status \in {"submitted", "succeed"}
    BY DEF IInv, DirectionOK
  <2>2. part[j] \in {"none", "ready"}
    BY <2>1 DEF IInv, SubmittedOK
  <2> QED BY <2>1, <2>2 DEF IInv, PartOK
<1> QED BY <1>1, XaInvariant, PTL

\* A commit recorded as a success has taken place, although resolve also
\* answers SUCCESS to an xid its database does not know.
THEOREM XaRecordedIsCommitted ==
  ASSUME "sql_inline" \notin Deployments
  PROVE  Spec => []RecordedIsCommitted
<1>1. IInv => RecordedIsCommitted
  BY DEF IInv, RecordedOK, RecordedIsCommitted
<1> QED BY <1>1, XaInvariant, PTL

\* A decided transaction is decided in every database that had prepared when
\* the decision fell, and a success leaves nothing open.
THEOREM XaDecidedIsWhole ==
  ASSUME "sql_inline" \notin Deployments
  PROVE  Spec => []DecidedIsWhole
<1>1. IInv => DecidedIsWhole
  <2> SUFFICES ASSUME IInv PROVE DecidedIsWhole
    OBVIOUS
  <2>1. ASSUME status = "succeed", NEW i \in Branch
        PROVE  xact[i] \in {"none", "committed"}
    <3>1. part[i] \in {"none", "ready"} /\ known = rows
      BY <2>1 DEF IInv, SubmittedOK
    <3>2. CASE part[i] = "none"
      BY <3>2 DEF IInv, PartOK
    <3>3. CASE part[i] = "ready"
      BY <2>1, <3>1, <3>3 DEF IInv, PartOK, FinalOK
    <3> QED BY <3>1, <3>2, <3>3
  <2>2. ASSUME status = "failed", NEW i \in Branch PROVE xact[i] # "committed"
    BY <2>2 DEF IInv, DirectionOK
  <2> QED BY <2>1, <2>2 DEF DecidedIsWhole, IInv, FinalOK
<1> QED BY <1>1, XaInvariant, PTL

-----------------------------------------------------------------------------
(***************************************************************************)
(* Xa implements Commitment.                                               *)
(***************************************************************************)

\* Whoever has begun is registered, and a submit counts everybody.
ReachOK ==
  /\ \A i \in Branch : xact[i] # "none" => i \in rows
  /\ status \in {"submitted", "succeed"} => held = rows

\* What is resolved was sent, and only what is prepared moves.
LEMMA WhatResolves ==
  ASSUME IInv, ExecuteStray \/ \E w \in Workers : Execute(w)
  PROVE  /\ UNCHANGED <<status, rows, held>>
         /\ \/ UNCHANGED xact
            \/ \E op \in XaOp, i \in Branch :
                 /\ <<op, i>> \in sent /\ i \in rows /\ xact[i] = "prepared"
                 /\ xact' = [xact EXCEPT ![i] =
                              IF op = "commit" THEN "committed" ELSE "rolledback"]
<1>1. ASSUME NEW op \in XaOp, NEW i \in Branch, <<op, i>> \in sent, i \in rows,
             NEW r \in {"success", "failure"}, Resolve(op, i, r)
      PROVE  \/ UNCHANGED xact
             \/ \E o \in XaOp, j \in Branch :
                  /\ <<o, j>> \in sent /\ j \in rows /\ xact[j] = "prepared"
                  /\ xact' = [xact EXCEPT ![j] =
                               IF o = "commit" THEN "committed" ELSE "rolledback"]
  <2>1. xact[i] # "prepared" => [xact EXCEPT ![i] = xact[i]] = xact
    BY DEF IInv, TypeOK
  <2>2. CASE xact[i] = "prepared"
    BY <1>1, <2>2 DEF Resolve
  <2>3. CASE xact[i] # "prepared"
    BY <1>1, <2>1, <2>3 DEF Resolve
  <2> QED BY <2>2, <2>3
<1>2. CASE ExecuteStray
  <2>1. PICK c \in sent : Resolve(c[1], c[2], "success")
    BY <1>2 DEF ExecuteStray
  <2>2. c \in XaOp \X rows /\ rows \subseteq Branch
    BY <2>1 DEF IInv, TypeOK
  <2>3. c[1] \in XaOp /\ c[2] \in rows /\ c[2] \in Branch /\ <<c[1], c[2]>> \in sent
    BY <2>1, <2>2
  <2>4. "success" \in {"success", "failure"}
    OBVIOUS
  <2> QED BY <1>1, <1>2, <2>1, <2>3, <2>4 DEF ExecuteStray, store, client, history
<1>3. ASSUME NEW w \in Workers, Execute(w)
      PROVE  /\ UNCHANGED <<status, rows, held>>
             /\ \/ UNCHANGED xact
                \/ \E op \in XaOp, i \in Branch :
                     /\ <<op, i>> \in sent /\ i \in rows /\ xact[i] = "prepared"
                     /\ xact' = [xact EXCEPT ![i] =
                                  IF op = "commit" THEN "committed" ELSE "rolledback"]
  <2>1. PICK r \in {"success", "failure"} : Resolve(wk[w].job.op, wk[w].job.index, r)
    BY <1>3 DEF Execute
  <2>2. /\ wk[w].job.op \in XaOp /\ wk[w].job.index \in rows /\ wk[w].job.index \in Branch
        /\ <<wk[w].job.op, wk[w].job.index>> \in sent
    BY <1>3 DEF Execute, IInv, CallsOK, TypeOK
  <2> QED BY <1>1, <1>3, <2>1, <2>2 DEF Execute, store, client, history
<1> QED BY <1>2, <1>3

\* A submit finds every registered branch prepared, and nothing else begun.
LEMMA AllReady ==
  ASSUME IInv, ReachOK, status = "prepared", \A i \in Branch : part[i] \in {"none", "ready"}
  PROVE  /\ \A i \in Branch : xact[i] \in {"none", "prepared"}
         /\ \A i \in rows : xact[i] = "prepared"
<1>1. ASSUME NEW i \in Branch
      PROVE  xact[i] \in {"none", "prepared"} /\ (i \in rows => xact[i] = "prepared")
  <2>1. xact[i] # "committed"
    BY DEF IInv, DirectionOK
  <2>2. CASE part[i] = "none"
    BY <2>2 DEF IInv, PartOK
  <2>3. CASE part[i] = "ready"
    BY <2>1, <2>3 DEF IInv, PartOK
  <2> QED BY <2>2, <2>3
<1> QED BY <1>1 DEF IInv, TypeOK

\* ReachOK is kept.
LEMMA ReachStep == IInv /\ ReachOK /\ [Next]_vars => ReachOK'
<1> SUFFICES ASSUME IInv, ReachOK, [Next]_vars PROVE ReachOK'
  OBVIOUS
<1> USE DEF ReachOK
<1>1. CASE ExecuteStray \/ \E w \in Workers : Execute(w)
  <2>1. /\ UNCHANGED <<status, rows, held>>
        /\ \A i \in Branch : xact'[i] # "none" => xact[i] # "none"
    BY <1>1, WhatResolves DEF IInv, TypeOK
  <2> QED BY <2>1
<1>2. CASE Submit \/ Abort
  <2>1. UNCHANGED <<rows, xact>>
    BY <1>2 DEF Submit, SubmitRead, SubmitWrite, SubmitAtomic, Abort, store
  <2>2. status' \in {"submitted", "succeed"} => held' = rows
    <3>1. \/ UNCHANGED <<status, held>> \/ status' = "aborting"
          \/ status = "prepared" /\ (SubmitWrite \/ SubmitAtomic)
      BY <1>2 DEF Submit, SubmitRead, SubmitWrite, SubmitAtomic, Abort, Decides, store, history
    <3>2. CASE status = "prepared" /\ (SubmitWrite \/ SubmitAtomic)
      <4>1. \A i \in Branch : part[i] \in {"none", "ready"}
        BY <3>2 DEF SubmitWrite, SubmitAtomic, IInv, SubmittedOK
      <4>2. \A i \in rows : xact[i] = "prepared"
        BY <3>2, <4>1, AllReady
      <4> QED BY <3>2, <4>2 DEF SubmitWrite, SubmitAtomic, Decides
    <3> QED BY <3>1, <3>2
  <2> QED BY <2>1, <2>2
<1>3. ASSUME NEW i \in Branch, RegisterWrite(i) PROVE ReachOK'
  <2>1. /\ rows' = rows \cup {i} /\ UNCHANGED <<status, xact, held>>
    BY <1>3 DEF RegisterWrite, history
  <2>2. status \notin {"submitted", "succeed"}
    BY <1>3 DEF RegisterWrite, IInv, SubmittedOK, PartOK
  <2> QED BY <2>1, <2>2
<1>4. ASSUME NEW i \in Branch,
             \/ RegisterRead(i) \/ XaBegin(i) \/ Prepare(i) \/ Discard(i)
             \/ Prepared(i) \/ Refused(i) \/ PrepareOk(i) \/ Lost(i) \/ Disconnect(i)
      PROVE  ReachOK'
  <2>1. UNCHANGED <<status, rows, held>>
    BY <1>4 DEF RegisterRead, XaBegin, Prepare, Discard, Prepared, Refused, PrepareOk, Lost,
       Disconnect, store, client, history
  <2>2. \A j \in Branch \ {i} : xact'[j] = xact[j]
    BY <1>4 DEF RegisterRead, XaBegin, Prepare, Discard, Prepared, Refused, PrepareOk, Lost,
       Disconnect, IInv, TypeOK
  <2>3. xact'[i] # xact[i] => i \in rows
    BY <1>4 DEF RegisterRead, XaBegin, Prepare, Discard, Prepared, Refused, PrepareOk, Lost,
       Disconnect, IInv, PartOK
  <2> QED BY <2>1, <2>2, <2>3
<1>5. ASSUME NEW w \in Workers, PreparedTimeout(w) PROVE ReachOK'
  BY <1>5 DEF PreparedTimeout, history
<1>6. ASSUME NEW w \in Workers, Transition(w) PROVE ReachOK'
  <2>1. UNCHANGED <<rows, xact, held>>
    BY <1>6 DEF Transition, history
  <2>2. status' \in {"submitted", "succeed"} => status \in {"submitted", "succeed"}
    BY <1>6 DEF Transition, IInv, DecidedOK, CopyOK
  <2> QED BY <2>1, <2>2
<1>7. ASSUME NEW w \in Workers,
             \/ Lock(w) \/ NotDue(w) \/ Count(w) \/ Advance(w) \/ Record(w) \/ NoAnswer(w)
             \/ Crash(w)
      PROVE  ReachOK'
  BY <1>7 DEF Lock, NotDue, Count, Advance, Record, NoAnswer, Crash, store, client, history
<1>8. CASE Begin \/ UNCHANGED vars
  BY <1>8 DEF Begin, store, client, history, vars
<1> QED BY <1>1, <1>2, <1>3, <1>4, <1>5, <1>6, <1>7, <1>8 DEF Next

\* What the databases show changes where one of them moves.
LEMMA OneShows ==
  ASSUME IInv, NEW i \in Branch, NEW x, xact' = [xact EXCEPT ![i] = x]
  PROVE  /\ Effect[i] = Shows(i)
         /\ Effect' = [Effect EXCEPT ![i] = Shows(i)']
         /\ xact'[i] = x
<1>1. xact'[i] = x /\ \A j \in Branch \ {i} : xact'[j] = xact[j]
  BY DEF IInv, TypeOK
<1>2. \A j \in Branch \ {i} : Shows(j)' = Shows(j)
  BY <1>1 DEF Shows
<1>3. Effect' = [j \in Branch |-> Shows(j)'] /\ Effect = [j \in Branch |-> Shows(j)]
  BY DEF Effect
<1> QED BY <1>1, <1>2, <1>3

\* The steps of a participant and its database.
LEMMA ParticipantImplements ==
  ASSUME IInv, NEW i \in Branch,
         \/ RegisterRead(i) \/ RegisterWrite(i) \/ XaBegin(i) \/ Prepare(i) \/ Discard(i)
         \/ Prepared(i) \/ Refused(i) \/ PrepareOk(i) \/ Lost(i) \/ Disconnect(i)
  PROVE  Promise!Hold(i) \/ Promise!Refuse(i) \/ UNCHANGED <<Decision, Effect, held>>
<1>1. UNCHANGED <<Decision, held>>
  BY DEF RegisterRead, RegisterWrite, XaBegin, Prepare, Discard, Prepared, Refused, PrepareOk,
     Lost, Disconnect, store, client, history, Decision
<1>2. CASE RegisterRead(i) \/ RegisterWrite(i) \/ PrepareOk(i) \/ Lost(i)
  <2>1. UNCHANGED xact
    BY <1>2 DEF RegisterRead, RegisterWrite, PrepareOk, Lost
  <2> QED BY <1>1, <2>1 DEF Effect, Shows
<1>3. CASE XaBegin(i) \/ Prepare(i)
  <2>1. PICK x \in {"active", "preparing"} : xact' = [xact EXCEPT ![i] = x]
    BY <1>3 DEF XaBegin, Prepare
  <2>2. xact[i] \in {"none", "active"}
    BY <1>3 DEF XaBegin, Prepare, IInv, PartOK
  <2>3. Shows(i) = "none" /\ Shows(i)' = "none"
    BY <2>1, <2>2, OneShows DEF Shows
  <2>4. Effect' = Effect
    BY <2>1, <2>3, OneShows DEF Effect
  <2> QED BY <1>1, <2>4
<1>4. CASE Discard(i) \/ Prepared(i) \/ Refused(i) \/ Disconnect(i)
  <2>1. xact[i] \in {"active", "preparing"} /\ status \in GlobalStatus \cup {"absent"}
    BY <1>4 DEF Discard, Prepared, Refused, Disconnect, IInv, PartOK, TypeOK
  <2>2. Decision \in {"open", "abort", "aborted"}
    <3>1. status \notin {"submitted", "succeed"}
      BY <2>1 DEF IInv, SubmittedOK, PartOK
    <3> QED BY <2>1, <3>1 DEF Decision, GlobalStatus
  <2>3. Shows(i) = "none"
    BY <2>1 DEF Shows
  <2>4. CASE xact' = [xact EXCEPT ![i] = "prepared"]
    <3>1. Shows(i)' = "held"
      BY <2>4, OneShows DEF Shows
    <3>2. Effect[i] = "none" /\ Effect' = [Effect EXCEPT ![i] = "held"]
      BY <2>3, <2>4, <3>1, OneShows
    <3> QED BY <1>1, <2>2, <3>2 DEF Promise!Hold
  <2>5. CASE xact' = [xact EXCEPT ![i] = "rolledback"]
    <3>1. Shows(i)' = "undone"
      BY <2>5, OneShows DEF Shows
    <3>2. Effect[i] = "none" /\ Effect' = [Effect EXCEPT ![i] = "undone"]
      BY <2>3, <2>5, <3>1, OneShows
    <3> QED BY <1>1, <2>2, <3>2 DEF Promise!Refuse
  <2> QED BY <1>4, <2>4, <2>5 DEF Discard, Prepared, Refused, Disconnect
<1> QED BY <1>2, <1>3, <1>4

\* A second-phase call follows the decision, or moves nothing.
LEMMA ResolveImplements ==
  ASSUME IInv, ReachOK, ExecuteStray \/ \E w \in Workers : Execute(w)
  PROVE  \/ \E i \in Branch : Promise!Carry(i) \/ Promise!GiveBack(i)
         \/ UNCHANGED <<Decision, Effect, held>>
<1>1. UNCHANGED <<Decision, held>>
  BY WhatResolves DEF Decision
<1>2. CASE UNCHANGED xact
  BY <1>1, <1>2 DEF Effect, Shows
<1>3. ASSUME NEW op \in XaOp, NEW i \in Branch,
             <<op, i>> \in sent, i \in rows, xact[i] = "prepared",
             xact' = [xact EXCEPT ![i] = IF op = "commit" THEN "committed" ELSE "rolledback"]
      PROVE  Promise!Carry(i) \/ Promise!GiveBack(i)
  <2>1. Effect[i] = "held" /\ Effect' = [Effect EXCEPT ![i] = Shows(i)']
    BY <1>3, OneShows DEF Shows
  <2>2. CASE op = "commit"
    <3>1. Shows(i)' = "done"
      BY <1>3, <2>2, OneShows DEF Shows
    <3>2. status \in {"submitted", "succeed"} /\ i \in held /\ held \subseteq known
      BY <1>3, <2>2 DEF IInv, DirectionOK, TypeOK, ReachOK
    <3>3. Decision = "commit"
      BY <1>3, <3>2 DEF IInv, FinalOK, Decision
    <3> QED BY <1>1, <2>1, <3>1, <3>2, <3>3 DEF Promise!Carry
  <2>3. CASE op = "rollback"
    <3>1. Shows(i)' = "undone"
      BY <1>3, <2>3, OneShows DEF Shows
    <3>2. status = "aborting" \/ (status = "failed" /\ i \notin held)
      BY <1>3, <2>3 DEF IInv, DirectionOK, FinalOK
    <3>3. Decision = "abort" \/ (Decision = "aborted" /\ i \notin held)
      BY <3>2 DEF Decision
    <3> QED BY <1>1, <2>1, <3>1, <3>3 DEF Promise!GiveBack
  <2> QED BY <2>2, <2>3 DEF XaOp
<1> QED BY <1>2, <1>3, WhatResolves

\* The steps that leave prepared.
LEMMA DecideImplements ==
  ASSUME IInv, ReachOK, status = "prepared", UNCHANGED xact,
         held' = {i \in rows : xact[i] = "prepared"},
         \/ status' = "aborting"
         \/ status' = "submitted" /\ \A i \in Branch : part[i] \in {"none", "ready"}
  PROVE  Promise!Commit \/ Promise!Abort
<1>1. Decision = "open" /\ UNCHANGED Effect
  BY DEF Decision, Effect, Shows
<1>2. \A i \in Branch : Effect[i] = "held" <=> xact[i] = "prepared"
  BY DEF Effect, Shows, IInv, TypeOK
<1>3. rows \subseteq Branch /\ \A i \in Branch : xact[i] = "prepared" => i \in rows
  BY DEF IInv, TypeOK, ReachOK
<1>4. held' = Promise!Held
  BY <1>2, <1>3 DEF Promise!Held
<1>5. CASE status' = "aborting"
  <2>1. Decision' = "abort"
    BY <1>5 DEF Decision
  <2>2. held' \in SUBSET Branch /\ Promise!Held \subseteq held'
    BY <1>3, <1>4
  <2> QED BY <1>1, <2>1, <2>2 DEF Promise!Abort
<1>6. CASE status' = "submitted" /\ \A i \in Branch : part[i] \in {"none", "ready"}
  <2>1. Decision' = "commit"
    BY <1>6 DEF Decision
  <2>2. \A i \in Branch : Effect[i] \in {"none", "held"}
    BY <1>6, AllReady DEF Effect, Shows
  <2> QED BY <1>1, <1>4, <2>1, <2>2 DEF Promise!Commit
<1> QED BY <1>5, <1>6

\* An XA transaction behaves as an atomic commitment: no database that has
\* prepared moves before the decision or against it, a submit finds all of them
\* prepared, and the end is reported when every one of them has followed.
THEOREM XaImplements ==
  ASSUME "sql_inline" \notin Deployments
  PROVE  Spec => Implements
<1>1. Init => Promise!CInit /\ ReachOK
  <2> SUFFICES ASSUME Init PROVE Promise!CInit /\ ReachOK
    OBVIOUS
  <2>1. \A i \in Branch : Shows(i) = "none"
    BY DEF Init, Shows
  <2>2. Decision = "open" /\ Effect = [i \in Branch |-> "none"] /\ held = {}
    BY <2>1 DEF Init, Decision, Effect
  <2>3. ReachOK
    BY DEF Init, ReachOK
  <2> QED BY <2>2, <2>3 DEF Promise!CInit
<1>2. IInv /\ ReachOK /\ [Next]_vars => [Promise!CNext]_(Promise!cvars)
  <2> SUFFICES ASSUME IInv, ReachOK, [Next]_vars
               PROVE  Promise!CNext \/ UNCHANGED <<Decision, Effect, held>>
    BY DEF Promise!cvars
  <2>1. CASE UNCHANGED <<status, xact, held>>
    BY <2>1 DEF Decision, Effect, Shows
  <2>2. CASE ExecuteStray \/ \E w \in Workers : Execute(w)
    BY <2>2, ResolveImplements DEF Promise!CNext
  <2>3. ASSUME NEW i \in Branch,
               \/ RegisterRead(i) \/ RegisterWrite(i) \/ XaBegin(i) \/ Prepare(i) \/ Discard(i)
               \/ Prepared(i) \/ Refused(i) \/ PrepareOk(i) \/ Lost(i) \/ Disconnect(i)
        PROVE  Promise!CNext \/ UNCHANGED <<Decision, Effect, held>>
    BY <2>3, ParticipantImplements DEF Promise!CNext
  <2>4. CASE Submit \/ Abort \/ \E w \in Workers : PreparedTimeout(w)
    <3>1. \/ UNCHANGED <<status, xact, held>>
          \/ /\ status = "prepared" /\ UNCHANGED xact
             /\ held' = {i \in rows : xact[i] = "prepared"}
             /\ \/ status' = "aborting"
                \/ status' = "submitted" /\ \A i \in Branch : part[i] \in {"none", "ready"}
      BY <2>4 DEF Submit, SubmitRead, SubmitWrite, SubmitAtomic, Abort, Decides, IInv, SubmittedOK,
         PreparedTimeout, CanTransition, StatusContested, store, history
    <3>2. UNCHANGED <<status, xact, held>> \/ Promise!Commit \/ Promise!Abort
      BY <3>1, DecideImplements
    <3> QED BY <2>1, <3>2 DEF Promise!CNext
  <2>5. CASE Begin
    <3>1. /\ status = "absent" /\ status' = "prepared" /\ UNCHANGED <<xact, held>>
      BY <2>5 DEF Begin, history, IInv, SubmittedOK
    <3> QED BY <3>1 DEF Decision, Effect, Shows
  <2>6. ASSUME NEW w \in Workers, Transition(w), status' # status
        PROVE  Promise!CNext
    <3>1. UNCHANGED <<xact, held>> /\ status' = wk[w].job.to /\ wk[w].pc = "transition"
      BY <2>6 DEF Transition, history
    <3>2. \/ /\ status = "submitted" /\ status' = "succeed"
             /\ \A i \in known : xact[i] = "committed"
          \/ /\ status = "aborting" /\ status' = "failed"
             /\ \A i \in held : xact[i] = "rolledback"
      BY <2>6, <3>1 DEF IInv, DecidedOK, CopyOK
    <3>3. held \subseteq known /\ known \subseteq Branch /\ UNCHANGED Effect
      BY <3>1 DEF IInv, TypeOK, Effect, Shows
    <3>4. CASE /\ status = "submitted" /\ status' = "succeed"
               /\ \A i \in known : xact[i] = "committed"
      <4>1. \A i \in held : Effect[i] = "done"
        BY <3>3, <3>4 DEF Effect, Shows
      <4>2. Decision = "commit" /\ Decision' = "committed"
        BY <3>4 DEF Decision
      <4> QED BY <3>1, <3>3, <4>1, <4>2 DEF Promise!CNext, Promise!EndCommit
    <3>5. CASE /\ status = "aborting" /\ status' = "failed"
               /\ \A i \in held : xact[i] = "rolledback"
      <4>1. \A i \in held : Effect[i] = "undone"
        BY <3>3, <3>5 DEF Effect, Shows
      <4>2. Decision = "abort" /\ Decision' = "aborted"
        BY <3>5 DEF Decision
      <4> QED BY <3>1, <3>3, <4>1, <4>2 DEF Promise!CNext, Promise!EndAbort
    <3> QED BY <3>2, <3>4, <3>5
  <2>7. ASSUME NEW w \in Workers,
               \/ Lock(w) \/ NotDue(w) \/ Count(w) \/ Advance(w) \/ Record(w) \/ NoAnswer(w)
               \/ Crash(w) \/ (Transition(w) /\ status' = status)
        PROVE  UNCHANGED <<status, xact, held>>
    BY <2>7 DEF Lock, NotDue, Count, Advance, Record, NoAnswer, Crash, Transition,
     store, client, history
  <2>8. CASE UNCHANGED vars
    BY <2>1, <2>8 DEF vars
  <2> QED BY <2>1, <2>2, <2>3, <2>4, <2>5, <2>6, <2>7, <2>8 DEF Next
<1> QED BY <1>1, <1>2, ReachStep, XaInvariant, PTL DEF Spec, Implements, Promise!CSpec

=============================================================================
