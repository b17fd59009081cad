--------------------------- MODULE TwoPhaseProofs ---------------------------
(***************************************************************************)
(* Proofs about TwoPhase for every number of branches and every set of     *)
(* workers.  They hold in every deployment but SQL with inline drivers,    *)
(* where run two_phase_sql shows OneDirection violated; the theorems name  *)
(* that hypothesis.                                                        *)
(***************************************************************************)
EXTENDS TwoPhase, CoreProofs

-----------------------------------------------------------------------------
(***************************************************************************)
(* The inductive invariant.                                                *)
(***************************************************************************)

\* A branch is untouched, tried once, or closed: its cancel took the try row,
\* and what was tried has been taken back.  Confirm runs once, with its row.
BarrierOK ==
  \A i \in Branch :
    /\ "try" \notin rows[i] =>
         "cancel" \notin rows[i] /\ did[i]["try"] = 0 /\ did[i]["cancel"] = 0
    /\ "try" \in rows[i] /\ "cancel" \notin rows[i] =>
         did[i]["try"] = 1 /\ did[i]["cancel"] = 0
    /\ "cancel" \in rows[i] => did[i]["try"] = did[i]["cancel"]
    /\ did[i]["confirm"] = IF "confirm" \in rows[i] THEN 1 ELSE 0

\* A call in progress was sent, in the direction of the worker's copy, and a
\* SUCCESS tells of the barrier row.
CallsOK ==
  \A w \in Workers :
    /\ pc[w] # "call" => reply[w] = "none"
    /\ pc[w] = "call" => /\ job[w].op \in {"confirm", "cancel"}
                         /\ job[w].index \in Branch
                         /\ <<job[w].op, job[w].index>> \in sent
    /\ pc[w] = "call" /\ reply[w] = "success" => job[w].op \in rows[job[w].index]

\* A branch row marked succeed vouches for the barrier row behind it.
RecordedOK ==
  \A i \in Branch :
    /\ confirm[i] = "succeed" => "confirm" \in rows[i]
    /\ cancel[i] = "succeed" => "cancel" \in rows[i]

\* However old a worker's copy is, it does not err about the direction.
CopyOK ==
  /\ deployment # "sql_inline"
  /\ \A w \in Workers :
       /\ st[w] = "aborting" => status \in {"aborting", "failed"}
       /\ st[w] = "submitted" => status \in {"submitted", "succeed"}

\* Second-phase calls leave only in the direction that was decided, and only
\* what was sent has barrier rows.
DirectionOK ==
  \A i \in Branch :
    /\ <<"confirm", i>> \in sent \/ "confirm" \in rows[i] => status \in {"submitted", "succeed"}
    /\ <<"cancel", i>> \in sent \/ "cancel" \in rows[i] => status \in {"aborting", "failed"}

\* A worker beyond the count has counted every branch registered when the
\* decision fell.
CountOK ==
  /\ known <= registered
  /\ \A w \in Workers :
       pc[w] \in {"loop", "call", "transition", "retry"} =>
         /\ st[w] # "prepared"
         /\ known <= n[w] /\ n[w] <= registered

\* The caller: at most one registration is under way, and only the caller's
\* death leaves one behind; whoever submits has tried every branch, and
\* nothing is registered after that.
CallerOK ==
  /\ client = "new" <=> status = "absent"
  /\ client = "new" => registered = 0
  /\ registering # 0 => client \in {"registering", "gone"} /\ registering = registered + 1
  /\ client = "registering" => registering # 0
  /\ client = "trying" => registered # 0 /\ <<"try", registered>> \in sent
  /\ client = "trying" => \A i \in Branch : i < registered => "try" \in rows[i]
  /\ client \in {"ready", "registering"} =>
       \A i \in Branch : i <= registered => "try" \in rows[i]
  /\ submitting = "read" \/ status \in {"submitted", "succeed"} =>
       /\ client = "gone" /\ registering = 0
       /\ \A i \in Branch : i <= registered => "try" \in rows[i]

\* What a worker about to write the final status knows of all the branches.
DecidedOK ==
  \A w \in Workers :
    pc[w] = "transition" =>
      \/ /\ job[w].to = "succeed" /\ st[w] = "submitted"
         /\ \A i \in Branch : i <= known => "confirm" \in rows[i]
      \/ /\ job[w].to = "failed" /\ st[w] = "aborting"
         /\ \A i \in Branch : i <= known => "cancel" \in rows[i]

\* A final status keeps what the deciding worker knew.
FinalOK ==
  \A i \in Branch : i <= known =>
    /\ status = "succeed" => "confirm" \in rows[i]
    /\ status = "failed" => "cancel" \in rows[i]

IInv ==
  /\ TypeOK /\ BarrierOK /\ CallsOK /\ RecordedOK /\ CopyOK /\ DirectionOK
  /\ CountOK /\ CallerOK /\ DecidedOK /\ FinalOK

-----------------------------------------------------------------------------
(***************************************************************************)
(* Preservation, one lemma per kind of step.                               *)
(***************************************************************************)

\* The initial state satisfies the invariant.
LEMMA InitInv ==
  ASSUME "sql_inline" \notin Deployments
  PROVE  Init => IInv
<1> SUFFICES ASSUME Init PROVE IInv
  OBVIOUS
<1>1. TypeOK
  BY NAssumption DEF Init, TypeOK, Branch, BranchStatus, GlobalStatus, Jobs, Wait, TccOp
<1>2. BarrierOK /\ CallsOK /\ RecordedOK /\ CopyOK /\ DirectionOK
  BY DEF Init, BarrierOK, CallsOK, RecordedOK, CopyOK, DirectionOK, TccOp
<1>3. CountOK /\ CallerOK /\ DecidedOK /\ FinalOK
  BY DEF Init, CountOK, CallerOK, DecidedOK, FinalOK, Branch
<1> QED BY <1>1, <1>2, <1>3 DEF IInv

\* What the execution of an op does to its branch: rows only accumulate, and
\* the effects stay in step with the rows.
LEMMA RunsEffect ==
  ASSUME IInv, NEW o \in TccOp, NEW i \in Branch, NEW r \in {"success", "failure"},
         Runs(o, i, r)
  PROVE  /\ rows' \in [Branch -> SUBSET TccOp]
         /\ did' \in [Branch -> [TccOp -> Nat]]
         /\ \A k \in Branch : rows[k] \subseteq rows'[k]
         /\ r = "success" => o \in rows'[i]
         /\ \A k \in Branch, p \in {"confirm", "cancel"} :
              p \in rows'[k] => p \in rows[k] \/ (k = i /\ p = o)
         /\ BarrierOK'
<1> USE DEF IInv
<1> DEFINE new == DecideRows(rows[i], o)
<1>1. /\ rows \in [Branch -> SUBSET TccOp] /\ rows[i] \in SUBSET TccOp
      /\ did \in [Branch -> [TccOp -> Nat]]
  BY DEF TypeOK
<1>2. /\ new = rows[i] \cup {o} \cup (IF o = "cancel" THEN {"try"} ELSE {})
      /\ Decide(rows[i], o) = "Execute" <=>
           o \notin rows[i] /\ (o = "cancel" => "try" \in rows[i])
  BY DEF DecideRows, Decide, OriginOp, IsCompensating, TccOp
<1> HIDE DEF new
<1>3. /\ "try" \notin rows[i] =>
           "cancel" \notin rows[i] /\ did[i]["try"] = 0 /\ did[i]["cancel"] = 0
      /\ "try" \in rows[i] /\ "cancel" \notin rows[i] =>
           did[i]["try"] = 1 /\ did[i]["cancel"] = 0
      /\ "cancel" \in rows[i] => did[i]["try"] = did[i]["cancel"]
      /\ did[i]["confirm"] = IF "confirm" \in rows[i] THEN 1 ELSE 0
  BY DEF BarrierOK
<1>4. CASE rows' = rows /\ did' = did /\ r = "failure"
  BY <1>1, <1>4 DEF BarrierOK
<1>5. CASE /\ rows' = [rows EXCEPT ![i] = new] /\ r = "success"
           /\ Decide(rows[i], o) = "Execute"
           /\ did' = [did EXCEPT ![i] = [did[i] EXCEPT ![o] = did[i][o] + 1]]
  <2>1. /\ rows' \in [Branch -> SUBSET TccOp] /\ did' \in [Branch -> [TccOp -> Nat]]
        /\ rows'[i] = new /\ \A k \in Branch \ {i} : rows'[k] = rows[k] /\ did'[k] = did[k]
        /\ did'[i] = [did[i] EXCEPT ![o] = did[i][o] + 1]
    BY <1>1, <1>2, <1>5 DEF TccOp
  <2>2. /\ did[i] \in [TccOp -> Nat] /\ o \notin rows[i]
        /\ \A p \in TccOp : did'[i][p] = IF p = o THEN did[i][p] + 1 ELSE did[i][p]
    BY <1>1, <1>2, <1>5, <2>1
  <2>3. BarrierOK'
    <3>1. CASE o = "try"
      BY <1>2, <1>3, <1>5, <2>1, <2>2, <3>1 DEF BarrierOK, TccOp
    <3>2. CASE o = "confirm"
      BY <1>2, <1>3, <1>5, <2>1, <2>2, <3>2 DEF BarrierOK, TccOp
    <3>3. CASE o = "cancel"
      BY <1>2, <1>3, <1>5, <2>1, <2>2, <3>3 DEF BarrierOK, TccOp
    <3> QED BY <3>1, <3>2, <3>3 DEF TccOp
  <2> QED BY <1>2, <1>5, <2>1, <2>3
<1>6. CASE /\ rows' = [rows EXCEPT ![i] = new] /\ r = "success"
           /\ Decide(rows[i], o) # "Execute" /\ did' = did
  <2>1. /\ rows' \in [Branch -> SUBSET TccOp]
        /\ rows'[i] = new /\ \A k \in Branch \ {i} : rows'[k] = rows[k]
    BY <1>1, <1>2, <1>6 DEF TccOp
  <2>2. BarrierOK'
    BY <1>1, <1>2, <1>3, <1>6, <2>1 DEF BarrierOK, TccOp
  <2> QED BY <1>1, <1>2, <1>6, <2>1, <2>2
<1> QED BY <1>4, <1>5, <1>6 DEF Runs, branches, new

\* Executing a call that was sent, awaited or not, keeps all that was known
\* about barrier rows and goes in the direction that was decided.
LEMMA RunsInv ==
  ASSUME IInv, NEW o \in TccOp, NEW i \in Branch, NEW r \in {"success", "failure"},
         Runs(o, i, r), <<o, i>> \in sent,
         UNCHANGED <<deployment, status, registered, confirm, cancel, registering,
                     submitting, pc, st, n, job, sent, known>>
  PROVE  /\ BarrierOK' /\ RecordedOK' /\ CopyOK' /\ DirectionOK' /\ CountOK'
         /\ DecidedOK' /\ FinalOK'
         /\ client' = client => CallerOK'
<1> USE DEF IInv
<1>1. (\A k \in Branch : rows[k] \subseteq rows'[k]) /\ BarrierOK'
  BY RunsEffect
<1>2. RecordedOK' /\ CopyOK' /\ CountOK' /\ DecidedOK' /\ FinalOK'
  BY <1>1 DEF RecordedOK, CopyOK, CountOK, DecidedOK, FinalOK
<1>3. DirectionOK'
  <2>1. \A k \in Branch, p \in {"confirm", "cancel"} :
          p \in rows'[k] => p \in rows[k] \/ (k = i /\ p = o)
    BY RunsEffect
  <2> QED BY <2>1 DEF DirectionOK
<1>4. ASSUME client' = client PROVE CallerOK'
  BY <1>1, <1>4 DEF CallerOK
<1> QED BY <1>1, <1>2, <1>3, <1>4

\* An awaited call is executed.
LEMMA ExecuteInv ==
  ASSUME IInv, NEW w \in Workers, Execute(w)
  PROVE  IInv'
<1> USE DEF IInv
<1>1. PICK r \in {"success", "failure"} :
         Runs(job[w].op, job[w].index, r) /\ reply' = [reply EXCEPT ![w] = r]
  BY DEF Execute
<1>2. /\ pc[w] = "call"
      /\ UNCHANGED <<deployment, status, registered, confirm, cancel, client, registering,
                     submitting, pc, st, n, job, sent, known>>
  BY DEF Execute, store, caller
<1>3. /\ job[w].op \in TccOp /\ job[w].index \in Branch
      /\ <<job[w].op, job[w].index>> \in sent
  BY <1>2 DEF CallsOK, TccOp
<1>4. /\ BarrierOK' /\ RecordedOK' /\ CopyOK' /\ DirectionOK' /\ CountOK'
      /\ DecidedOK' /\ FinalOK' /\ CallerOK'
  BY <1>1, <1>2, <1>3, RunsInv
<1>5. /\ rows' \in [Branch -> SUBSET TccOp] /\ did' \in [Branch -> [TccOp -> Nat]]
      /\ \A k \in Branch : rows[k] \subseteq rows'[k]
      /\ r = "success" => job[w].op \in rows'[job[w].index]
  BY <1>1, <1>3, RunsEffect
<1>6. TypeOK'
  BY <1>1, <1>2, <1>5 DEF TypeOK
<1>7. CallsOK'
  BY <1>1, <1>2, <1>3, <1>5 DEF CallsOK, TypeOK
<1> QED BY <1>4, <1>6, <1>7

\* A stray call is executed.
LEMMA ExecuteStrayInv ==
  ASSUME IInv, ExecuteStray
  PROVE  IInv'
<1> USE DEF IInv
<1>1. PICK c \in sent, r \in {"success", "failure"} : Runs(c[1], c[2], r)
  BY DEF ExecuteStray
<1>2. UNCHANGED <<deployment, status, registered, confirm, cancel, client, registering,
                  submitting, pc, st, n, job, reply, sent, known>>
  BY DEF ExecuteStray, store, caller, drivers
<1>3. c[1] \in TccOp /\ c[2] \in Branch /\ <<c[1], c[2]>> \in sent
  <2>1. c \in TccOp \X Branch
    BY DEF TypeOK
  <2> QED BY <2>1
<1>4. /\ BarrierOK' /\ RecordedOK' /\ CopyOK' /\ DirectionOK' /\ CountOK'
      /\ DecidedOK' /\ FinalOK' /\ CallerOK'
  BY <1>1, <1>2, <1>3, RunsInv
<1>5. /\ rows' \in [Branch -> SUBSET TccOp] /\ did' \in [Branch -> [TccOp -> Nat]]
      /\ \A k \in Branch : rows[k] \subseteq rows'[k]
  BY <1>1, <1>3, RunsEffect
<1>6. TypeOK' /\ CallsOK'
  BY <1>2, <1>5 DEF TypeOK, CallsOK
<1> QED BY <1>4, <1>6

\* The caller's try is executed and answered: only a success lets it go on.
LEMMA TryInv ==
  ASSUME IInv, Try
  PROVE  IInv'
<1> USE DEF IInv
<1>1. PICK r \in {"success", "failure"} :
         /\ Runs("try", registered, r)
         /\ client' = IF r = "success" THEN "ready" ELSE "failed"
  BY DEF Try
<1>2. /\ client = "trying"
      /\ UNCHANGED <<deployment, status, registered, confirm, cancel, registering,
                     submitting, pc, st, n, job, reply, sent, known>>
  BY DEF Try, store, drivers
<1>3. "try" \in TccOp /\ registered \in Branch /\ <<"try", registered>> \in sent
  BY <1>2 DEF CallerOK, TypeOK, TccOp, Branch
<1>4. /\ BarrierOK' /\ RecordedOK' /\ CopyOK' /\ DirectionOK' /\ CountOK'
      /\ DecidedOK' /\ FinalOK'
  BY <1>1, <1>2, <1>3, RunsInv
<1>5. /\ rows' \in [Branch -> SUBSET TccOp] /\ did' \in [Branch -> [TccOp -> Nat]]
      /\ \A k \in Branch : rows[k] \subseteq rows'[k]
      /\ r = "success" => "try" \in rows'[registered]
  BY <1>1, <1>3, RunsEffect
<1>6. TypeOK' /\ CallsOK'
  BY <1>1, <1>2, <1>5 DEF TypeOK, CallsOK
<1>7. CallerOK'
  <2>1. client = "trying" /\ registering = 0 /\ status \notin {"submitted", "succeed"}
        /\ submitting # "read" /\ status # "absent"
        /\ \A k \in Branch : k < registered => "try" \in rows[k]
    BY <1>2 DEF CallerOK
  <2>2. r = "success" => \A k \in Branch : k <= registered => "try" \in rows'[k]
    BY <1>5, <2>1 DEF Branch, TypeOK
  <2> QED BY <1>1, <1>2, <2>1, <2>2 DEF CallerOK
<1> QED BY <1>4, <1>6, <1>7

\* The steps of a worker that write nothing: a stale copy may be dropped, and a
\* fresh one is right about the direction and the count.
LEMMA QuietInv ==
  ASSUME IInv, NEW w \in Workers,
         \/ Lock(w) \/ NotDue(w) \/ Count(w) \/ NoAnswer(w) \/ RetryLater(w) \/ Crash(w)
  PROVE  IInv'
<1> USE DEF IInv
<1>1. UNCHANGED <<deployment, status, registered, confirm, cancel, client, registering,
                  submitting, sent, rows, did, known>>
  BY DEF Lock, NotDue, Count, NoAnswer, RetryLater, Crash, store, caller, branches
<1>2. BarrierOK' /\ RecordedOK' /\ DirectionOK' /\ CallerOK' /\ FinalOK'
  BY <1>1 DEF BarrierOK, RecordedOK, DirectionOK, CallerOK, FinalOK
<1>3. Wait \in Jobs /\ Finish("succeed") \in Jobs /\ Finish("failed") \in Jobs
  BY NAssumption DEF Wait, Finish, Jobs, GlobalStatus
<1>4. CASE Lock(w)
  <2>1. /\ pc' = [pc EXCEPT ![w] = "process"] /\ st' = [st EXCEPT ![w] = status]
        /\ UNCHANGED <<n, job, reply>> /\ status \in {"prepared", "submitted", "aborting"}
        /\ pc[w] = "idle"
    BY <1>4 DEF Lock, Schedulable
  <2>2. TypeOK' /\ CallsOK'
    BY <1>1, <2>1 DEF TypeOK, CallsOK
  <2>3. CopyOK' /\ CountOK' /\ DecidedOK'
    BY <1>1, <2>1 DEF TypeOK, CopyOK, CountOK, DecidedOK
  <2> QED BY <1>2, <2>2, <2>3
<1>5. CASE EndRound(w)
  <2>1. TypeOK' /\ CallsOK'
    BY <1>1, <1>3, <1>5, NAssumption DEF EndRound, TypeOK, CallsOK
  <2>2. CopyOK' /\ CountOK' /\ DecidedOK'
    BY <1>1, <1>5 DEF EndRound, TypeOK, CopyOK, CountOK, DecidedOK
  <2> QED BY <1>2, <2>1, <2>2
<1>6. CASE Count(w)
  <2>1. /\ pc[w] = "process" /\ st[w] # "prepared"
        /\ n' = [n EXCEPT ![w] = registered] /\ UNCHANGED <<st, reply>>
        /\ \/ pc' = [pc EXCEPT ![w] = "loop"] /\ job' = job
           \/ /\ registered = 0
              /\ pc' = [pc EXCEPT ![w] = "transition"]
              /\ job' = [job EXCEPT ![w] =
                           Finish(IF st[w] = "aborting" THEN "failed" ELSE "succeed")]
    BY <1>6 DEF Count
  <2>2. TypeOK'
    BY <1>1, <1>3, <2>1 DEF TypeOK
  <2>5. CallsOK' /\ CopyOK'
    BY <1>1, <2>1 DEF TypeOK, CallsOK, CopyOK
  <2>3. CountOK'
    BY <1>1, <2>1 DEF TypeOK, CountOK
  <2>4. DecidedOK'
    <3>1. CASE job' = job /\ pc' = [pc EXCEPT ![w] = "loop"]
      BY <1>1, <2>1, <3>1 DEF TypeOK, DecidedOK
    <3>2. CASE /\ registered = 0 /\ pc' = [pc EXCEPT ![w] = "transition"]
               /\ job' = [job EXCEPT ![w] =
                            Finish(IF st[w] = "aborting" THEN "failed" ELSE "succeed")]
      <4>1. known = 0 /\ \A i \in Branch : ~(i <= known)
        BY <3>2 DEF CountOK, TypeOK, Branch
      <4>2. \/ job'[w].to = "failed" /\ st[w] = "aborting"
            \/ job'[w].to = "succeed" /\ st[w] = "submitted"
        BY <2>1, <3>2 DEF TypeOK, Finish
      <4>3. \A v \in Workers \ {w} : job'[v] = job[v] /\ pc'[v] = pc[v]
        BY <3>2 DEF TypeOK
      <4> QED BY <1>1, <2>1, <4>1, <4>2, <4>3 DEF DecidedOK
    <3> QED BY <2>1, <3>1, <3>2
  <2> QED BY <1>2, <2>2, <2>3, <2>4, <2>5
<1>7. CASE NoAnswer(w)
  <2>1. /\ pc[w] = "call" /\ pc' = [pc EXCEPT ![w] = "retry"]
        /\ job' = [job EXCEPT ![w] = Wait]
        /\ reply' = [reply EXCEPT ![w] = "none"] /\ UNCHANGED <<st, n>>
    BY <1>7 DEF NoAnswer
  <2>2. TypeOK' /\ CallsOK'
    BY <1>1, <1>3, <2>1 DEF TypeOK, CallsOK
  <2>3. CopyOK' /\ CountOK' /\ DecidedOK'
    BY <1>1, <2>1 DEF TypeOK, CopyOK, CountOK, DecidedOK
  <2> QED BY <1>2, <2>2, <2>3
<1> QED BY <1>4, <1>5, <1>6, <1>7 DEF NotDue, RetryLater, Crash

\* A worker's decision: what it calls goes in the direction that was decided,
\* and what it is about to write is backed by the barrier rows.
LEMMA AdvanceInv ==
  ASSUME IInv, NEW w \in Workers, Advance(w)
  PROVE  IInv'
<1> USE DEF IInv
<1> DEFINE c == [i \in 1 .. n[w] |-> confirm[i]]
           u == [i \in 1 .. n[w] |-> cancel[i]]
           d == TwoPhaseAdvance(st[w], c, u, "confirm", "cancel")
<1>1. /\ pc[w] = "loop"
      /\ job' = [job EXCEPT ![w] = d]
      /\ \/ /\ d.kind = "call"
            /\ pc' = [pc EXCEPT ![w] = "call"]
            /\ sent' = sent \cup {<<d.op, d.index>>}
         \/ /\ d.kind = "finish"
            /\ pc' = [pc EXCEPT ![w] = "transition"]
            /\ sent' = sent
      /\ UNCHANGED <<deployment, status, registered, confirm, cancel, client, registering,
                     submitting, st, n, reply, rows, did, known>>
  BY DEF Advance, TccAdvance, store, caller, branches
<1>2. /\ n[w] \in Nat /\ known <= n[w] /\ 1 .. n[w] \subseteq Branch /\ known \in Nat
      /\ st[w] \in {"submitted", "aborting"}
      /\ \A i \in Branch : i <= n[w] => i \in 1 .. n[w]
  BY <1>1, NAssumption DEF TypeOK, CountOK, Branch
<1>3. c \in [1 .. n[w] -> BranchStatus] /\ u \in [1 .. n[w] -> BranchStatus]
  BY <1>2 DEF TypeOK
<1>4. /\ \A i \in 1 .. n[w] : c[i] = "succeed" => "confirm" \in rows[i]
      /\ \A i \in 1 .. n[w] : u[i] = "succeed" => "cancel" \in rows[i]
  BY <1>2 DEF RecordedOK
<1>5. \/ /\ st[w] = "submitted" /\ d = Finish("succeed")
         /\ \A i \in 1 .. n[w] : c[i] = "succeed"
      \/ st[w] = "submitted" /\ \E i \in 1 .. n[w] : d = Call("confirm", i)
      \/ /\ st[w] = "aborting" /\ d = Finish("failed")
         /\ \A i \in 1 .. n[w] : u[i] = "succeed"
      \/ st[w] = "aborting" /\ \E i \in 1 .. n[w] : d = Call("cancel", i)
  <2> HIDE DEF c, u
  <2> QED BY <1>2, <1>3, TwoPhaseAdvanceCases
<1> HIDE DEF c, u, d
<1>6. BarrierOK' /\ RecordedOK' /\ CopyOK' /\ FinalOK'
  BY <1>1 DEF BarrierOK, RecordedOK, CopyOK, FinalOK
<1>7. CallerOK' /\ CountOK'
  BY <1>1 DEF CallerOK, CountOK, TypeOK
<1>8. ASSUME NEW o \in {"confirm", "cancel"}, NEW i \in 1 .. n[w], d = Call(o, i),
             o = "confirm" => st[w] = "submitted", o = "cancel" => st[w] = "aborting"
      PROVE  TypeOK' /\ CallsOK' /\ DirectionOK' /\ DecidedOK'
  <2>1. /\ d.kind = "call" /\ d.op = o /\ d.index = i /\ i \in Branch
        /\ d \in Jobs /\ <<o, i>> \in TccOp \X Branch
    BY <1>2, <1>8 DEF Call, Jobs, Branch, TccOp
  <2>2. pc' = [pc EXCEPT ![w] = "call"] /\ sent' = sent \cup {<<o, i>>}
    BY <1>1, <2>1
  <2>3. TypeOK'
    BY <1>1, <2>1, <2>2 DEF TypeOK
  <2>4. CallsOK'
    <3>1. reply[w] = "none"
      BY <1>1 DEF CallsOK
    <3> QED BY <1>1, <2>1, <2>2, <3>1 DEF CallsOK, TypeOK
  <2>5. DirectionOK'
    BY <1>1, <1>8, <2>2 DEF DirectionOK, CopyOK
  <2>6. DecidedOK'
    BY <1>1, <2>2 DEF DecidedOK, TypeOK
  <2> QED BY <2>3, <2>4, <2>5, <2>6
<1>9. ASSUME \/ /\ st[w] = "submitted" /\ d = Finish("succeed")
                /\ \A i \in 1 .. n[w] : c[i] = "succeed"
             \/ /\ st[w] = "aborting" /\ d = Finish("failed")
                /\ \A i \in 1 .. n[w] : u[i] = "succeed"
      PROVE  TypeOK' /\ CallsOK' /\ DirectionOK' /\ DecidedOK'
  <2>1. /\ d.kind = "finish" /\ d \in Jobs
        /\ \/ /\ d.to = "succeed" /\ st[w] = "submitted"
              /\ \A i \in 1 .. n[w] : "confirm" \in rows[i]
           \/ /\ d.to = "failed" /\ st[w] = "aborting"
              /\ \A i \in 1 .. n[w] : "cancel" \in rows[i]
    BY <1>4, <1>9, NAssumption DEF Finish, Jobs, GlobalStatus
  <2>2. pc' = [pc EXCEPT ![w] = "transition"] /\ sent' = sent
    BY <1>1, <2>1
  <2>3. TypeOK' /\ CallsOK' /\ DirectionOK'
    BY <1>1, <2>1, <2>2 DEF TypeOK, CallsOK, DirectionOK
  <2>4. DecidedOK'
    <3>1. \A i \in Branch : i <= known => i \in 1 .. n[w]
      BY <1>2 DEF Branch
    <3>2. /\ job'[w] = d /\ \A v \in Workers \ {w} : job'[v] = job[v] /\ pc'[v] = pc[v]
      BY <1>1, <2>2 DEF TypeOK
    <3> QED BY <1>1, <2>1, <3>1, <3>2 DEF DecidedOK
  <2> QED BY <2>3, <2>4
<1>10. TypeOK' /\ CallsOK' /\ DirectionOK' /\ DecidedOK'
  BY <1>5, <1>8, <1>9
<1> QED BY <1>6, <1>7, <1>10

\* An answer is recorded: a SUCCESS is backed by the branch's barrier row.
LEMMA RecordInv ==
  ASSUME IInv, NEW w \in Workers, Record(w)
  PROVE  IInv'
<1> USE DEF IInv
<1> DEFINE s == IF reply[w] = "success" THEN "succeed" ELSE "failed"
           i == job[w].index
<1>1. /\ pc[w] = "call"
      /\ \/ /\ job[w].op = "confirm" /\ confirm' = [confirm EXCEPT ![i] = s]
            /\ cancel' = cancel
         \/ /\ job[w].op = "cancel" /\ cancel' = [cancel EXCEPT ![i] = s]
            /\ confirm' = confirm
      /\ \E p \in {"loop", "retry"} : pc' = [pc EXCEPT ![w] = p]
      /\ job' = [job EXCEPT ![w] = Wait]
      /\ reply' = [reply EXCEPT ![w] = "none"]
      /\ UNCHANGED <<deployment, status, registered, client, registering, submitting,
                     st, n, sent, rows, did, known>>
  BY DEF Record, caller, branches, CallsOK
<1>2. /\ i \in Branch /\ s \in BranchStatus /\ Wait \in Jobs
      /\ s = "succeed" => job[w].op \in rows[i]
  <2>1. Wait \in Jobs
    BY NAssumption DEF Wait, Jobs
  <2>2. s \in BranchStatus /\ (s = "succeed" => reply[w] = "success")
    BY DEF BranchStatus
  <2> QED BY <1>1, <2>1, <2>2 DEF CallsOK
<1> HIDE DEF s, i
<1>3. TypeOK'
  BY <1>1, <1>2 DEF TypeOK
<1>4. RecordedOK'
  BY <1>1, <1>2 DEF RecordedOK, TypeOK
<1>5. CallsOK' /\ CountOK' /\ DecidedOK'
  BY <1>1, <1>2 DEF CallsOK, CountOK, DecidedOK, TypeOK
<1>6. BarrierOK' /\ CopyOK' /\ DirectionOK' /\ CallerOK' /\ FinalOK'
  BY <1>1 DEF BarrierOK, CopyOK, DirectionOK, CallerOK, FinalOK
<1> QED BY <1>3, <1>4, <1>5, <1>6

\* The final status: whether Redis compares or not, it goes the way that was
\* decided, and inherits what the deciding worker knew.
LEMMA TransitionInv ==
  ASSUME IInv, NEW w \in Workers, Transition(w)
  PROVE  IInv'
<1> USE DEF IInv
<1>1. /\ pc[w] = "transition" /\ EndRound(w)
      /\ status' = IF CanTransition(w) THEN job[w].to ELSE status
      /\ UNCHANGED <<deployment, registered, confirm, cancel, client, registering,
                     submitting, sent, rows, did, known>>
      /\ Wait \in Jobs
  BY NAssumption DEF Transition, caller, branches, Wait, Jobs
<1>2. \/ status' = status
      \/ /\ status \in {"submitted", "succeed"} /\ status' = "succeed"
         /\ \A i \in Branch : i <= known => "confirm" \in rows[i]
      \/ /\ status \in {"aborting", "failed"} /\ status' = "failed"
         /\ \A i \in Branch : i <= known => "cancel" \in rows[i]
  BY <1>1 DEF DecidedOK, CopyOK
<1>3. TypeOK' /\ CallsOK'
  BY <1>1, <1>2, NAssumption DEF EndRound, TypeOK, CallsOK, GlobalStatus
<1>4. CopyOK' /\ CountOK' /\ DecidedOK'
  BY <1>1, <1>2 DEF EndRound, TypeOK, CopyOK, CountOK, DecidedOK
<1>5. BarrierOK' /\ RecordedOK' /\ DirectionOK' /\ CallerOK' /\ FinalOK'
  BY <1>1, <1>2 DEF BarrierOK, RecordedOK, DirectionOK, CallerOK, FinalOK
<1> QED BY <1>3, <1>4, <1>5

\* The prepared timeout: the comparison is what keeps it off a transaction
\* that was submitted meanwhile.
LEMMA PreparedTimeoutInv ==
  ASSUME IInv, NEW w \in Workers, PreparedTimeout(w)
  PROVE  IInv'
<1> USE DEF IInv
<1>1. /\ pc[w] = "process" /\ st[w] = "prepared" /\ Wait \in Jobs
      /\ UNCHANGED <<deployment, registered, confirm, cancel, client, registering,
                     submitting, sent, rows, did>>
  BY NAssumption DEF PreparedTimeout, caller, branches, Wait, Jobs
<1>2. CASE CanTransition(w)
  <2>1. /\ status = "prepared" /\ status' = "aborting" /\ known' = registered
        /\ st' = [st EXCEPT ![w] = "aborting"] /\ UNCHANGED <<pc, n, job, reply>>
    BY <1>1, <1>2 DEF PreparedTimeout, CanTransition, StatusContested
  <2>2. TypeOK' /\ CallsOK'
    BY <1>1, <2>1 DEF TypeOK, CallsOK, GlobalStatus
  <2>3. CopyOK' /\ CountOK' /\ DecidedOK'
    <3>1. \A v \in Workers : st[v] = "prepared"
      BY <2>1 DEF CopyOK, TypeOK
    <3> QED BY <1>1, <2>1, <3>1 DEF CopyOK, CountOK, DecidedOK, TypeOK
  <2>4. BarrierOK' /\ RecordedOK' /\ DirectionOK' /\ CallerOK' /\ FinalOK'
    BY <1>1, <2>1 DEF BarrierOK, RecordedOK, DirectionOK, CallerOK, FinalOK
  <2> QED BY <2>2, <2>3, <2>4
<1>3. CASE ~CanTransition(w)
  <2>1. EndRound(w) /\ UNCHANGED <<status, known>>
    BY <1>3 DEF PreparedTimeout
  <2>2. TypeOK' /\ CallsOK'
    BY <1>1, <2>1, NAssumption DEF EndRound, TypeOK, CallsOK
  <2>3. CopyOK' /\ CountOK' /\ DecidedOK'
    BY <1>1, <2>1 DEF EndRound, CopyOK, CountOK, DecidedOK, TypeOK
  <2>4. BarrierOK' /\ RecordedOK' /\ DirectionOK' /\ CallerOK' /\ FinalOK'
    BY <1>1, <2>1 DEF BarrierOK, RecordedOK, DirectionOK, CallerOK, FinalOK
  <2> QED BY <2>2, <2>3, <2>4
<1> QED BY <1>2, <1>3

\* The caller's own steps leave the workers, the calls and the status alone,
\* except that a registration sends the try.
LEMMA CallerInv ==
  ASSUME IInv,
         RegisterRead \/ RegisterWrite \/ TryUnknown \/ SubmitRead \/ ClientCrash
  PROVE  IInv'
<1> USE DEF IInv
<1>1. UNCHANGED <<deployment, status, confirm, cancel, pc, st, n, job, reply, rows, did,
                  known>>
  BY DEF RegisterRead, RegisterWrite, TryUnknown, SubmitRead, ClientCrash, store, drivers,
     branches
<1>2. BarrierOK' /\ RecordedOK' /\ CopyOK' /\ DecidedOK' /\ FinalOK'
  BY <1>1 DEF BarrierOK, RecordedOK, CopyOK, DecidedOK, FinalOK
<1>3. CASE RegisterWrite
  <2>1. /\ registering # 0 /\ registered' = registering /\ registering' = 0
        /\ \/ /\ client = "registering" /\ client' = "trying"
              /\ sent' = sent \cup {<<"try", registering>>}
           \/ client # "registering" /\ UNCHANGED <<client, sent>>
        /\ submitting' = submitting
    BY <1>3 DEF RegisterWrite
  <2>2. /\ registering = registered + 1 /\ registering \in Branch
        /\ client \in {"registering", "gone"} /\ status \notin {"submitted", "succeed"}
        /\ submitting # "read" /\ registered \in Nat
        /\ client = "registering" => \A i \in Branch : i <= registered => "try" \in rows[i]
    BY <2>1 DEF CallerOK, TypeOK, Branch
  <2>3. TypeOK'
    <3>1. sent' \subseteq TccOp \X Branch
      BY <2>1, <2>2 DEF TypeOK, TccOp
    <3>2. registered' \in 0 .. N /\ registering' \in 0 .. N
      BY <2>1, <2>2, NAssumption DEF Branch
    <3> QED BY <1>1, <2>1, <3>1, <3>2 DEF TypeOK
  <2>4. CallsOK' /\ DirectionOK'
    BY <1>1, <2>1 DEF CallsOK, DirectionOK
  <2>5. CountOK'
    BY <1>1, <2>1, <2>2 DEF CountOK, TypeOK
  <2>6. CallerOK'
    BY <1>1, <2>1, <2>2 DEF CallerOK, Branch
  <2> QED BY <1>2, <2>3, <2>4, <2>5, <2>6
<1>4. CASE RegisterRead \/ TryUnknown \/ SubmitRead \/ ClientCrash
  <2>1. UNCHANGED <<registered, sent>>
    BY <1>4 DEF RegisterRead, TryUnknown, SubmitRead, ClientCrash, store
  <2>2. CallsOK' /\ DirectionOK' /\ CountOK'
    BY <1>1, <2>1 DEF CallsOK, DirectionOK, CountOK
  <2>3. CASE RegisterRead
    <3>1. TypeOK'
      <4>1. registering' \in 0 .. N
        BY <2>3, NAssumption DEF RegisterRead, TypeOK
      <4>2. client' \in {"registering", "failed"} /\ submitting' = submitting
        BY <2>3 DEF RegisterRead
      <4> QED BY <1>1, <2>1, <4>1, <4>2 DEF TypeOK
    <3>2. CallerOK'
      BY <1>1, <2>1, <2>3 DEF RegisterRead, CallerOK, TypeOK
    <3> QED BY <1>2, <2>2, <3>1, <3>2
  <2>4. CASE TryUnknown \/ SubmitRead \/ ClientCrash
    <3>1. TypeOK'
      BY <1>1, <2>1, <2>4 DEF TryUnknown, SubmitRead, ClientCrash, TypeOK
    <3>2. CallerOK'
      BY <1>1, <2>1, <2>4 DEF TryUnknown, SubmitRead, ClientCrash, CallerOK, TypeOK
    <3> QED BY <1>2, <2>2, <3>1, <3>2
  <2> QED BY <1>4, <2>3, <2>4
<1> QED BY <1>3, <1>4

\* The row appears, and prepared is left: by a submit, whose caller has tried
\* every branch and which may start a driver, or by anybody's abort.
LEMMA DecideInv ==
  ASSUME IInv,
         Prepare \/ Abort \/ (~OnRedis /\ SubmitWrite) \/ (OnRedis /\ SubmitAtomic)
  PROVE  IInv'
<1> USE DEF IInv
<1>1. /\ UNCHANGED <<deployment, registered, confirm, cancel, registering, n, job, reply,
                     sent, rows, did>>
      /\ \/ UNCHANGED <<pc, st>>
         \/ \E w \in Workers : /\ pc[w] = "idle" /\ pc' = [pc EXCEPT ![w] = "process"]
                               /\ st' = [st EXCEPT ![w] = "submitted"]
                               /\ status' = "submitted"
  BY DEF Prepare, SubmitWrite, SubmitAtomic, Abort, DriveDetached, drivers, branches, caller,
     CopyOK, Inline, OnRedis
<1>2. /\ \/ status = "absent" /\ status' = "prepared" /\ known' = known
            /\ client = "new" /\ client' = "ready"
         \/ status = "prepared" /\ known' = registered
            /\ \/ status' = "aborting" /\ client' = client
               \/ /\ status' = "submitted" /\ client' = "gone"
                  /\ client = "ready" \/ submitting = "read"
         \/ status' = status /\ known' = known /\ client' \in {client, "gone"} /\ client # "new"
      /\ submitting' \in {submitting, "none"}
  BY DEF Prepare, SubmitWrite, SubmitAtomic, Abort, CallerOK, caller
<1>3. TypeOK' /\ CallsOK'
  <2>1. /\ pc' \in [Workers -> {"idle", "process", "loop", "call", "transition", "retry"}]
        /\ st' \in [Workers -> {"prepared", "submitted", "aborting"}]
        /\ \A v \in Workers : pc'[v] = pc[v] \/ (pc[v] = "idle" /\ pc'[v] = "process")
    BY <1>1 DEF TypeOK
  <2>2. CallsOK'
    BY <1>1, <2>1 DEF CallsOK
  <2>3. /\ status' \in GlobalStatus \cup {"absent"} /\ known' \in 0 .. N
        /\ client' \in {"ready", "gone", client} /\ submitting' \in {"none", "read"}
    BY <1>2 DEF TypeOK, GlobalStatus
  <2> QED BY <1>1, <2>1, <2>2, <2>3 DEF TypeOK
<1>4. BarrierOK' /\ RecordedOK'
  BY <1>1 DEF BarrierOK, RecordedOK
<1>5. DirectionOK' /\ FinalOK'
  BY <1>1, <1>2 DEF DirectionOK, FinalOK
<1>6. CASE status' = status
  <2>1. CallerOK' /\ DecidedOK' /\ CopyOK' /\ CountOK'
    BY <1>1, <1>2, <1>6 DEF CallerOK, DecidedOK, CopyOK, CountOK, TypeOK
  <2> QED BY <1>3, <1>4, <1>5, <2>1
<1>7. CASE status' # status
  <2>1. \A v \in Workers : st[v] = "prepared" /\ pc[v] \in {"idle", "process"}
    BY <1>2, <1>7 DEF CopyOK, CountOK, TypeOK
  <2>2. /\ \A v \in Workers : pc'[v] \in {"idle", "process"}
        /\ \A v \in Workers : \/ st'[v] = "prepared"
                              \/ st'[v] = "submitted" /\ status' = "submitted"
    <3>1. CASE UNCHANGED <<pc, st>>
      BY <2>1, <3>1
    <3>2. CASE \E w \in Workers : /\ pc[w] = "idle" /\ pc' = [pc EXCEPT ![w] = "process"]
                                  /\ st' = [st EXCEPT ![w] = "submitted"]
                                  /\ status' = "submitted"
      BY <2>1, <3>2 DEF TypeOK
    <3> QED BY <1>1, <3>1, <3>2
  <2>3. DecidedOK' /\ CopyOK'
    BY <1>1, <2>2 DEF DecidedOK, CopyOK
  <2>5. CountOK'
    BY <1>1, <1>2, <1>7, <2>2 DEF CountOK, TypeOK
  <2>4. CallerOK'
    BY <1>1, <1>2, <1>7 DEF CallerOK, TypeOK, Branch
  <2> QED BY <1>3, <1>4, <1>5, <2>3, <2>4, <2>5
<1> QED BY <1>6, <1>7

\* Every step of the specification preserves the invariant.
LEMMA NextInv == IInv /\ [Next]_vars => IInv'
<1> SUFFICES ASSUME IInv, [Next]_vars PROVE IInv'
  OBVIOUS
<1>1. CASE UNCHANGED vars
  BY <1>1 DEF vars, IInv, TypeOK, BarrierOK, CallsOK, RecordedOK, CopyOK, DirectionOK,
     CountOK, CallerOK, DecidedOK, FinalOK
<1>2. CASE Prepare \/ Abort
  BY <1>2, DecideInv
<1>3. CASE Submit
  BY <1>3, DecideInv, CallerInv DEF Submit
<1>4. CASE RegisterRead \/ RegisterWrite \/ Try \/ TryUnknown \/ ClientCrash \/ ExecuteStray
  BY <1>4, CallerInv, TryInv, ExecuteStrayInv
<1>5. ASSUME NEW w \in Workers,
             \/ Lock(w) \/ PreparedTimeout(w) \/ NotDue(w) \/ Count(w) \/ Advance(w)
             \/ Execute(w) \/ Record(w) \/ NoAnswer(w) \/ RetryLater(w) \/ Transition(w)
             \/ Crash(w)
      PROVE  IInv'
  BY <1>5, QuietInv, PreparedTimeoutInv, AdvanceInv, ExecuteInv, RecordInv, TransitionInv
<1> QED BY <1>1, <1>2, <1>3, <1>4, <1>5 DEF Next

\* IInv holds in every reachable state, for every N and every set of workers.
THEOREM TwoPhaseInvariant ==
  ASSUME "sql_inline" \notin Deployments
  PROVE  Spec => []IInv
<1>1. Init => IInv
  BY InitInv
<1> QED BY <1>1, NextInv, PTL DEF Spec

-----------------------------------------------------------------------------
(***************************************************************************)
(* The results.                                                            *)
(***************************************************************************)

\* Every variable keeps its type.
THEOREM TwoPhaseTypeCorrect ==
  ASSUME "sql_inline" \notin Deployments
  PROVE  Spec => []TypeOK
<1>1. IInv => TypeOK
  BY DEF IInv
<1>2. Spec => []IInv
  BY TwoPhaseInvariant
<1> QED BY <1>1, <1>2, PTL

\* No branch is confirmed while another is cancelled, whatever stale workers,
\* a timeout racing the submit, duplicates and late calls do.
THEOREM TwoPhaseOneDirection ==
  ASSUME "sql_inline" \notin Deployments
  PROVE  Spec => []OneDirection
<1>1. IInv => OneDirection
  <2> SUFFICES ASSUME IInv, NEW i \in Branch, NEW j \in Branch,
                      did[i]["confirm"] > 0, did[j]["cancel"] > 0
               PROVE  FALSE
    BY DEF OneDirection
  <2>1. "confirm" \in rows[i]
    BY DEF IInv, BarrierOK
  <2>2. "cancel" \in rows[j]
    BY DEF IInv, BarrierOK
  <2> QED BY <2>1, <2>2 DEF IInv, DirectionOK
<1>2. Spec => []IInv
  BY TwoPhaseInvariant
<1> QED BY <1>1, <1>2, PTL

\* A decision is whole: succeed means each branch known at the decision was
\* tried and confirmed once, failed that each try was cancelled or can no
\* longer take effect.
THEOREM TwoPhaseDecidedIsWhole ==
  ASSUME "sql_inline" \notin Deployments
  PROVE  Spec => []DecidedIsWhole
<1>1. IInv => DecidedIsWhole
  <2> SUFFICES ASSUME IInv PROVE DecidedIsWhole
    OBVIOUS
  <2>1. \A i \in 1 .. known : i \in Branch /\ i <= known /\ i <= registered
    BY NAssumption DEF IInv, TypeOK, CountOK, Branch
  <2>2. ASSUME status = "succeed", NEW i \in 1 .. known
        PROVE  did[i]["try"] = 1 /\ did[i]["confirm"] = 1 /\ did[i]["cancel"] = 0
    <3>1. "confirm" \in rows[i] /\ "cancel" \notin rows[i]
      BY <2>1, <2>2 DEF IInv, FinalOK, DirectionOK
    <3>2. "try" \in rows[i]
      BY <2>1, <2>2 DEF IInv, CallerOK
    <3> QED BY <2>1, <3>1, <3>2 DEF IInv, BarrierOK
  <2>3. ASSUME status = "failed", NEW i \in 1 .. known
        PROVE  /\ did[i]["try"] = did[i]["cancel"] /\ "try" \in rows[i]
               /\ did[i]["confirm"] = 0
    <3>1. "cancel" \in rows[i] /\ "confirm" \notin rows[i]
      BY <2>1, <2>3 DEF IInv, FinalOK, DirectionOK
    <3> QED BY <2>1, <3>1 DEF IInv, BarrierOK
  <2> QED BY <2>2, <2>3 DEF DecidedIsWhole
<1>2. Spec => []IInv
  BY TwoPhaseInvariant
<1> QED BY <1>1, <1>2, PTL

\* Prepared is left once: neither store, with or without comparing, ever turns
\* a decided transaction the other way.
THEOREM TwoPhaseStatusForward ==
  ASSUME "sql_inline" \notin Deployments
  PROVE  Spec => StatusForward
<1> DEFINE Forward == \/ status = "absent" /\ status' = "prepared"
                      \/ status = "prepared" /\ status' \in {"submitted", "aborting"}
                      \/ status = "submitted" /\ status' = "succeed"
                      \/ status = "aborting" /\ status' = "failed"
<1>1. IInv /\ [Next]_vars => [Forward]_status
  <2> SUFFICES ASSUME IInv, Next PROVE Forward \/ status' = status
    BY DEF vars
  <2>1. CASE Prepare \/ Submit \/ Abort
    BY <2>1 DEF Prepare, Submit, SubmitRead, SubmitWrite, SubmitAtomic, Abort, store, IInv,
       CallerOK
  <2>2. CASE RegisterRead \/ RegisterWrite \/ Try \/ TryUnknown \/ ClientCrash \/ ExecuteStray
    BY <2>2 DEF RegisterRead, RegisterWrite, Try, TryUnknown, ClientCrash, ExecuteStray, store
  <2>3. ASSUME NEW w \in Workers, PreparedTimeout(w)
        PROVE  Forward \/ status' = status
    BY <2>3 DEF PreparedTimeout, CanTransition, StatusContested
  <2>4. ASSUME NEW w \in Workers, Transition(w)
        PROVE  Forward \/ status' = status
    <3>1. \/ status' = status
          \/ status \in {"submitted", "succeed"} /\ status' = "succeed"
          \/ status \in {"aborting", "failed"} /\ status' = "failed"
      BY <2>4 DEF Transition, IInv, DecidedOK, CopyOK
    <3> QED BY <3>1
  <2>5. ASSUME NEW w \in Workers,
               \/ Lock(w) \/ NotDue(w) \/ Count(w) \/ Advance(w) \/ Execute(w)
               \/ Record(w) \/ NoAnswer(w) \/ RetryLater(w) \/ Crash(w)
        PROVE  status' = status
    BY <2>5 DEF Lock, NotDue, Count, Advance, Execute, Record, NoAnswer, RetryLater, Crash,
       store
  <2> QED BY <2>1, <2>2, <2>3, <2>4, <2>5 DEF Next
<1>2. Spec => []IInv
  BY TwoPhaseInvariant
<1> QED BY <1>1, <1>2, PTL DEF Spec, StatusForward

-----------------------------------------------------------------------------
(***************************************************************************)
(* TwoPhase implements Commitment.                                         *)
(***************************************************************************)

\* Calls go to registered branches, nothing is tried twice, and once submitted
\* all branches count.
ReachOK ==
  /\ \A i \in Branch : did[i]["try"] \in {0, 1}
  /\ \A c \in sent : c[2] <= registered
  /\ \A i \in Branch : rows[i] # {} => i <= registered
  /\ status \in {"submitted", "succeed"} => known = registered

\* A call that is sent goes to a branch its worker counted.
LEMMA AdvanceSends ==
  ASSUME IInv, NEW w \in Workers, Advance(w)
  PROVE  \A c \in sent' : c \in sent \/ c[2] <= registered
<1> USE DEF IInv
<1> DEFINE c == [i \in 1 .. n[w] |-> confirm[i]]
           u == [i \in 1 .. n[w] |-> cancel[i]]
           d == TwoPhaseAdvance(st[w], c, u, "confirm", "cancel")
<1>1. /\ pc[w] = "loop"
      /\ \/ d.kind = "call" /\ sent' = sent \cup {<<d.op, d.index>>}
         \/ d.kind = "finish" /\ sent' = sent
  BY DEF Advance, TccAdvance
<1>2. /\ n[w] \in Nat /\ 1 .. n[w] \subseteq Branch /\ n[w] <= registered /\ registered \in Nat
      /\ st[w] \in {"submitted", "aborting"}
  BY <1>1, NAssumption DEF TypeOK, CountOK, Branch
<1>3. c \in [1 .. n[w] -> BranchStatus] /\ u \in [1 .. n[w] -> BranchStatus]
  BY <1>2 DEF TypeOK
<1>4. \/ d = Finish("succeed") \/ d = Finish("failed")
      \/ \E i \in 1 .. n[w] : d = Call("confirm", i) \/ d = Call("cancel", i)
  <2> HIDE DEF c, u
  <2> QED BY <1>2, <1>3, TwoPhaseAdvanceCases
<1> HIDE DEF c, u, d
<1>5. d.kind = "call" => d.index \in 1 .. n[w]
  BY <1>4 DEF Finish, Call
<1>6. d.kind = "call" => d.index <= registered
  BY <1>2, <1>5
<1> QED BY <1>1, <1>6

\* What is executed was sent.
LEMMA WhatRuns ==
  ASSUME IInv, Try \/ ExecuteStray \/ \E w \in Workers : Execute(w)
  PROVE  /\ \E o \in TccOp, i \in Branch, r \in {"success", "failure"} :
              <<o, i>> \in sent /\ Runs(o, i, r)
         /\ UNCHANGED <<status, registered, registering, submitting, sent, known>>
<1> USE DEF IInv
<1>1. CASE Try
  <2>1. PICK r \in {"success", "failure"} : Runs("try", registered, r)
    BY <1>1 DEF Try
  <2>2. registered \in Branch /\ <<"try", registered>> \in sent
    BY <1>1, NAssumption DEF Try, CallerOK, TypeOK, Branch
  <2> QED BY <1>1, <2>1, <2>2 DEF Try, store, TccOp
<1>2. CASE ExecuteStray
  <2>1. PICK c \in sent, r \in {"success", "failure"} : Runs(c[1], c[2], r)
    BY <1>2 DEF ExecuteStray
  <2>2. c[1] \in TccOp /\ c[2] \in Branch /\ <<c[1], c[2]>> \in sent
    <3>1. c \in TccOp \X Branch
      BY DEF TypeOK
    <3> QED BY <3>1
  <2> QED BY <1>2, <2>1, <2>2 DEF ExecuteStray, store, caller
<1>3. ASSUME NEW w \in Workers, Execute(w)
      PROVE  /\ \E o \in TccOp, i \in Branch, r \in {"success", "failure"} :
                  <<o, i>> \in sent /\ Runs(o, i, r)
             /\ UNCHANGED <<status, registered, registering, submitting, sent, known>>
  <2>1. PICK r \in {"success", "failure"} : Runs(job[w].op, job[w].index, r)
    BY <1>3 DEF Execute
  <2>2. job[w].op \in TccOp /\ job[w].index \in Branch /\ <<job[w].op, job[w].index>> \in sent
    BY <1>3 DEF Execute, CallsOK, TccOp
  <2> QED BY <1>3, <2>1, <2>2 DEF Execute, store, caller
<1> QED BY <1>1, <1>2, <1>3

\* What an execution does to the branch it is for, and to no other.
LEMMA RunsAlone ==
  ASSUME IInv, NEW o \in TccOp, NEW i \in Branch, NEW r \in {"success", "failure"},
         Runs(o, i, r)
  PROVE  /\ \A k \in Branch \ {i} : rows'[k] = rows[k] /\ did'[k] = did[k]
         /\ \/ rows'[i] = rows[i] /\ did'[i] = did[i]
            \/ /\ o \notin rows[i] /\ o \in rows'[i]
               /\ o = "cancel" => "try" \in rows[i]
               /\ \A p \in TccOp : did'[i][p] = IF p = o THEN did[i][p] + 1 ELSE did[i][p]
            \/ /\ o = "cancel" /\ "try" \notin rows[i] /\ "try" \in rows'[i]
               /\ did'[i] = did[i]
<1>1. /\ rows \in [Branch -> SUBSET TccOp] /\ did \in [Branch -> [TccOp -> Nat]]
      /\ rows[i] \in SUBSET TccOp
  BY DEF IInv, TypeOK
<1> DEFINE new == DecideRows(rows[i], o)
<1>2. /\ new = rows[i] \cup {o} \cup (IF o = "cancel" THEN {"try"} ELSE {})
      /\ Decide(rows[i], o) = "Execute" <=>
           o \notin rows[i] /\ (o = "cancel" => "try" \in rows[i])
  BY DEF DecideRows, Decide, OriginOp, IsCompensating, TccOp
<1> HIDE DEF new
<1>3. CASE rows' = rows /\ did' = did
  BY <1>3
<1>4. CASE /\ rows' = [rows EXCEPT ![i] = new] /\ Decide(rows[i], o) = "Execute"
           /\ did' = [did EXCEPT ![i] = [did[i] EXCEPT ![o] = did[i][o] + 1]]
  <2>1. /\ \A k \in Branch \ {i} : rows'[k] = rows[k] /\ did'[k] = did[k]
        /\ rows'[i] = new /\ did'[i] = [did[i] EXCEPT ![o] = did[i][o] + 1]
        /\ did[i] \in [TccOp -> Nat]
    BY <1>1, <1>4
  <2> QED BY <1>2, <1>4, <2>1
<1>5. CASE /\ rows' = [rows EXCEPT ![i] = new] /\ Decide(rows[i], o) # "Execute"
           /\ did' = did
  <2>1. /\ \A k \in Branch \ {i} : rows'[k] = rows[k] /\ did'[k] = did[k]
        /\ rows'[i] = new /\ did'[i] = did[i]
    BY <1>1, <1>5
  <2>2. CASE o = "cancel" /\ "try" \notin rows[i]
    BY <1>2, <2>1, <2>2
  <2>3. CASE o \in rows[i] /\ (o = "cancel" => "try" \in rows[i])
    <3>1. new = rows[i]
      BY <1>2, <2>3
    <3> QED BY <2>1, <3>1
  <2> QED BY <1>2, <1>5, <2>2, <2>3
<1> QED BY <1>3, <1>4, <1>5 DEF Runs, branches, new

\* ReachOK holds in every reachable state.
LEMMA ReachStep == IInv /\ ReachOK /\ [Next]_vars => ReachOK'
<1> SUFFICES ASSUME IInv, ReachOK, [Next]_vars PROVE ReachOK'
  OBVIOUS
<1> USE DEF ReachOK
<1>1. CASE Try \/ ExecuteStray \/ \E w \in Workers : Execute(w)
  <2>1. UNCHANGED <<status, registered, sent, known>>
    BY <1>1, WhatRuns
  <2>2. PICK o \in TccOp, i \in Branch, r \in {"success", "failure"} :
          <<o, i>> \in sent /\ Runs(o, i, r)
    BY <1>1, WhatRuns
  <2>3. i <= registered
    BY <2>2
  <2>4. \A k \in Branch \ {i} : rows'[k] = rows[k] /\ did'[k] = did[k]
    BY <2>2, RunsAlone
  <2>5. did'[i]["try"] \in {0, 1}
    <3>1. o = "try" /\ "try" \notin rows[i] => did[i]["try"] = 0
      BY DEF IInv, BarrierOK
    <3>2. \/ did'[i]["try"] = did[i]["try"]
          \/ o = "try" /\ "try" \notin rows[i] /\ did'[i]["try"] = did[i]["try"] + 1
      BY <2>2, RunsAlone DEF TccOp
    <3> QED BY <3>1, <3>2
  <2> QED BY <2>1, <2>3, <2>4, <2>5
<1>2. CASE RegisterWrite
  <2>1. /\ registered' = registered + 1 /\ registered \in Nat /\ UNCHANGED <<rows, did>>
        /\ status' = status /\ status \notin {"submitted", "succeed"}
        /\ \A c \in sent' : c \in sent \/ c[2] = registered'
    BY <1>2 DEF RegisterWrite, branches, IInv, CallerOK, TypeOK
  <2>2. \A c \in sent : c[2] \in Nat
    BY DEF IInv, TypeOK, Branch
  <2>3. \A i \in Branch : i \in Nat
    BY DEF Branch
  <2> QED BY <2>1, <2>2, <2>3
<1>3. CASE Prepare \/ Submit \/ Abort
  <2>1. UNCHANGED <<registered, sent, rows, did>>
    BY <1>3 DEF Prepare, Submit, SubmitRead, SubmitWrite, SubmitAtomic, Abort, store, branches
  <2>2. status' \in {"submitted", "succeed"} =>
          \/ known' = registered \/ (status' = status /\ known' = known)
    BY <1>3 DEF Prepare, Submit, SubmitRead, SubmitWrite, SubmitAtomic, Abort, store
  <2> QED BY <2>1, <2>2
<1>4. CASE RegisterRead \/ TryUnknown \/ ClientCrash \/ UNCHANGED vars
  BY <1>4 DEF RegisterRead, TryUnknown, ClientCrash, vars, store, branches
<1>5. ASSUME NEW w \in Workers, PreparedTimeout(w) PROVE ReachOK'
  BY <1>5 DEF PreparedTimeout, branches
<1>6. ASSUME NEW w \in Workers, Transition(w) PROVE ReachOK'
  <2>1. UNCHANGED <<registered, sent, rows, did, known>>
    BY <1>6 DEF Transition, branches
  <2>2. status' = "succeed" \/ status' = "submitted" => status \in {"submitted", "succeed"}
    BY <1>6 DEF Transition, IInv, DecidedOK, CopyOK
  <2> QED BY <2>1, <2>2
<1>7. ASSUME NEW w \in Workers, Advance(w) PROVE ReachOK'
  <2>1. UNCHANGED <<status, registered, rows, did, known>>
    BY <1>7 DEF Advance, store, branches
  <2> QED BY <1>7, <2>1, AdvanceSends
<1>8. ASSUME NEW w \in Workers,
             \/ Lock(w) \/ NotDue(w) \/ Count(w) \/ Record(w) \/ NoAnswer(w) \/ RetryLater(w)
             \/ Crash(w)
      PROVE  ReachOK'
  BY <1>8 DEF Lock, NotDue, Count, Record, NoAnswer, RetryLater, Crash, store, branches
<1> QED BY <1>1, <1>2, <1>3, <1>4, <1>5, <1>6, <1>7, <1>8 DEF Next

\* The two facts about a branch on which the refinement turns: once submitted
\* every branch that can be called was tried, and what its rows say is what it
\* shows.
LEMMA WhatShows ==
  ASSUME IInv, ReachOK, NEW i \in Branch
  PROVE  /\ status \in {"submitted", "succeed"} /\ i <= registered => "try" \in rows[i]
         /\ "confirm" \in rows[i] => "try" \in rows[i] /\ "cancel" \notin rows[i]
         /\ Effect[i] = IF "confirm" \in rows[i] THEN "done"
                        ELSE IF "cancel" \in rows[i] THEN "undone"
                        ELSE IF "try" \in rows[i] THEN "held" ELSE "none"
         /\ rows[i] \subseteq TccOp
<1>1. /\ rows[i] \subseteq TccOp
      /\ status \in {"submitted", "succeed"} /\ i <= registered => "try" \in rows[i]
  BY DEF IInv, TypeOK, CallerOK
<1>2. "confirm" \in rows[i] => "try" \in rows[i] /\ "cancel" \notin rows[i]
  BY <1>1 DEF IInv, DirectionOK, ReachOK
<1>3. /\ "try" \notin rows[i] =>
           "cancel" \notin rows[i] /\ did[i]["try"] = 0 /\ did[i]["cancel"] = 0
      /\ "try" \in rows[i] /\ "cancel" \notin rows[i] =>
           did[i]["try"] = 1 /\ did[i]["cancel"] = 0
      /\ "cancel" \in rows[i] => did[i]["try"] = did[i]["cancel"]
      /\ did[i]["confirm"] = IF "confirm" \in rows[i] THEN 1 ELSE 0
      /\ did[i]["try"] \in {0, 1}
  BY DEF IInv, BarrierOK, ReachOK
<1>4. Shows(i) = IF "confirm" \in rows[i] THEN "done"
                 ELSE IF "cancel" \in rows[i] THEN "undone"
                 ELSE IF "try" \in rows[i] THEN "held" ELSE "none"
  <2>1. CASE "confirm" \in rows[i]
    BY <1>2, <1>3, <2>1 DEF Shows
  <2>2. CASE "confirm" \notin rows[i] /\ "cancel" \in rows[i]
    BY <1>3, <2>2 DEF Shows
  <2>3. CASE rows[i] \cap {"confirm", "cancel"} = {} /\ "try" \in rows[i]
    BY <1>3, <2>3 DEF Shows
  <2>4. CASE rows[i] \cap {"confirm", "cancel"} = {} /\ "try" \notin rows[i]
    BY <1>3, <2>4 DEF Shows
  <2> QED BY <2>1, <2>2, <2>3, <2>4
<1> QED BY <1>1, <1>2, <1>4 DEF Effect

\* An execution is the first or the second phase of its branch, or nothing that
\* shows.
LEMMA RunsImplements ==
  ASSUME IInv, ReachOK, NEW o \in TccOp, NEW i \in Branch, NEW r \in {"success", "failure"},
         <<o, i>> \in sent, Runs(o, i, r), UNCHANGED <<status, known>>
  PROVE  \/ Promise!Hold(i) \/ Promise!Refuse(i) \/ Promise!Carry(i) \/ Promise!GiveBack(i)
         \/ UNCHANGED <<Decision, Effect>>
<1>1. i <= registered /\ UNCHANGED Decision
  BY DEF ReachOK, Decision
<1>2. /\ \A k \in Branch \ {i} : rows'[k] = rows[k] /\ did'[k] = did[k]
      /\ \/ rows'[i] = rows[i] /\ did'[i] = did[i]
         \/ /\ o \notin rows[i] /\ o \in rows'[i]
            /\ o = "cancel" => "try" \in rows[i]
            /\ \A p \in TccOp : did'[i][p] = IF p = o THEN did[i][p] + 1 ELSE did[i][p]
         \/ /\ o = "cancel" /\ "try" \notin rows[i] /\ "try" \in rows'[i]
            /\ did'[i] = did[i]
  BY RunsAlone
<1>3. /\ status \in {"submitted", "succeed"} => "try" \in rows[i]
      /\ "confirm" \in rows[i] => "try" \in rows[i] /\ "cancel" \notin rows[i]
      /\ Effect[i] = IF "confirm" \in rows[i] THEN "done"
                     ELSE IF "cancel" \in rows[i] THEN "undone"
                     ELSE IF "try" \in rows[i] THEN "held" ELSE "none"
  BY <1>1, WhatShows
<1>4. /\ "try" \notin rows[i] =>
           "cancel" \notin rows[i] /\ did[i]["try"] = 0 /\ did[i]["cancel"] = 0
      /\ "try" \in rows[i] /\ "cancel" \notin rows[i] =>
           did[i]["try"] = 1 /\ did[i]["cancel"] = 0
      /\ did[i]["confirm"] = IF "confirm" \in rows[i] THEN 1 ELSE 0
  BY DEF IInv, BarrierOK
<1>5. /\ o = "confirm" => status \in {"submitted", "succeed"}
      /\ o = "cancel" => status \in {"aborting", "failed"}
      /\ "confirm" \in rows[i] => status \in {"submitted", "succeed"}
      /\ "cancel" \in rows[i] => status \in {"aborting", "failed"}
  BY DEF IInv, DirectionOK
<1>6. /\ known \in Nat /\ i \in Nat /\ i > 0
      /\ status \in {"submitted", "succeed"} => known = registered
      /\ i <= known /\ status = "succeed" => "confirm" \in rows[i]
      /\ i <= known /\ status = "failed" => "cancel" \in rows[i]
  BY DEF IInv, TypeOK, FinalOK, ReachOK, Branch
<1>7. i <= known => i \in 1 .. known
  BY <1>6
<1>8. i \in 1 .. known => i <= known
  BY <1>6
<1>9. /\ Effect' = [Effect EXCEPT ![i] = Effect'[i]] /\ Effect'[i] = Shows(i)'
      /\ rows'[i] = rows[i] /\ did'[i] = did[i] => Effect'[i] = Effect[i]
  <2>1. /\ Effect' = [k \in Branch |-> Shows(k)'] /\ Effect = [k \in Branch |-> Shows(k)]
    BY DEF Effect
  <2>2. \A k \in Branch : rows'[k] = rows[k] /\ did'[k] = did[k] => Shows(k)' = Shows(k)
    BY DEF Shows
  <2>3. \A k \in Branch \ {i} : Shows(k)' = Shows(k)
    BY <1>2, <2>2
  <2> HIDE DEF Effect
  <2>4. Effect' = [Effect EXCEPT ![i] = Shows(i)'] /\ Effect'[i] = Shows(i)'
    BY <2>1, <2>3
  <2> QED BY <2>1, <2>2, <2>4
<1>10. UNCHANGED (1 .. known)
  OBVIOUS
<1>11. status \in GlobalStatus \cup {"absent"}
  BY DEF IInv, TypeOK
<1>12. CASE rows'[i] = rows[i] /\ did'[i] = did[i]
  <2>1. Effect' = Effect
    BY <1>9, <1>12 DEF Effect
  <2> QED BY <1>1, <2>1
<1>13. CASE /\ o = "cancel" /\ "try" \notin rows[i] /\ "try" \in rows'[i]
            /\ did'[i] = did[i]
  <2>1. Effect[i] = "none" /\ did[i]["confirm"] = 0
    BY <1>3, <1>4, <1>13
  <2>2. Shows(i)' = "undone"
    BY <1>4, <1>13, <2>1 DEF Shows
  <2>3. Decision \in {"abort", "aborted"}
    BY <1>5, <1>13 DEF Decision
  <2> QED BY <1>1, <1>9, <1>10, <2>1, <2>2, <2>3 DEF Promise!Refuse
<1>14. ASSUME o \notin rows[i], o \in rows'[i], o = "cancel" => "try" \in rows[i],
              \A p \in TccOp : did'[i][p] = IF p = o THEN did[i][p] + 1 ELSE did[i][p]
       PROVE  Promise!Hold(i) \/ Promise!Carry(i) \/ Promise!GiveBack(i)
  <2>1. CASE o = "try"
    <3>1. status \notin {"submitted", "succeed"} /\ Effect[i] = "none" /\ "confirm" \notin rows[i]
      BY <1>3, <1>4, <1>14, <2>1
    <3>2. did'[i]["try"] = 1 /\ did'[i]["confirm"] = 0 /\ did'[i]["cancel"] = 0
      BY <1>4, <1>14, <2>1, <3>1 DEF TccOp
    <3>3. Shows(i)' = "held"
      BY <3>2 DEF Shows
    <3>4. Decision \in {"open", "abort", "aborted"}
      BY <1>11, <3>1 DEF Decision, GlobalStatus
    <3> QED BY <1>1, <1>9, <1>10, <3>1, <3>3, <3>4 DEF Promise!Hold
  <2>2. CASE o = "confirm"
    <3>1. /\ status = "submitted" /\ i \in 1 .. known /\ "try" \in rows[i]
          /\ "cancel" \notin rows[i] /\ "confirm" \notin rows[i]
      BY <1>1, <1>3, <1>5, <1>6, <1>7, <1>14, <2>2
    <3>2. did'[i]["try"] = 1 /\ did'[i]["confirm"] = 1 /\ did'[i]["cancel"] = 0
      BY <1>4, <1>14, <2>2, <3>1 DEF TccOp
    <3>3. Shows(i)' = "done" /\ Effect[i] = "held" /\ Decision = "commit"
      BY <1>3, <3>1, <3>2 DEF Shows, Decision
    <3> QED BY <1>1, <1>9, <1>10, <3>1, <3>3 DEF Promise!Carry
  <2>3. CASE o = "cancel"
    <3>1. "try" \in rows[i] /\ "cancel" \notin rows[i] /\ "confirm" \notin rows[i]
      BY <1>5, <1>14, <2>3
    <3>2. did'[i]["try"] = 1 /\ did'[i]["confirm"] = 0 /\ did'[i]["cancel"] = 1
      BY <1>4, <1>14, <2>3, <3>1 DEF TccOp
    <3>3. Shows(i)' = "undone" /\ Effect[i] = "held"
      BY <1>3, <3>1, <3>2 DEF Shows
    <3>4. Decision = "abort" \/ (Decision = "aborted" /\ i \notin 1 .. known)
      BY <1>5, <1>6, <1>8, <2>3, <3>1 DEF Decision
    <3> QED BY <1>1, <1>9, <1>10, <3>3, <3>4 DEF Promise!GiveBack
  <2> QED BY <2>1, <2>2, <2>3 DEF TccOp
<1> QED BY <1>2, <1>12, <1>13, <1>14

\* The steps that leave prepared: a submit finds every branch tried, and
\* nothing is cancelled yet.
LEMMA DecideImplements ==
  ASSUME IInv, ReachOK, status = "prepared", UNCHANGED <<rows, did>>, known' = registered,
         \/ status' = "aborting"
         \/ /\ status' = "submitted"
            /\ \A i \in Branch : i <= registered => "try" \in rows[i]
  PROVE  Promise!Commit \/ Promise!Abort
<1>1. Decision = "open" /\ UNCHANGED Effect
  BY DEF Decision, Effect, Shows
<1>2. registered \in 0 .. N /\ N \in Nat
  BY NAssumption DEF IInv, TypeOK
<1>3. \A i \in Branch : i \in 1 .. registered <=> i <= registered
  BY <1>2 DEF Branch
<1>4. 1 .. registered \subseteq Branch
  BY <1>2 DEF Branch
<1>5. \A i \in Branch :
        /\ Effect[i] = IF "try" \in rows[i] THEN "held" ELSE "none"
        /\ "try" \in rows[i] => i <= registered
  BY WhatShows DEF IInv, DirectionOK, ReachOK
<1>6. CASE status' = "aborting"
  <2>1. Decision' = "abort" /\ Promise!Held \subseteq 1 .. registered
    BY <1>3, <1>5, <1>6 DEF Decision, Promise!Held
  <2>2. 1 .. known' = 1 .. registered /\ 1 .. registered \in SUBSET Branch
    BY <1>4
  <2> QED BY <1>1, <2>1, <2>2 DEF Promise!Abort
<1>7. CASE status' = "submitted" /\ \A i \in Branch : i <= registered => "try" \in rows[i]
  <2>1. Decision' = "commit" /\ \A i \in Branch : Effect[i] \in {"none", "held"}
    BY <1>5, <1>7 DEF Decision
  <2>2. Promise!Held = 1 .. registered
    BY <1>3, <1>4, <1>5, <1>7 DEF Promise!Held
  <2> QED BY <1>1, <2>1, <2>2 DEF Promise!Commit
<1> QED BY <1>6, <1>7

\* A TCC transaction behaves as an atomic commitment: it is decided once, with
\* every try in place if it is submitted, its branches follow the decision, each
\* op once, and what is reported at the end is so.
THEOREM TwoPhaseImplements ==
  ASSUME "sql_inline" \notin Deployments
  PROVE  Spec => Implements
<1>1. Init => Promise!CInit /\ ReachOK
  <2> SUFFICES ASSUME Init PROVE Promise!CInit /\ ReachOK
    OBVIOUS
  <2>1. \A i \in Branch : Shows(i) = "none"
    BY DEF Init, Shows, TccOp
  <2>2. Decision = "open" /\ Effect = [i \in Branch |-> "none"] /\ 1 .. known = {}
    BY <2>1 DEF Init, Decision, Effect
  <2>3. ReachOK
    BY DEF Init, ReachOK, TccOp
  <2> QED BY <2>2, <2>3 DEF Promise!CInit
<1>2. IInv /\ ReachOK /\ [Next]_vars => [Promise!CNext]_(Promise!cvars)
  <2> SUFFICES ASSUME IInv, ReachOK, [Next]_vars
               PROVE  Promise!CNext \/ UNCHANGED <<Decision, Effect, 1 .. known>>
    BY DEF Promise!cvars
  <2>1. CASE UNCHANGED <<status, known, rows, did>>
    BY <2>1 DEF Decision, Effect, Shows
  <2>2. CASE Try \/ ExecuteStray \/ \E w \in Workers : Execute(w)
    <3>1. UNCHANGED <<status, known>>
      BY <2>2, WhatRuns
    <3>2. PICK o \in TccOp, i \in Branch, r \in {"success", "failure"} :
            <<o, i>> \in sent /\ Runs(o, i, r)
      BY <2>2, WhatRuns
    <3>3. \/ Promise!Hold(i) \/ Promise!Refuse(i) \/ Promise!Carry(i) \/ Promise!GiveBack(i)
          \/ UNCHANGED <<Decision, Effect>>
      BY <3>1, <3>2, RunsImplements
    <3> QED BY <3>1, <3>3 DEF Promise!CNext
  <2>3. CASE status = "prepared" /\ status' # status
    <3>1. /\ UNCHANGED <<rows, did>> /\ known' = registered
          /\ \/ status' = "aborting"
             \/ /\ status' = "submitted"
                /\ \A i \in Branch : i <= registered => "try" \in rows[i]
      <4>1. CASE Submit
        BY <2>3, <4>1 DEF Submit, SubmitRead, SubmitWrite, SubmitAtomic, store, branches, IInv,
           CallerOK
      <4>2. CASE Abort
        BY <2>3, <4>2 DEF Abort, branches
      <4>3. ASSUME NEW w \in Workers, PreparedTimeout(w)
            PROVE  UNCHANGED <<rows, did>> /\ known' = registered /\ status' = "aborting"
        BY <2>3, <4>3 DEF PreparedTimeout, branches
      <4>4. ASSUME NEW w \in Workers PROVE ~Transition(w)
        BY <2>3 DEF Transition, IInv, DecidedOK, CopyOK
      <4>5. ~(Prepare \/ RegisterRead \/ RegisterWrite \/ Try \/ TryUnknown \/ ClientCrash
              \/ ExecuteStray \/ UNCHANGED vars)
        BY <2>3 DEF Prepare, RegisterRead, RegisterWrite, Try, TryUnknown, ClientCrash,
           ExecuteStray, store, vars, IInv, CallerOK
      <4>6. ASSUME NEW w \in Workers
            PROVE  ~(\/ Lock(w) \/ NotDue(w) \/ Count(w) \/ Advance(w) \/ Execute(w)
                     \/ Record(w) \/ NoAnswer(w) \/ RetryLater(w) \/ Crash(w))
        BY <2>3 DEF Lock, NotDue, Count, Advance, Execute, Record, NoAnswer, RetryLater, Crash,
           store
      <4> QED BY <4>1, <4>2, <4>3, <4>4, <4>5, <4>6 DEF Next
    <3>2. Promise!Commit \/ Promise!Abort
      BY <2>3, <3>1, DecideImplements
    <3> QED BY <3>2 DEF Promise!CNext
  <2>4. ASSUME NEW w \in Workers, Transition(w), status' # status
        PROVE  Promise!CNext
    <3>1. UNCHANGED <<rows, did, known>> /\ status' = job[w].to /\ pc[w] = "transition"
      BY <2>4 DEF Transition, branches
    <3>2. \/ /\ status = "submitted" /\ status' = "succeed"
             /\ \A i \in Branch : i <= known => "confirm" \in rows[i]
          \/ /\ status = "aborting" /\ status' = "failed"
             /\ \A i \in Branch : i <= known => "cancel" \in rows[i]
      BY <2>4, <3>1 DEF IInv, DecidedOK, CopyOK
    <3>3. \A i \in 1 .. known : i \in Branch /\ i <= known
      BY NAssumption DEF IInv, TypeOK, Branch
    <3>4. UNCHANGED <<Effect, 1 .. known>>
      BY <3>1 DEF Effect, Shows
    <3>5. CASE /\ status = "submitted" /\ status' = "succeed"
               /\ \A i \in Branch : i <= known => "confirm" \in rows[i]
      <4>1. \A i \in 1 .. known : Effect[i] = "done"
        BY <3>3, <3>5, WhatShows
      <4>2. Decision = "commit" /\ Decision' = "committed"
        BY <3>5 DEF Decision
      <4> QED BY <3>4, <4>1, <4>2 DEF Promise!CNext, Promise!EndCommit
    <3>6. CASE /\ status = "aborting" /\ status' = "failed"
               /\ \A i \in Branch : i <= known => "cancel" \in rows[i]
      <4>1. \A i \in 1 .. known : Effect[i] = "undone"
        BY <3>3, <3>6, WhatShows
      <4>2. Decision = "abort" /\ Decision' = "aborted"
        BY <3>6 DEF Decision
      <4> QED BY <3>4, <4>1, <4>2 DEF Promise!CNext, Promise!EndAbort
    <3> QED BY <3>2, <3>5, <3>6
  <2>5. CASE Prepare
    BY <2>5 DEF Prepare, branches, Decision, Effect, Shows, IInv, CallerOK
  <2>6. CASE Submit \/ Abort \/ \E w \in Workers : PreparedTimeout(w)
    <3>1. (status = "prepared" /\ status' # status) \/ UNCHANGED <<status, known, rows, did>>
      BY <2>6 DEF Submit, SubmitRead, SubmitWrite, SubmitAtomic, Abort, PreparedTimeout,
         CanTransition, StatusContested, store, branches
    <3> QED BY <2>1, <2>3, <3>1
  <2>7. CASE RegisterRead \/ RegisterWrite \/ TryUnknown \/ ClientCrash \/ UNCHANGED vars
    BY <2>1, <2>7 DEF RegisterRead, RegisterWrite, TryUnknown, ClientCrash, store, branches, vars
  <2>8. ASSUME NEW w \in Workers,
               \/ Lock(w) \/ NotDue(w) \/ Count(w) \/ Advance(w) \/ Record(w) \/ NoAnswer(w)
               \/ RetryLater(w) \/ Crash(w) \/ (Transition(w) /\ status' = status)
        PROVE  UNCHANGED <<status, known, rows, did>>
    BY <2>8 DEF Lock, NotDue, Count, Advance, Record, NoAnswer, RetryLater, Crash, Transition,
       store, branches
  <2> QED BY <2>1, <2>2, <2>4, <2>5, <2>6, <2>7, <2>8 DEF Next
<1>3. Spec => []IInv
  BY TwoPhaseInvariant
<1> QED BY <1>1, <1>2, <1>3, ReachStep, PTL DEF Spec, Implements, Promise!CSpec

=============================================================================
