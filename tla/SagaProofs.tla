----------------------------- MODULE SagaProofs -----------------------------
(***************************************************************************)
(* Proofs about Saga for every number of steps, every set of workers and   *)
(* both stores.  All of them rest on one inductive invariant, IInv, whose  *)
(* conjuncts say what a worker's stale knowledge is still good for.        *)
(***************************************************************************)
EXTENDS Saga, CoreProofs

-----------------------------------------------------------------------------
(***************************************************************************)
(* The inductive invariant.                                                *)
(***************************************************************************)

\* A branch is untouched, has acted once, or is closed: its compensation took
\* the rows, and whatever was done has been taken back.
BarrierOK ==
  \A i \in Branch :
    /\ "action" \notin rows[i] => rows[i] = {} /\ acted[i] = 0 /\ undone[i] = 0
    /\ "action" \in rows[i] /\ "compensate" \notin rows[i]
          => acted[i] = 1 /\ undone[i] = 0
    /\ "compensate" \in rows[i] => acted[i] = undone[i] /\ acted[i] \in {0, 1}

\* A call in progress was sent, a compensation is called on behalf of an
\* aborting copy only, and an answer tells what the barrier rows then hold.
CallsOK ==
  \A w \in Workers :
    /\ pc[w] # "call" => reply[w] = "none"
    /\ pc[w] = "call" => /\ job[w].op \in SagaOp
                         /\ job[w].index \in Branch
                         /\ <<job[w].op, job[w].index>> \in sent
    /\ pc[w] = "call" /\ job[w].op = "compensate" => st[w] = "aborting"
    /\ pc[w] = "call" /\ job[w].op = "action" => st[w] = "submitted"
    /\ pc[w] = "call" /\ reply[w] = "success" => job[w].op \in rows[job[w].index]
    /\ pc[w] = "call" /\ reply[w] = "failure" /\ job[w].op = "compensate"
          => CompensateMayFail /\ "action" \in rows[job[w].index]

\* A branch row marked succeed vouches for the barrier row behind it.
RecordedOK ==
  \A i \in Branch :
    /\ action[i] = "succeed" => "action" \in rows[i]
    /\ compensate[i] = "succeed" => "compensate" \in rows[i]
    /\ compensate[i] # "prepared" => "action" \in rows[i]
    /\ compensate[i] = "failed" => CompensateMayFail

\* A stale copy errs in one direction only: aborting is never stale enough to
\* be wrong about the direction, submitted may be.
CopyOK ==
  /\ \A w \in Workers : st[w] = "aborting" => status \in {"aborting", "failed"}
  /\ \A w \in Workers : pc[w] # "idle" => status # "absent"
  /\ aborting # "none" => status # "absent"

\* Compensations are sent only once the transaction has turned round.
DirectionOK ==
  \A i \in Branch :
    /\ <<"compensate", i>> \in sent => status \in {"aborting", "failed"}
    /\ "compensate" \in rows[i] => <<"compensate", i>> \in sent

\* What a worker about to write a status knows about all branches.
DecidedOK ==
  \A w \in Workers :
    pc[w] = "transition" =>
      /\ job[w].to \in {"aborting", "succeed", "failed"}
      /\ job[w].to = "succeed" => /\ st[w] = "submitted"
                                  /\ \A i \in Branch : "action" \in rows[i]
      /\ job[w].to = "aborting" => st[w] = "submitted"
      /\ job[w].to = "failed" =>
           /\ st[w] = "aborting"
           /\ CompensateMayFail \/ \A i \in Branch : "compensate" \in rows[i]

\* A final status keeps what the deciding worker knew.
FinalOK ==
  /\ status = "succeed" => \A i \in Branch : "action" \in rows[i]
  /\ status = "failed" =>
       CompensateMayFail \/ \A i \in Branch : "compensate" \in rows[i]

\* Calls leave in step order forwards and in reverse order backwards.
OrderOK ==
  /\ \A i, j \in Branch :
       j < i /\ <<"action", i>> \in sent => "action" \in rows[j]
  /\ \A i, j \in Branch :
       i < j /\ <<"compensate", i>> \in sent =>
         /\ "action" \in rows[j]
         /\ CompensateMayFail \/ "compensate" \in rows[j]
  /\ \A i, j \in Branch : j < i /\ acted[i] > 0 => acted[j] > 0

IInv ==
  /\ TypeOK /\ BarrierOK /\ CallsOK /\ RecordedOK /\ CopyOK
  /\ DirectionOK /\ DecidedOK /\ FinalOK /\ OrderOK

-----------------------------------------------------------------------------
(***************************************************************************)
(* Preservation, one lemma per kind of step.                               *)
(***************************************************************************)

\* The initial state satisfies the invariant.
LEMMA InitInv == Init => IInv
<1> SUFFICES ASSUME Init PROVE IInv
  OBVIOUS
<1> USE NAssumption, NoWorkerAssumption
<1>1. TypeOK
  BY DEF Init, TypeOK, Branch, BranchStatus, Jobs, Wait
<1>2. QED
  BY <1>1 DEF Init, IInv, BarrierOK, CallsOK, RecordedOK, CopyOK, DirectionOK,
     DecidedOK, FinalOK, OrderOK, Branch, SagaOp

\* A worker's decision: what it calls or writes next is backed by the barrier
\* rows behind the branch rows it has just read.
LEMMA AdvanceInv ==
  ASSUME IInv, NEW w \in Workers, Advance(w)
  PROVE  IInv'
<1> DEFINE d == SagaAdvance(st[w], action, compensate)
<1> USE NAssumption DEF IInv
<1>1. \/ /\ st[w] = "submitted"
         /\ d = Finish("succeed") /\ \A i \in Branch : action[i] = "succeed"
      \/ /\ st[w] = "submitted"
         /\ d = Finish("aborting")
      \/ /\ st[w] = "submitted"
         /\ \E i \in Branch : /\ d = Call("action", i)
                              /\ \A j \in Branch : j < i => action[j] = "succeed"
      \/ /\ st[w] = "aborting"
         /\ d = Finish("failed") /\ \A i \in Branch : compensate[i] # "prepared"
      \/ /\ st[w] = "aborting"
         /\ \E i \in Branch :
              /\ d = Call("compensate", i)
              /\ \A j \in Branch : i < j => compensate[j] # "prepared"
  <2>1. CASE st[w] = "submitted"
    <3>1. d = SagaForward(action)
      BY <2>1 DEF SagaAdvance
    <3>2. N \in Nat /\ action \in [1 .. N -> BranchStatus]
      BY DEF TypeOK, Branch
    <3> HIDE DEF d
    <3> QED BY <2>1, <3>1, <3>2, SagaForwardCases DEF Branch
  <2>2. CASE st[w] = "aborting"
    <3>1. d = SagaBackward(compensate)
      BY <2>2 DEF SagaAdvance
    <3>2. N \in Nat /\ compensate \in [1 .. N -> BranchStatus]
      BY DEF TypeOK, Branch
    <3> HIDE DEF d
    <3> QED BY <2>2, <3>1, <3>2, SagaBackwardCases DEF Branch
  <2> QED BY <2>1, <2>2 DEF TypeOK
<1> HIDE DEF d
<1>2. /\ pc[w] = "loop"
      /\ job' = [job EXCEPT ![w] = d]
      /\ \/ /\ d.kind = "call"
            /\ pc' = [pc EXCEPT ![w] = "call"]
            /\ sent' = sent \cup {<<d.op, d.index>>}
         \/ /\ d.kind = "finish"
            /\ pc' = [pc EXCEPT ![w] = "transition"]
            /\ sent' = sent
      /\ UNCHANGED <<status, lease, action, compensate, st, reply, aborting, rows,
                     acted, undone>>
  BY DEF Advance, d, store, branches
<1>3. PICK o \in SagaOp, i \in Branch :
         \/ /\ d.kind = "call"
            /\ d = Call(o, i)
            /\ o = "action" => /\ st[w] = "submitted"
                               /\ \A j \in Branch : j < i => action[j] = "succeed"
            /\ o = "compensate" =>
                 /\ st[w] = "aborting"
                 /\ \A j \in Branch : i < j => compensate[j] # "prepared"
         \/ /\ d.kind = "finish"
            /\ \/ /\ d = Finish("succeed") /\ st[w] = "submitted"
                  /\ \A j \in Branch : action[j] = "succeed"
               \/ d = Finish("aborting") /\ st[w] = "submitted"
               \/ /\ d = Finish("failed") /\ st[w] = "aborting"
                  /\ \A j \in Branch : compensate[j] # "prepared"
  <2>1. 1 \in Branch
    BY DEF Branch
  <2> QED BY <1>1, <2>1 DEF Call, Finish, SagaOp
<1>4. CASE d.kind = "call"
  <2>1. /\ d = Call(o, i) /\ d.op = o /\ d.index = i
        /\ o = "action" => /\ st[w] = "submitted"
                           /\ \A j \in Branch : j < i => action[j] = "succeed"
        /\ o = "compensate" =>
             /\ st[w] = "aborting"
             /\ \A j \in Branch : i < j => compensate[j] # "prepared"
    BY <1>3, <1>4 DEF Finish, Call
  <2>2. /\ pc' = [pc EXCEPT ![w] = "call"]
        /\ sent' = sent \cup {<<o, i>>}
        /\ job' = [job EXCEPT ![w] = Call(o, i)]
        /\ reply' = reply /\ st' = st /\ rows' = rows
    BY <1>2, <1>4, <2>1
  <2>3. TypeOK'
    <3>1. Call(o, i) \in Jobs
      BY DEF Jobs, Call, Branch
    <3> QED BY <1>2, <2>2, <3>1 DEF TypeOK
  <2>4. CallsOK'
    <3>1. Call(o, i).op = o /\ Call(o, i).index = i
      BY DEF Call
    <3>2. reply[w] = "none"
      BY <1>2 DEF CallsOK
    <3> QED BY <2>1, <2>2, <3>1, <3>2 DEF CallsOK, TypeOK, SagaOp
  <2>5. DirectionOK'
    BY <1>2, <2>1, <2>2 DEF DirectionOK, CopyOK
  <2>6. OrderOK'
    <3>1. \A j \in Branch : \/ compensate[j] \in {"prepared", "succeed"}
                            \/ CompensateMayFail
      BY DEF RecordedOK, TypeOK, BranchStatus
    <3>2. \A k, j \in Branch :
             j < k /\ <<"action", k>> \in sent' => "action" \in rows[j]
      BY <2>1, <2>2 DEF OrderOK, RecordedOK
    <3>3. \A k, j \in Branch :
             k < j /\ <<"compensate", k>> \in sent' =>
               /\ "action" \in rows[j]
               /\ CompensateMayFail \/ "compensate" \in rows[j]
      BY <2>1, <2>2, <3>1 DEF OrderOK, RecordedOK
    <3> QED BY <1>2, <3>2, <3>3 DEF OrderOK
  <2>7. DecidedOK' /\ CopyOK'
    BY <1>2, <2>2 DEF DecidedOK, CopyOK, TypeOK
  <2>8. BarrierOK' /\ RecordedOK' /\ FinalOK'
    BY <1>2 DEF BarrierOK, RecordedOK, FinalOK
  <2> QED BY <2>3, <2>4, <2>5, <2>6, <2>7, <2>8
<1>5. CASE d.kind = "finish"
  <2>1. \/ /\ d = Finish("succeed") /\ st[w] = "submitted"
           /\ \A j \in Branch : action[j] = "succeed"
        \/ d = Finish("aborting") /\ st[w] = "submitted"
        \/ /\ d = Finish("failed") /\ st[w] = "aborting"
           /\ \A j \in Branch : compensate[j] # "prepared"
    BY <1>3, <1>5 DEF Call
  <2>2. /\ pc' = [pc EXCEPT ![w] = "transition"]
        /\ job' = [job EXCEPT ![w] = d]
        /\ sent' = sent /\ reply' = reply /\ st' = st /\ rows' = rows
    BY <1>2, <1>5
  <2>3. TypeOK'
    <3>1. d \in Jobs
      BY <2>1 DEF Jobs, Finish, GlobalStatus
    <3> QED BY <1>2, <2>2, <3>1 DEF TypeOK
  <2>4. DecidedOK'
    <3>1. /\ d.to \in {"aborting", "succeed", "failed"}
          /\ d.to = "succeed" => /\ st[w] = "submitted"
                                 /\ \A j \in Branch : action[j] = "succeed"
          /\ d.to = "aborting" => st[w] = "submitted"
          /\ d.to = "failed" => /\ st[w] = "aborting"
                                /\ \A j \in Branch : compensate[j] # "prepared"
      BY <2>1 DEF Finish
    <3>2. \A j \in Branch : \/ compensate[j] \in {"prepared", "succeed"}
                            \/ CompensateMayFail
      BY DEF RecordedOK, TypeOK, BranchStatus
    <3> QED BY <2>2, <3>1, <3>2 DEF DecidedOK, RecordedOK, TypeOK
  <2>5. CallsOK' /\ CopyOK'
    BY <1>2, <2>2 DEF CallsOK, CopyOK, TypeOK
  <2>6. BarrierOK' /\ RecordedOK' /\ FinalOK' /\ DirectionOK' /\ OrderOK'
    BY <1>2, <2>2 DEF BarrierOK, RecordedOK, FinalOK, DirectionOK, OrderOK
  <2> QED BY <2>3, <2>4, <2>5, <2>6
<1> QED BY <1>2, <1>4, <1>5

\* The steps that only move a worker, its lease or the caller: nothing a
\* branch row, a barrier row or a call vouches for changes.
LEMMA QuietInv ==
  ASSUME IInv,
         \/ AbortRead \/ LeaseExpires \/ Submit
         \/ \E w \in Workers : Lock(w) \/ NoAnswer(w) \/ RetryLater(w) \/ Crash(w)
  PROVE  IInv'
<1> USE NAssumption DEF IInv
<1>1. UNCHANGED <<action, compensate, sent, rows, acted, undone>>
  BY DEF AbortRead, LeaseExpires, Submit, Lock, NoAnswer, RetryLater, Crash, store,
     drivers, branches
<1>2. status' = status \/ (status = "absent" /\ status' = "submitted")
  BY DEF AbortRead, LeaseExpires, Submit, Lock, NoAnswer, RetryLater, Crash, store
<1>3. TypeOK' /\ CopyOK' /\ CallsOK' /\ DecidedOK'
  <2>1. CASE AbortRead \/ LeaseExpires
    BY <1>1, <2>1 DEF AbortRead, LeaseExpires, store, drivers, TypeOK, CopyOK, CallsOK,
       DecidedOK
  <2>2. CASE Submit
    <3>1. CASE UNCHANGED <<lease, drivers>>
      BY <1>1, <2>2, <3>1 DEF Submit, drivers, TypeOK, CopyOK, CallsOK, DecidedOK
    <3>2. ASSUME NEW w \in Workers, pc[w] = "idle", lease' = w,
                 pc' = [pc EXCEPT ![w] = "loop"],
                 st' = [st EXCEPT ![w] = "submitted"], UNCHANGED <<job, reply>>
          PROVE  TypeOK' /\ CopyOK' /\ CallsOK' /\ DecidedOK'
      BY <1>1, <2>2, <3>2 DEF Submit, TypeOK, CopyOK, CallsOK, DecidedOK
    <3> QED BY <2>2, <3>1, <3>2 DEF Submit
  <2>3. ASSUME NEW w \in Workers, Lock(w)
        PROVE  TypeOK' /\ CopyOK' /\ CallsOK' /\ DecidedOK'
    BY <1>1, <2>3 DEF Lock, TypeOK, CopyOK, CallsOK, DecidedOK
  <2>4. ASSUME NEW w \in Workers, NoAnswer(w)
        PROVE  TypeOK' /\ CopyOK' /\ CallsOK' /\ DecidedOK'
    <3>1. Wait \in Jobs
      BY DEF Wait, Jobs
    <3> QED BY <1>1, <2>4, <3>1 DEF NoAnswer, store, TypeOK, CopyOK, CallsOK, DecidedOK
  <2>5. ASSUME NEW w \in Workers, RetryLater(w) \/ Crash(w)
        PROVE  TypeOK' /\ CopyOK' /\ CallsOK' /\ DecidedOK'
    <3>1. Wait \in Jobs
      BY DEF Wait, Jobs
    <3>2. EndRound(w) /\ UNCHANGED <<status, aborting>> /\ lease' \in {lease, NoWorker}
      BY <2>5 DEF RetryLater, Crash, Release, store
    <3> QED BY <1>1, <3>1, <3>2 DEF EndRound, TypeOK, CopyOK, CallsOK, DecidedOK
  <2> QED BY <2>1, <2>2, <2>3, <2>4, <2>5
<1>4. DirectionOK' /\ FinalOK'
  BY <1>1, <1>2 DEF DirectionOK, FinalOK
<1>5. BarrierOK' /\ RecordedOK' /\ OrderOK'
  BY <1>1 DEF BarrierOK, RecordedOK, OrderOK
<1> QED BY <1>3, <1>4, <1>5

\* An abort writes only over the status it read, so it never disturbs a
\* transaction that has already ended.
LEMMA AbortWriteInv ==
  ASSUME IInv, AbortWrite
  PROVE  IInv'
<1> USE DEF IInv
<1>1. /\ UNCHANGED <<lease, action, compensate, pc, st, job, reply, sent, rows, acted, undone>>
      /\ aborting' = "none"
      /\ status' = status \/ (status = "submitted" /\ status' = "aborting")
  BY DEF AbortWrite, TypeOK, drivers, branches
<1>2. TypeOK' /\ CopyOK' /\ DirectionOK' /\ FinalOK'
  BY <1>1 DEF TypeOK, CopyOK, DirectionOK, FinalOK
<1>3. BarrierOK' /\ CallsOK' /\ RecordedOK' /\ DecidedOK' /\ OrderOK'
  BY <1>1 DEF BarrierOK, CallsOK, RecordedOK, DecidedOK, OrderOK
<1> QED BY <1>2, <1>3

\* Recording an answer: the barrier row behind it is already there.
LEMMA RecordInv ==
  ASSUME IInv, NEW w \in Workers,
         BranchSucceeded(w) \/ ActionFailed(w) \/ CompensateFailed(w)
  PROVE  IInv'
<1> USE NAssumption DEF IInv
<1> DEFINE i == job[w].index
<1>1. /\ pc[w] = "call" /\ i \in Branch
      /\ Wait \in Jobs /\ Finish("aborting") \in Jobs /\ Finish("aborting").to = "aborting"
  <2>1. pc[w] = "call" /\ i \in Branch
    BY DEF BranchSucceeded, ActionFailed, CompensateFailed, CallsOK
  <2>2. Wait \in Jobs /\ Finish("aborting") \in Jobs /\ Finish("aborting").to = "aborting"
    BY DEF Wait, Finish, Jobs, GlobalStatus
  <2> QED BY <2>1, <2>2
<1>2. /\ UNCHANGED <<status, lease, st, sent, aborting, rows, acted, undone>>
      /\ reply' = [reply EXCEPT ![w] = "none"]
  BY DEF BranchSucceeded, ActionFailed, CompensateFailed, branches
<1>3. TypeOK' /\ RecordedOK'
  <2>1. CASE BranchSucceeded(w)
    <3>1. job[w].op \in rows[i] /\ job[w].op \in SagaOp
      BY <1>1, <2>1 DEF BranchSucceeded, CallsOK
    <3>2. CASE job[w].op = "action"
      BY <1>1, <1>2, <2>1, <3>1, <3>2 DEF BranchSucceeded, TypeOK, RecordedOK, BranchStatus
    <3>3. CASE job[w].op = "compensate"
      <4>1. "action" \in rows[i]
        BY <1>1, <3>1, <3>3 DEF BarrierOK, TypeOK
      <4> QED BY <1>1, <1>2, <2>1, <3>1, <3>3, <4>1 DEF BranchSucceeded, TypeOK, RecordedOK,
              BranchStatus
    <3> QED BY <3>1, <3>2, <3>3 DEF SagaOp
  <2>2. CASE ActionFailed(w)
    BY <1>1, <1>2, <2>2 DEF ActionFailed, TypeOK, RecordedOK, BranchStatus
  <2>3. CASE CompensateFailed(w)
    BY <1>1, <1>2, <2>3 DEF CompensateFailed, TypeOK, RecordedOK, CallsOK, BranchStatus
  <2> QED BY <2>1, <2>2, <2>3
<1>4. CallsOK' /\ DecidedOK' /\ CopyOK'
  <2>1. CASE BranchSucceeded(w) \/ CompensateFailed(w)
    <3>1. /\ job' = [job EXCEPT ![w] = Wait]
          /\ \E p \in {"loop", "retry"} : pc' = [pc EXCEPT ![w] = p]
      BY <2>1 DEF BranchSucceeded, CompensateFailed
    <3> QED BY <1>1, <1>2, <3>1 DEF TypeOK, CallsOK, DecidedOK, CopyOK
  <2>2. CASE ActionFailed(w)
    <3>1. /\ job' = [job EXCEPT ![w] = Finish("aborting")]
          /\ pc' = [pc EXCEPT ![w] = "transition"]
          /\ st[w] = "submitted"
      BY <2>2 DEF ActionFailed, CallsOK
    <3>2. CallsOK'
      BY <1>2, <3>1 DEF TypeOK, CallsOK
    <3>3. DecidedOK'
      BY <1>1, <1>2, <3>1 DEF TypeOK, DecidedOK
    <3>4. CopyOK'
      BY <1>1, <1>2, <3>1 DEF TypeOK, CopyOK
    <3> QED BY <3>2, <3>3, <3>4
  <2> QED BY <2>1, <2>2
<1>5. BarrierOK' /\ DirectionOK' /\ FinalOK' /\ OrderOK'
  BY <1>2 DEF BarrierOK, DirectionOK, FinalOK, OrderOK
<1> QED BY <1>3, <1>4, <1>5

\* Writing a status: the comparison, or the rule that nobody else writes where
\* Redis does not compare, keeps the direction; a final status inherits what
\* the deciding worker knew about the branches.
LEMMA TransitionInv ==
  ASSUME IInv, NEW w \in Workers, Transition(w)
  PROVE  IInv'
<1> USE DEF IInv
<1>1. /\ pc[w] = "transition"
      /\ UNCHANGED <<action, compensate, sent, aborting, rows, acted, undone>>
      /\ job[w].to \in {"aborting", "succeed", "failed"}
      /\ Wait \in Jobs
  BY NAssumption DEF Transition, branches, DecidedOK, Wait, Jobs
<1>2. CASE ~CanTransition(w)
  <2>1. EndRound(w) /\ status' = status /\ lease' \in {lease, NoWorker}
    BY <1>2 DEF Transition, Release
  <2>2. TypeOK' /\ CallsOK' /\ CopyOK' /\ DecidedOK'
    BY <1>1, <2>1 DEF EndRound, TypeOK, CallsOK, CopyOK, DecidedOK
  <2>3. BarrierOK' /\ RecordedOK' /\ DirectionOK' /\ FinalOK' /\ OrderOK'
    BY <1>1, <2>1 DEF BarrierOK, RecordedOK, DirectionOK, FinalOK, OrderOK
  <2> QED BY <2>2, <2>3
<1>3. CASE CanTransition(w)
  <2>1. status' = job[w].to /\ lease' = lease
    BY <1>3 DEF Transition
  <2>2. \/ status = st[w]
        \/ st[w] = "aborting" /\ status \in {"aborting", "failed"}
    BY <1>3 DEF CanTransition, StatusContested, TypeOK, CopyOK
  <2>3. BarrierOK' /\ RecordedOK' /\ OrderOK'
    BY <1>1 DEF BarrierOK, RecordedOK, OrderOK
  <2>4. FinalOK'
    BY <1>1, <2>1 DEF FinalOK, DecidedOK
  <2>5. CASE job[w].to = "aborting"
    <3>1. /\ st' = [st EXCEPT ![w] = "aborting"]
          /\ pc' = [pc EXCEPT ![w] = "loop"]
          /\ job' = [job EXCEPT ![w] = Wait]
          /\ reply' = reply
      BY <1>3, <2>5 DEF Transition
    <3>2. status = "submitted"
      BY <1>1, <2>2, <2>5 DEF DecidedOK
    <3>3. TypeOK' /\ CallsOK'
      BY <1>1, <2>1, <2>5, <3>1 DEF TypeOK, CallsOK
    <3>4. CopyOK' /\ DirectionOK' /\ DecidedOK'
      BY <1>1, <2>1, <2>5, <3>1, <3>2 DEF TypeOK, CopyOK, DirectionOK, DecidedOK
    <3> QED BY <2>3, <2>4, <3>3, <3>4
  <2>6. CASE job[w].to # "aborting"
    <3>1. EndRound(w)
      BY <1>3, <2>6 DEF Transition
    <3>2. \/ status = "submitted" /\ status' = "succeed"
          \/ status \in {"aborting", "failed"} /\ status' = "failed"
      BY <1>1, <2>1, <2>2, <2>6 DEF DecidedOK
    <3>3. TypeOK' /\ CallsOK'
      BY <1>1, <2>1, <3>1, <3>2 DEF EndRound, TypeOK, CallsOK
    <3>4. CopyOK' /\ DirectionOK' /\ DecidedOK'
      BY <1>1, <3>1, <3>2 DEF EndRound, TypeOK, CopyOK, DirectionOK, DecidedOK
    <3> QED BY <2>3, <2>4, <3>3, <3>4
  <2> QED BY <2>5, <2>6
<1> QED BY <1>2, <1>3

\* What the execution of a call that was sent does to its branch.
LEMMA RunsEffect ==
  ASSUME IInv, NEW o \in SagaOp, NEW i \in Branch, NEW r \in {"success", "failure"},
         <<o, i>> \in sent, Runs(o, i, r)
  PROVE  /\ rows' \in [Branch -> SUBSET SagaOp]
         /\ acted' \in [Branch -> Nat] /\ undone' \in [Branch -> Nat]
         /\ \A k \in Branch : rows[k] \subseteq rows'[k]
         /\ \A k \in Branch \ {i} : /\ rows'[k] = rows[k] /\ acted'[k] = acted[k]
                                    /\ undone'[k] = undone[k]
         /\ r = "success" => o \in rows'[i]
         /\ r = "failure" /\ o = "compensate" =>
              CompensateMayFail /\ "action" \in rows[i]
         /\ "compensate" \in rows'[i] => "compensate" \in rows[i] \/ o = "compensate"
         /\ acted'[i] = acted[i] \/ (o = "action" /\ rows[i] = {})
         /\ undone'[i] = undone[i] \/ (o = "compensate" /\ "compensate" \notin rows[i]
                                       /\ undone[i] = 0 /\ acted'[i] = 1)
         /\ BarrierOK'
<1> USE DEF IInv
<1>1. /\ rows \in [Branch -> SUBSET SagaOp]
      /\ acted \in [Branch -> Nat] /\ undone \in [Branch -> Nat]
  BY DEF TypeOK
<1>2. /\ "action" \notin rows[i] => rows[i] = {} /\ acted[i] = 0 /\ undone[i] = 0
      /\ "action" \in rows[i] /\ "compensate" \notin rows[i]
            => acted[i] = 1 /\ undone[i] = 0
      /\ "compensate" \in rows[i] => acted[i] = undone[i] /\ acted[i] \in {0, 1}
  BY DEF BarrierOK
<1>3. CASE o = "action"
  <2>1. /\ DecideRows(rows[i], o) = rows[i] \cup {"action"}
        /\ Decide(rows[i], o) = "Execute" <=> "action" \notin rows[i]
    BY <1>3 DEF DecideRows, Decide, OriginOp, IsCompensating
  <2>2. \/ /\ "action" \notin rows[i] /\ r = "success"
           /\ rows' = [rows EXCEPT ![i] = rows[i] \cup {"action"}]
           /\ acted' = [acted EXCEPT ![i] = @ + 1] /\ undone' = undone
        \/ /\ r = "failure"
           /\ rows' = rows /\ acted' = acted /\ undone' = undone
        \/ /\ "action" \in rows[i] /\ r = "success"
           /\ rows' = [rows EXCEPT ![i] = rows[i] \cup {"action"}]
           /\ acted' = acted /\ undone' = undone
    BY <1>3, <2>1 DEF Runs, branches
  <2> QED BY <1>1, <1>2, <1>3, <2>2 DEF BarrierOK, SagaOp
<1>4. CASE o = "compensate"
  <2>1. /\ DecideRows(rows[i], o) = rows[i] \cup {"action", "compensate"}
        /\ Decide(rows[i], o) = "Execute" <=>
             "action" \in rows[i] /\ "compensate" \notin rows[i]
    BY <1>4 DEF DecideRows, Decide, OriginOp, IsCompensating
  <2>2. \/ /\ "action" \in rows[i] /\ "compensate" \notin rows[i] /\ r = "success"
           /\ rows' = [rows EXCEPT ![i] = rows[i] \cup {"action", "compensate"}]
           /\ undone' = [undone EXCEPT ![i] = @ + 1] /\ acted' = acted
        \/ /\ "action" \in rows[i] /\ r = "failure" /\ CompensateMayFail
           /\ rows' = rows /\ acted' = acted /\ undone' = undone
        \/ /\ ~("action" \in rows[i] /\ "compensate" \notin rows[i]) /\ r = "success"
           /\ rows' = [rows EXCEPT ![i] = rows[i] \cup {"action", "compensate"}]
           /\ acted' = acted /\ undone' = undone
    BY <1>4, <2>1 DEF Runs, branches
  <2> QED BY <1>1, <1>2, <1>4, <2>2 DEF BarrierOK, SagaOp
<1> QED BY <1>3, <1>4 DEF SagaOp

\* Executing a call, awaited or stray, keeps everything that was known about
\* barrier rows, because rows only accumulate; and it keeps the step order,
\* because a branch can act only while no earlier branch is being compensated.
LEMMA RunsInv ==
  ASSUME IInv, NEW o \in SagaOp, NEW i \in Branch, NEW r \in {"success", "failure"},
         <<o, i>> \in sent, Runs(o, i, r),
         UNCHANGED <<status, lease, action, compensate, pc, st, job, sent, aborting>>
  PROVE  /\ BarrierOK' /\ RecordedOK' /\ CopyOK' /\ DirectionOK' /\ DecidedOK'
         /\ FinalOK' /\ OrderOK'
<1> USE DEF IInv
<1> DEFINE Grow == \A k \in Branch : rows[k] \subseteq rows'[k]
<1>1. Grow /\ BarrierOK'
  BY RunsEffect
<1>2. RecordedOK' /\ CopyOK' /\ DecidedOK' /\ FinalOK'
  BY <1>1 DEF RecordedOK, CopyOK, DecidedOK, FinalOK
<1>3. DirectionOK'
  <2>1. \A k \in Branch : "compensate" \in rows'[k] =>
           "compensate" \in rows[k] \/ (k = i /\ o = "compensate")
    BY RunsEffect
  <2> QED BY <2>1 DEF DirectionOK
<1>4. OrderOK'
  <2>1. \A k, j \in Branch : j < k /\ <<"action", k>> \in sent' => "action" \in rows'[j]
    BY <1>1 DEF OrderOK
  <2>2. \A k, j \in Branch : k < j /\ <<"compensate", k>> \in sent' =>
           /\ "action" \in rows'[j]
           /\ CompensateMayFail \/ "compensate" \in rows'[j]
    BY <1>1 DEF OrderOK
  <2>3. ASSUME NEW k \in Branch, NEW j \in Branch, j < k, acted'[k] > 0
        PROVE  acted'[j] > 0
    <3>1. /\ acted' \in [Branch -> Nat] /\ acted \in [Branch -> Nat]
          /\ \A m \in Branch : acted'[m] >= acted[m]
      <4>1. \A m \in Branch \ {i} : acted'[m] = acted[m]
        BY RunsEffect
      <4>2. acted'[i] = acted[i] \/ acted[i] = 0
        BY RunsEffect DEF BarrierOK
      <4>3. acted' \in [Branch -> Nat] /\ acted \in [Branch -> Nat]
        BY RunsEffect DEF TypeOK
      <4> QED BY <4>1, <4>2, <4>3
    <3>2. CASE acted[k] > 0
      <4>1. acted[j] > 0
        BY <2>3, <3>2 DEF OrderOK
      <4> QED BY <3>1, <4>1
    <3>3. CASE ~(acted[k] > 0)
      <4>1. k = i /\ o = "action" /\ rows[i] = {}
        BY <2>3, <3>3, RunsEffect
      <4>2. "action" \in rows[j]
        BY <2>3, <4>1 DEF OrderOK
      <4>3. "compensate" \notin rows[j]
        BY <2>3, <4>1 DEF OrderOK, DirectionOK
      <4>4. acted[j] = 1
        BY <4>2, <4>3 DEF BarrierOK
      <4> QED BY <3>1, <4>4
    <3> QED BY <3>2, <3>3
  <2> QED BY <2>1, <2>2, <2>3 DEF OrderOK
<1> QED BY <1>1, <1>2, <1>3, <1>4

\* An awaited call is executed.
LEMMA ExecuteInv ==
  ASSUME IInv, NEW w \in Workers, Execute(w)
  PROVE  IInv'
<1> USE DEF IInv
<1>1. PICK r \in {"success", "failure"} :
         /\ Runs(job[w].op, job[w].index, r)
         /\ reply' = [reply EXCEPT ![w] = r]
  BY DEF Execute
<1>2. /\ pc[w] = "call"
      /\ UNCHANGED <<status, lease, action, compensate, pc, st, job, sent, aborting>>
  BY DEF Execute, store
<1>3. /\ job[w].op \in SagaOp /\ job[w].index \in Branch
      /\ <<job[w].op, job[w].index>> \in sent
  BY <1>2 DEF CallsOK
<1>4. /\ BarrierOK' /\ RecordedOK' /\ CopyOK' /\ DirectionOK' /\ DecidedOK'
      /\ FinalOK' /\ OrderOK'
  BY <1>1, <1>2, <1>3, RunsInv
<1>5. /\ rows' \in [Branch -> SUBSET SagaOp]
      /\ acted' \in [Branch -> Nat] /\ undone' \in [Branch -> Nat]
      /\ \A k \in Branch : rows[k] \subseteq rows'[k]
      /\ r = "success" => job[w].op \in rows'[job[w].index]
      /\ r = "failure" /\ job[w].op = "compensate" =>
           CompensateMayFail /\ "action" \in rows[job[w].index]
  BY <1>1, <1>3, RunsEffect
<1>6. TypeOK'
  BY <1>1, <1>2, <1>5 DEF TypeOK
<1>7. CallsOK'
  BY <1>1, <1>2, <1>3, <1>5 DEF CallsOK, TypeOK
<1> QED BY <1>4, <1>6, <1>7

\* A stray call is executed.
LEMMA ExecuteStrayInv ==
  ASSUME IInv, ExecuteStray
  PROVE  IInv'
<1> USE DEF IInv
<1>1. PICK c \in sent, r \in {"success", "failure"} : Runs(c[1], c[2], r)
  BY DEF ExecuteStray
<1>2. UNCHANGED <<status, lease, action, compensate, pc, st, job, reply, sent, aborting>>
  BY DEF ExecuteStray, store, drivers
<1>3. c[1] \in SagaOp /\ c[2] \in Branch /\ <<c[1], c[2]>> \in sent
  BY DEF TypeOK
<1>4. /\ BarrierOK' /\ RecordedOK' /\ CopyOK' /\ DirectionOK' /\ DecidedOK'
      /\ FinalOK' /\ OrderOK'
  BY <1>1, <1>2, <1>3, RunsInv
<1>5. /\ rows' \in [Branch -> SUBSET SagaOp]
      /\ acted' \in [Branch -> Nat] /\ undone' \in [Branch -> Nat]
      /\ \A k \in Branch : rows[k] \subseteq rows'[k]
  BY <1>1, <1>3, RunsEffect
<1>6. TypeOK'
  BY <1>2, <1>5 DEF TypeOK
<1>7. CallsOK'
  BY <1>2, <1>5 DEF CallsOK
<1> QED BY <1>4, <1>6, <1>7

\* Every step of the specification preserves the invariant.
LEMMA NextInv == IInv /\ [Next]_vars => IInv'
<1> SUFFICES ASSUME IInv, [Next]_vars PROVE IInv'
  OBVIOUS
<1>1. CASE UNCHANGED vars
  BY <1>1 DEF vars, IInv, TypeOK, BarrierOK, CallsOK, RecordedOK, CopyOK, DirectionOK,
     DecidedOK, FinalOK, OrderOK
<1>2. CASE Next
  BY <1>2, AdvanceInv, QuietInv, AbortWriteInv, RecordInv, TransitionInv, ExecuteInv,
     ExecuteStrayInv DEF Next
<1> QED BY <1>1, <1>2

\* IInv holds in every reachable state of the saga, for every N, every set of
\* workers, both stores, and whether or not compensations may fail.
THEOREM SagaInvariant == Spec => []IInv
  BY InitInv, NextInv, PTL DEF Spec

-----------------------------------------------------------------------------
(***************************************************************************)
(* The results.                                                            *)
(***************************************************************************)

\* Every variable keeps its type.
THEOREM SagaTypeCorrect == Spec => []TypeOK
<1>1. IInv => TypeOK
  BY DEF IInv
<1> QED BY <1>1, SagaInvariant, PTL

\* Succeed means that every step took effect exactly once and nothing was
\* taken back, even where compensations fail.
THEOREM SagaSucceedIsWhole == Spec => []SucceedIsWhole
<1>1. IInv => SucceedIsWhole
  <2> SUFFICES ASSUME IInv PROVE SucceedIsWhole
    OBVIOUS
  <2>1. ASSUME NEW i \in Branch PROVE acted[i] <= 1 /\ undone[i] <= acted[i]
    BY DEF IInv, BarrierOK, TypeOK
  <2>2. ASSUME status = "succeed", NEW i \in Branch PROVE acted[i] = 1 /\ undone[i] = 0
    <3>1. "action" \in rows[i] /\ "compensate" \notin rows[i]
      BY <2>2 DEF IInv, FinalOK, DirectionOK
    <3> QED BY <3>1 DEF IInv, BarrierOK
  <2> QED BY <2>1, <2>2 DEF SucceedIsWhole
<1> QED BY <1>1, SagaInvariant, PTL

\* All or nothing: if no compensation answers FAILURE, a succeeded saga is
\* whole and a failed one has left nothing behind.
THEOREM SagaAtomicity ==
  ASSUME CompensateMayFail = FALSE
  PROVE  Spec => []Atomicity
<1>1. IInv => Atomicity
  <2> SUFFICES ASSUME IInv PROVE Atomicity
    OBVIOUS
  <2>1. ASSUME status = "succeed", NEW i \in Branch PROVE acted[i] = 1 /\ undone[i] = 0
    <3>1. "action" \in rows[i] /\ "compensate" \notin rows[i]
      BY <2>1 DEF IInv, FinalOK, DirectionOK
    <3> QED BY <3>1 DEF IInv, BarrierOK
  <2>2. ASSUME status = "failed", NEW i \in Branch PROVE acted[i] = undone[i]
    <3>1. "compensate" \in rows[i]
      BY <2>2 DEF IInv, FinalOK
    <3> QED BY <3>1 DEF IInv, BarrierOK
  <2> QED BY <2>1, <2>2 DEF Atomicity
<1> QED BY <1>1, SagaInvariant, PTL

\* Steps take effect in order and are taken back in reverse order, whatever
\* stale workers and late calls do.
THEOREM SagaStepOrder ==
  ASSUME CompensateMayFail = FALSE
  PROVE  Spec => []StepOrder
<1>1. IInv => StepOrder
  <2> SUFFICES ASSUME IInv PROVE StepOrder
    OBVIOUS
  <2>1. ASSUME NEW i \in Branch, NEW j \in Branch, i < j, undone[i] > 0
        PROVE  "compensate" \in rows[j]
    <3>1. "compensate" \in rows[i]
      BY <2>1 DEF IInv, BarrierOK
    <3> QED BY <2>1, <3>1 DEF IInv, DirectionOK, OrderOK
  <2>2. \A i, j \in Branch : j < i /\ acted[i] > 0 => acted[j] > 0
    BY DEF IInv, OrderOK
  <2> QED BY <2>1, <2>2 DEF StepOrder
<1> QED BY <1>1, SagaInvariant, PTL

\* No compensation is ever sent while the transaction may still succeed.
THEOREM SagaCompensateOnlyWhenAborting == Spec => []CompensateOnlyWhenAborting
<1>1. IInv => CompensateOnlyWhenAborting
  BY DEF IInv, DirectionOK, CompensateOnlyWhenAborting
<1> QED BY <1>1, SagaInvariant, PTL

\* The global status only moves forward; an accepted abort and a final status
\* are never overwritten, on either store.
THEOREM SagaStatusForward == Spec => StatusForward
<1> DEFINE Forward == \/ status = "absent" /\ status' = "submitted"
                      \/ status = "submitted" /\ status' \in {"aborting", "succeed"}
                      \/ status = "aborting" /\ status' = "failed"
<1>1. IInv /\ [Next]_vars => [Forward]_status
  <2> SUFFICES ASSUME IInv, Next PROVE Forward \/ status' = status
    BY DEF vars
  <2>1. CASE Submit \/ AbortWrite
    BY <2>1 DEF Submit, AbortWrite, IInv, TypeOK
  <2>2. ASSUME NEW w \in Workers, Transition(w)
        PROVE  Forward \/ status' = status
    <3>1. CASE CanTransition(w)
      <4>1. /\ status' = job[w].to
            /\ job[w].to \in {"aborting", "succeed", "failed"}
            /\ job[w].to = "failed" => st[w] = "aborting"
            /\ job[w].to # "failed" => st[w] = "submitted"
        BY <2>2, <3>1 DEF Transition, IInv, DecidedOK
      <4>2. status = st[w] \/ (st[w] = "aborting" /\ status \in {"aborting", "failed"})
        BY <3>1 DEF CanTransition, StatusContested, IInv, TypeOK, CopyOK
      <4> QED BY <4>1, <4>2
    <3>2. CASE ~CanTransition(w)
      BY <2>2, <3>2 DEF Transition
    <3> QED BY <3>1, <3>2
  <2>3. CASE AbortRead \/ LeaseExpires \/ ExecuteStray
    BY <2>3 DEF AbortRead, LeaseExpires, ExecuteStray, store
  <2>4. ASSUME NEW w \in Workers,
               \/ Lock(w) \/ Advance(w) \/ BranchSucceeded(w) \/ ActionFailed(w)
               \/ CompensateFailed(w) \/ NoAnswer(w) \/ RetryLater(w) \/ Crash(w)
               \/ Execute(w)
        PROVE  status' = status
    BY <2>4 DEF Lock, Advance, BranchSucceeded, ActionFailed, CompensateFailed, NoAnswer,
       RetryLater, Crash, Execute, store
  <2> QED BY <2>1, <2>2, <2>3, <2>4 DEF Next
<1> QED BY <1>1, SagaInvariant, PTL DEF Spec, StatusForward

-----------------------------------------------------------------------------
(***************************************************************************)
(* Saga implements GlobalTx.                                               *)
(***************************************************************************)

\* A branch that has acted for good is "applied", a closed one is not.
LEMMA EffectOf ==
  ASSUME IInv, NEW i \in Branch
  PROVE  /\ Effect[i] = "applied" <=> "action" \in rows[i] /\ "compensate" \notin rows[i]
         /\ rows[i] = {} => Effect[i] = "none"
<1>1. /\ "action" \notin rows[i] => rows[i] = {} /\ acted[i] = 0 /\ undone[i] = 0
      /\ "action" \in rows[i] /\ "compensate" \notin rows[i]
            => acted[i] = 1 /\ undone[i] = 0
      /\ "compensate" \in rows[i] => acted[i] = undone[i] /\ acted[i] \in {0, 1}
  BY DEF IInv, BarrierOK
<1>2. Effect[i] = IF undone[i] > 0 THEN "undone"
                  ELSE IF acted[i] > 0 THEN "applied" ELSE "none"
  BY DEF Effect
<1> QED BY <1>1, <1>2

\* The execution of a call is an Apply or an Undo of the abstract saga, or
\* nothing the caller could see.
LEMMA RunsImplements ==
  ASSUME CompensateMayFail = FALSE, IInv,
         NEW o \in SagaOp, NEW i \in Branch, NEW r \in {"success", "failure"},
         <<o, i>> \in sent, Runs(o, i, r), status' = status
  PROVE  Promise!Apply(i) \/ Promise!Undo(i) \/ UNCHANGED <<Outcome, Effect>>
<1>1. UNCHANGED Outcome
  BY DEF Outcome
<1>2. /\ \A k \in Branch \ {i} : acted'[k] = acted[k] /\ undone'[k] = undone[k]
      /\ acted'[i] = acted[i] \/ (o = "action" /\ rows[i] = {})
      /\ undone'[i] = undone[i] \/ (o = "compensate" /\ "compensate" \notin rows[i]
                                    /\ undone[i] = 0 /\ acted'[i] = 1)
      /\ acted' \in [Branch -> Nat] /\ undone' \in [Branch -> Nat]
      /\ acted \in [Branch -> Nat] /\ undone \in [Branch -> Nat]
      /\ BarrierOK'
  BY RunsEffect DEF IInv, TypeOK
<1>3. /\ Effect \in [Branch -> {"none", "applied", "undone"}]
      /\ \A k \in Branch : Effect'[k] = IF undone'[k] > 0 THEN "undone"
                                        ELSE IF acted'[k] > 0 THEN "applied" ELSE "none"
      /\ \A k \in Branch : Effect[k] = IF undone[k] > 0 THEN "undone"
                                       ELSE IF acted[k] > 0 THEN "applied" ELSE "none"
      /\ DOMAIN Effect' = Branch
  BY DEF Effect
<1>4. \A k \in Branch \ {i} : Effect'[k] = Effect[k]
  BY <1>2, <1>3
<1>5. CASE acted'[i] = acted[i] /\ undone'[i] = undone[i]
  <2>1. \A k \in Branch : acted'[k] = acted[k] /\ undone'[k] = undone[k]
    BY <1>2, <1>5
  <2>2. Effect' = Effect
    BY <2>1 DEF Effect
  <2> QED BY <1>1, <2>2
<1>6. CASE acted'[i] # acted[i]
  <2>1. o = "action" /\ rows[i] = {} /\ acted[i] = 0 /\ undone[i] = 0
    BY <1>2, <1>6 DEF IInv, BarrierOK
  <2>2. Outcome = "open"
    BY <2>1 DEF IInv, FinalOK, Outcome, IsFinal
  <2>3. undone'[i] = 0 /\ acted'[i] > 0
    BY <1>2, <1>6, <2>1
  <2>4. Effect[i] = "none" /\ Effect'[i] = "applied"
    BY <1>3, <2>1, <2>3
  <2>5. ASSUME NEW j \in Branch, j < i PROVE Effect[j] = "applied"
    <3>1. "action" \in rows[j] /\ "compensate" \notin rows[j]
      BY <2>1, <2>5 DEF IInv, OrderOK, DirectionOK
    <3> QED BY <3>1, EffectOf
  <2>6. Effect' = [Effect EXCEPT ![i] = "applied"]
    BY <1>3, <1>4, <2>4 DEF Effect
  <2> QED BY <1>1, <2>2, <2>4, <2>5, <2>6 DEF Promise!Apply, Promise!Branch, Branch
<1>7. CASE undone'[i] # undone[i]
  <2>1. /\ o = "compensate" /\ "compensate" \notin rows[i]
        /\ undone[i] = 0 /\ acted'[i] = 1
    BY <1>2, <1>7
  <2>2. acted[i] = 1
    BY <1>2, <2>1
  <2>3. Outcome = "open"
    BY <2>1 DEF IInv, FinalOK, DirectionOK, Outcome, IsFinal
  <2>4. undone'[i] > 0
    BY <1>2, <1>7, <2>1
  <2>5. Effect[i] = "applied" /\ Effect'[i] = "undone"
    BY <1>3, <2>1, <2>2, <2>4
  <2>6. ASSUME NEW j \in Branch, j > i PROVE Effect[j] # "applied"
    <3>1. "compensate" \in rows[j]
      BY <2>1, <2>6 DEF IInv, OrderOK
    <3> QED BY <3>1, EffectOf
  <2>7. Effect' = [Effect EXCEPT ![i] = "undone"]
    BY <1>3, <1>4, <2>5 DEF Effect
  <2> QED BY <1>1, <2>3, <2>5, <2>6, <2>7 DEF Promise!Undo, Promise!Branch, Branch
<1> QED BY <1>5, <1>6, <1>7

\* Whatever the workers, the callers and the network do, the branches'
\* effects and the reported outcome behave as the abstract saga promises.
THEOREM SagaImplements ==
  ASSUME CompensateMayFail = FALSE
  PROVE  Spec => Implements
<1>1. Init => Promise!GInit
  BY DEF Init, Promise!GInit, Outcome, Effect, IsFinal, Promise!Branch, Branch
<1>2. IInv /\ IInv' /\ [Next]_vars => [Promise!GNext]_(Promise!gvars)
  <2> SUFFICES ASSUME IInv, IInv', [Next]_vars
               PROVE  Promise!GNext \/ UNCHANGED <<Outcome, Effect>>
    BY DEF Promise!gvars
  <2>1. CASE UNCHANGED <<status, acted, undone>>
    BY <2>1 DEF Outcome, Effect
  <2>2. CASE Submit \/ AbortWrite
    <3>1. /\ UNCHANGED <<acted, undone>>
          /\ status' = status \/ (~IsFinal(status') /\ ~IsFinal(status))
      BY <2>2 DEF Submit, AbortWrite, branches, IsFinal, IInv, TypeOK
    <3> QED BY <3>1 DEF Outcome, Effect
  <2>3. ASSUME NEW w \in Workers, Transition(w), status' # status
        PROVE  Promise!GNext \/ UNCHANGED <<Outcome, Effect>>
    <3>1. UNCHANGED <<rows, acted, undone>>
      BY <2>3 DEF Transition, branches
    <3>2. /\ status' = job[w].to
          /\ job[w].to \in {"aborting", "succeed", "failed"}
          /\ job[w].to = "failed" => st[w] = "aborting"
          /\ job[w].to # "failed" => st[w] = "submitted"
          /\ CanTransition(w)
      BY <2>3 DEF Transition, IInv, DecidedOK
    <3>3. status \in {"submitted", "aborting"}
      BY <2>3, <3>2 DEF CanTransition, StatusContested, IInv, TypeOK, CopyOK
    <3>4. Effect' = Effect
      BY <3>1 DEF Effect
    <3>5. CASE status' = "aborting"
      BY <3>3, <3>4, <3>5 DEF Outcome, IsFinal
    <3>6. CASE status' = "succeed"
      <4>1. \A i \in Branch : Effect[i] = "applied"
        <5> TAKE i \in Branch
        <5>1. "action" \in rows'[i] /\ "compensate" \notin rows'[i]
          BY <3>6 DEF IInv, FinalOK, DirectionOK
        <5> QED BY <3>1, <5>1, EffectOf
      <4>2. Outcome = "open" /\ Outcome' = "succeed"
        BY <3>3, <3>6 DEF Outcome, IsFinal
      <4> QED BY <3>4, <4>1, <4>2 DEF Promise!GNext, Promise!Commit, Promise!Branch, Branch
    <3>7. CASE status' = "failed"
      <4>1. \A i \in Branch : Effect[i] # "applied"
        <5> TAKE i \in Branch
        <5>1. "compensate" \in rows'[i]
          BY <3>7 DEF IInv, FinalOK
        <5> QED BY <3>1, <5>1, EffectOf
      <4>2. Outcome = "open" /\ Outcome' = "failed"
        BY <3>3, <3>7 DEF Outcome, IsFinal
      <4> QED BY <3>4, <4>1, <4>2 DEF Promise!GNext, Promise!Rollback, Promise!Branch, Branch
    <3> QED BY <3>2, <3>5, <3>6, <3>7
  <2>4. ASSUME NEW o \in SagaOp, NEW i \in Branch, NEW r \in {"success", "failure"},
               <<o, i>> \in sent, Runs(o, i, r), status' = status
        PROVE  Promise!GNext \/ UNCHANGED <<Outcome, Effect>>
    <3>1. Promise!Apply(i) \/ Promise!Undo(i) \/ UNCHANGED <<Outcome, Effect>>
      BY <2>4, RunsImplements
    <3> QED BY <3>1 DEF Promise!GNext, Promise!Branch, Branch
  <2>5. ASSUME NEW w \in Workers, Execute(w)
        PROVE  Promise!GNext \/ UNCHANGED <<Outcome, Effect>>
    <3>1. PICK r \in {"success", "failure"} : Runs(job[w].op, job[w].index, r)
      BY <2>5 DEF Execute
    <3>2. /\ job[w].op \in SagaOp /\ job[w].index \in Branch
          /\ <<job[w].op, job[w].index>> \in sent /\ status' = status
      BY <2>5 DEF Execute, store, IInv, CallsOK
    <3> QED BY <2>4, <3>1, <3>2
  <2>6. CASE ExecuteStray
    <3>1. PICK c \in sent, r \in {"success", "failure"} : Runs(c[1], c[2], r)
      BY <2>6 DEF ExecuteStray
    <3>2. /\ c[1] \in SagaOp /\ c[2] \in Branch /\ <<c[1], c[2]>> \in sent
          /\ status' = status
      BY <2>6 DEF ExecuteStray, store, IInv, TypeOK
    <3> QED BY <2>4, <3>1, <3>2
  <2>7. ASSUME NEW w \in Workers,
               \/ Lock(w) \/ Advance(w) \/ BranchSucceeded(w) \/ ActionFailed(w)
               \/ CompensateFailed(w) \/ NoAnswer(w) \/ RetryLater(w) \/ Crash(w)
        PROVE  UNCHANGED <<status, acted, undone>>
    BY <2>7 DEF Lock, Advance, BranchSucceeded, ActionFailed, CompensateFailed, NoAnswer,
       RetryLater, Crash, store, branches
  <2>8. ASSUME NEW w \in Workers, Transition(w), status' = status
        PROVE  UNCHANGED <<status, acted, undone>>
    BY <2>8 DEF Transition, branches
  <2>9. CASE AbortRead \/ LeaseExpires \/ UNCHANGED vars
    BY <2>1, <2>9 DEF AbortRead, LeaseExpires, store, branches, vars
  <2> QED BY <2>1, <2>2, <2>3, <2>5, <2>6, <2>7, <2>8, <2>9 DEF Next
<1> QED BY <1>1, <1>2, SagaInvariant, PTL DEF Spec, Implements, Promise!GSpec

=============================================================================
