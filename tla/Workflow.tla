------------------------------ MODULE Workflow ------------------------------
(***************************************************************************)
(* One workflow: a function of the user's that opens branches as it goes   *)
(* (WorkflowCtx::branch ... run_with), run and replayed by                 *)
(* Driver::process_workflow, with compensations registered on the way.     *)
(*                                                                         *)
(* The function is a decision tree: Script gives, for each version of the  *)
(* code and each sequence of results so far, the next branch or the end.   *)
(* A process that restarts may come up with another version.               *)
(*                                                                         *)
(* Services behind the branches remember what they did (the barrier), by   *)
(* the name of the branch.                                                 *)
(***************************************************************************)
EXTENDS Core, Barrier, Sequences

CONSTANTS
  Names,     \* branch names
  Values,    \* what a branch may return
  Versions,  \* versions of the function
  Script,    \* [Versions -> [results so far -> [name, undo] or End]]
  End,
  N,         \* no run opens more than N branches
  Workers,
  Deployments \* a store, "sql" or "redis", the versions in use, and whether a
              \* lease may run out while its holder is still running

ASSUME WorkflowAssumption == N \in Nat \ {0} /\ "none" \notin Names

\* Whatever the branches so far have returned, the code goes on or ends.
ASSUME ScriptAssumption ==
  \A v \in Versions :
    /\ <<>> \in DOMAIN Script[v]
    /\ \A h \in DOMAIN Script[v] :
         /\ h \in Seq(Values) /\ Len(h) <= N
         /\ Script[v][h] # End =>
              /\ Script[v][h] \in [name : Names, undo : BOOLEAN] /\ Len(h) < N
              /\ \A x \in Values : Append(h, x) \in DOMAIN Script[v]

ASSUME DeploymentsAssumption ==
  Deployments \subseteq [store : {"sql", "redis"}, versions : SUBSET Versions,
                         overlap : BOOLEAN]

VARIABLES
  deployment, \* [store, versions, overlap]
  status,  \* trans_global.status
  act,     \* the action row of each position: name, status, result
  comp,    \* the compensate row of each position: whose compensation, status
  ver,     \* the version each worker's process runs
  wk,      \* each worker's locals
  sent,    \* actions that were ever called
  rows,    \* barrier rows of each branch
  did      \* how often each op of each branch took effect

table == <<act, comp>>
services == <<sent, rows, did>>
vars == <<deployment, status, act, comp, ver, wk, sent, rows, did>>

Position == 1 .. N
NoRow == [name |-> "none", st |-> "none", val |-> "none"]
SagaOp == {"action", "compensate"}

Row == [name : Names \cup {"none"}, st : BranchStatus \cup {"none"},
        val : Values \cup {"none"}]

Idle == [pc |-> "idle", st |-> "submitted", to |-> "none", at |-> 0, seen |-> <<>>,
         recorded |-> [i \in Position |-> NoRow], val |-> "none"]

TypeOK ==
  /\ deployment \in Deployments
  /\ status \in {"absent", "submitted", "aborting", "succeed", "failed"}
  /\ act \in [Position -> Row] /\ comp \in [Position -> Row]
  /\ ver \in [Workers -> Versions]
  /\ \A w \in Workers :
       /\ wk[w].pc \in {"idle", "loop", "run", "register", "register_action", "execute",
                        "record", "refused", "call", "called", "transition"}
       /\ wk[w].st \in {"submitted", "aborting"}
       /\ wk[w].to \in {"none", "aborting", "succeed", "failed"}
       /\ wk[w].at \in 0 .. N
       /\ wk[w].seen \in Seq(Values) /\ Len(wk[w].seen) <= N
       /\ wk[w].recorded \in [Position -> Row]
       /\ wk[w].val \in Values \cup {"none"}
  /\ sent \subseteq Names
  /\ rows \in [Names -> SUBSET SagaOp]
  /\ did \in [Names -> [SagaOp -> Nat]]

Init ==
  /\ deployment \in Deployments
  /\ status = "absent"
  /\ act = [i \in Position |-> NoRow] /\ comp = [i \in Position |-> NoRow]
  /\ ver \in [Workers -> deployment.versions]
  /\ wk = [w \in Workers |-> Idle]
  /\ sent = {}
  /\ rows = [b \in Names |-> {}]
  /\ did = [b \in Names |-> [o \in SagaOp |-> 0]]

-----------------------------------------------------------------------------
(***************************************************************************)
(* The caller.                                                             *)
(***************************************************************************)

\* Embedded::submit_workflow; a gid that is known already is left alone.
Submit ==
  /\ status = "absent"
  /\ status' = "submitted"
  /\ UNCHANGED <<deployment, table, ver, wk, services>>

\* Api::abort: a workflow, like a saga, may be turned round half way.
Abort ==
  /\ status = "submitted"
  /\ status' = "aborting"
  /\ UNCHANGED <<deployment, table, ver, wk, services>>

-----------------------------------------------------------------------------
(***************************************************************************)
(* The services.                                                           *)
(***************************************************************************)
Runs(b, o) ==
  /\ rows' = [rows EXCEPT ![b] = DecideRows(rows[b], o)]
  /\ did' = [did EXCEPT ![b][o] = IF Decide(rows[b], o) = "Execute" THEN @ + 1 ELSE @]

\* An action nobody waits for any more is carried out.
ExecuteStray ==
  /\ \E b \in sent : Runs(b, "action")
  /\ UNCHANGED <<deployment, status, table, ver, wk, sent>>

-----------------------------------------------------------------------------
(***************************************************************************)
(* The driver.                                                             *)
(***************************************************************************)
Goto(w, pc) == wk' = [wk EXCEPT ![w].pc = pc]
EndRound(w) == wk' = [wk EXCEPT ![w] = Idle]

Lock(w) ==
  /\ wk[w] = Idle
  /\ deployment.overlap \/ \A x \in Workers : wk[x] = Idle
  /\ Schedulable(status, "workflow")
  /\ wk' = [wk EXCEPT ![w].pc = "loop", ![w].st = status]
  /\ UNCHANGED <<deployment, status, table, ver, services>>

\* compensate_states: positions without a compensation count as done.
CompensateStates ==
  [i \in Position |-> IF comp[i] = NoRow THEN "succeed" ELSE comp[i].st]

\* Top of process_workflow's loop: the rows are read and the next thing chosen;
\* the function gets the rows as they are now.
Loop(w) ==
  LET d == WorkflowAdvance(wk[w].st, CompensateStates)
  IN /\ wk[w].pc = "loop"
     /\ \/ /\ d.kind = "run"
           /\ wk' = [wk EXCEPT ![w].pc = "run", ![w].seen = <<>>, ![w].recorded = act]
        \/ /\ d.kind = "finish"
           /\ wk' = [wk EXCEPT ![w].pc = "transition", ![w].to = d.to]
        \/ /\ d.kind = "call"
           /\ wk' = [wk EXCEPT ![w].pc = "call", ![w].at = d.index]
     /\ UNCHANGED <<deployment, status, table, ver, services>>

\* A process that does not know the function, or a function that asks for a
\* retry or cannot reach the store: the round is over, nothing is rolled back.
Retry(w) ==
  /\ wk[w].pc \in {"loop", "run"}
  /\ EndRound(w)
  /\ UNCHANGED <<deployment, status, table, ver, services>>

-----------------------------------------------------------------------------
(***************************************************************************)
(* The function.  Opened(w) is the branch it opens next.                   *)
(***************************************************************************)
Opened(w) == Script[ver[w]][wk[w].seen]
Here(w) == Len(wk[w].seen) + 1

\* It returns Ok.
Returns(w) ==
  /\ wk[w].pc = "run" /\ Opened(w) = End
  /\ wk' = [wk EXCEPT ![w].pc = "transition", ![w].to = "succeed"]
  /\ UNCHANGED <<deployment, status, table, ver, services>>

\* Or decides, without a branch having failed, to have everything rolled back.
AsksForRollback(w) ==
  /\ wk[w].pc = "run"
  /\ wk' = [wk EXCEPT ![w].pc = "transition", ![w].to = "aborting"]
  /\ UNCHANGED <<deployment, status, table, ver, services>>

\* Mutant of Replay: results are given back without a look at the name.
ReplayUnchecked(w) ==
  LET r == wk[w].recorded[Here(w)]
  IN /\ wk[w].pc = "run" /\ Opened(w) # End
     /\ IF r.st = "succeed" THEN wk' = [wk EXCEPT ![w].seen = Append(@, r.val)]
        ELSE Goto(w, "register")
     /\ UNCHANGED <<deployment, status, table, ver, services>>

\* Mutant of Replay: a branch that was begun is not looked up again.
ReplayNever(w) ==
  /\ wk[w].pc = "run" /\ Opened(w) # End
  /\ Goto(w, "register")
  /\ UNCHANGED <<deployment, status, table, ver, services>>

\* run_with, 1: the position is compared with what was recorded there.
Replay(w) ==
  LET r == wk[w].recorded[Here(w)]
  IN /\ wk[w].pc = "run" /\ Opened(w) # End
     /\ \/ /\ r # NoRow /\ r.name # Opened(w).name
           /\ EndRound(w)
        \/ /\ r # NoRow /\ r.name = Opened(w).name /\ r.st = "succeed"
           /\ wk' = [wk EXCEPT ![w].seen = Append(@, r.val)]
        \/ /\ r = NoRow \/ (r.name = Opened(w).name /\ r.st # "succeed")
           /\ Goto(w, "register")
     /\ UNCHANGED <<deployment, status, table, ver, services>>

\* A row is inserted unless there is one; one of another name is a conflict.
NewRow(w) == [name |-> Opened(w).name, st |-> "prepared", val |-> "none"]
Insert(w, r) == IF r = NoRow THEN NewRow(w) ELSE r
Conflict(w, r) == r # NoRow /\ r.name # Opened(w).name

\* Mutant of RegisterSql: the action's row only, its compensation when it is over.
RegisterActionOnly(w) ==
  /\ deployment.store = "sql" /\ wk[w].pc = "register"
  /\ act' = [act EXCEPT ![Here(w)] = Insert(w, @)]
  /\ Goto(w, "execute")
  /\ UNCHANGED <<deployment, status, comp, ver, services>>

\* run_with, 2: the compensation is registered before the action runs.  On SQL
\* both rows are one transaction and a conflict undoes it; run_with looks at
\* errors only, not at the outcome, and goes on.
RegisterSql(w) ==
  LET i == Here(w)
      undo == Opened(w).undo
      ok == ~Conflict(w, act[i]) /\ ~(undo /\ Conflict(w, comp[i]))
  IN /\ deployment.store = "sql" /\ wk[w].pc = "register"
     /\ act' = IF ok THEN [act EXCEPT ![i] = Insert(w, @)] ELSE act
     /\ comp' = IF ok /\ undo THEN [comp EXCEPT ![i] = Insert(w, @)] ELSE comp
     /\ Goto(w, "execute")
     /\ UNCHANGED <<deployment, status, ver, services>>

\* On Redis each row is a command of its own and a conflict leaves the first.
RegisterRedis(w) ==
  LET i == Here(w)
  IN /\ deployment.store = "redis"
     /\ \/ /\ wk[w].pc = "register" /\ Opened(w).undo
           /\ comp' = [comp EXCEPT ![i] = Insert(w, @)]
           /\ Goto(w, IF Conflict(w, comp[i]) THEN "execute" ELSE "register_action")
           /\ UNCHANGED act
        \/ /\ \/ wk[w].pc = "register" /\ ~Opened(w).undo
              \/ wk[w].pc = "register_action"
           /\ act' = [act EXCEPT ![i] = Insert(w, @)]
           /\ Goto(w, "execute")
           /\ UNCHANGED comp
     /\ UNCHANGED <<deployment, status, ver, services>>

\* run_with, 3: the closure runs and succeeds ...
Execute(w) ==
  /\ wk[w].pc = "execute"
  /\ sent' = sent \cup {Opened(w).name}
  /\ Runs(Opened(w).name, "action")
  /\ \E v \in Values : wk' = [wk EXCEPT ![w].pc = "record", ![w].val = v]
  /\ UNCHANGED <<deployment, status, table, ver>>

\* ... or refuses, without effect ...
Refuse(w) ==
  /\ wk[w].pc = "execute"
  /\ Decide(rows[Opened(w).name], "action") = "Execute"
  /\ Goto(w, "refused")
  /\ UNCHANGED <<deployment, status, table, ver, services>>

\* Mutant of Unknown: no answer passes for a success.
UnknownSucceeds(w) ==
  /\ wk[w].pc = "execute"
  /\ sent' = sent \cup {Opened(w).name}
  /\ \E v \in Values : wk' = [wk EXCEPT ![w].pc = "record", ![w].val = v]
  /\ UNCHANGED <<deployment, status, table, ver, rows, did>>

\* ... or does not say: its call may still arrive.
Unknown(w) ==
  /\ wk[w].pc = "execute"
  /\ sent' = sent \cup {Opened(w).name}
  /\ EndRound(w)
  /\ UNCHANGED <<deployment, status, table, ver, rows, did>>

\* The store's set_branch_result writes result and status at once, to whatever row
\* there is at the position ...
SetBranchResult(i, v) ==
  act' = [act EXCEPT ![i] = IF @ = NoRow THEN @ ELSE [@ EXCEPT !.st = "succeed", !.val = v]]

\* ... set_branch_status the status alone.
SetBranchStatus(i, s) ==
  act' = [act EXCEPT ![i] = IF @ = NoRow THEN @ ELSE [@ EXCEPT !.st = s]]

Record(w) ==
  /\ wk[w].pc = "record"
  /\ SetBranchResult(Here(w), wk[w].val)
  /\ wk' = [wk EXCEPT ![w].pc = "run", ![w].seen = Append(@, wk[w].val), ![w].val = "none"]
  /\ UNCHANGED <<deployment, status, comp, ver, services>>

\* FAILURE is recorded if the store allows it, and the function asks for the
\* rollback.
Refused(w) ==
  /\ wk[w].pc = "refused"
  /\ UNCHANGED act \/ SetBranchStatus(Here(w), "failed")
  /\ wk' = [wk EXCEPT ![w].pc = "transition", ![w].to = "aborting"]
  /\ UNCHANGED <<deployment, status, comp, ver, services>>

-----------------------------------------------------------------------------
\* A compensation is called and answers SUCCESS, or anything else.
Compensate(w) ==
  /\ wk[w].pc = "call"
  /\ Runs(comp[wk[w].at].name, "compensate")
  /\ Goto(w, "called")
  /\ UNCHANGED <<deployment, status, table, ver, sent>>

CompensateUnknown(w) ==
  /\ wk[w].pc = "call"
  /\ EndRound(w)
  /\ UNCHANGED <<deployment, status, table, ver, services>>

Compensated(w) ==
  /\ wk[w].pc = "called"
  /\ comp' = [comp EXCEPT ![wk[w].at].st = "succeed"]
  /\ wk' = [wk EXCEPT ![w].pc = "loop", ![w].at = 0]
  /\ UNCHANGED <<deployment, status, act, ver, services>>

\* Mutant of CanTransition: the driver writes whatever the row holds.
CanTransitionAlways(w) == TRUE

CanTransition(w) ==
  \/ status = wk[w].st
  \/ deployment.store = "redis" /\ ~StatusContested(wk[w].st, "workflow")

\* A status is written; after a turn to aborting the round goes on.
Transition(w) ==
  /\ wk[w].pc = "transition"
  /\ status' = IF CanTransition(w) THEN wk[w].to ELSE status
  /\ IF CanTransition(w) /\ wk[w].to = "aborting"
     THEN wk' = [wk EXCEPT ![w] = [Idle EXCEPT !.pc = "loop", !.st = "aborting"]]
     ELSE EndRound(w)
  /\ UNCHANGED <<deployment, table, ver, services>>

\* The process dies and comes back, perhaps as another version.
Crash(w) ==
  /\ wk[w] # Idle
  /\ EndRound(w)
  /\ \E v \in deployment.versions : ver' = [ver EXCEPT ![w] = v]
  /\ UNCHANGED <<deployment, status, table, services>>

-----------------------------------------------------------------------------
Next ==
  \/ Submit \/ Abort \/ ExecuteStray
  \/ \E w \in Workers :
       \/ Lock(w) \/ Loop(w) \/ Retry(w) \/ Returns(w) \/ AsksForRollback(w) \/ Replay(w)
       \/ RegisterSql(w) \/ RegisterRedis(w) \/ Execute(w) \/ Refuse(w) \/ Unknown(w)
       \/ Record(w) \/ Refused(w) \/ Compensate(w) \/ CompensateUnknown(w)
       \/ Compensated(w) \/ Transition(w) \/ Crash(w)

Spec == Init /\ [][Next]_vars

-----------------------------------------------------------------------------
(***************************************************************************)
(* Properties.                                                             *)
(***************************************************************************)

\* Branches whose compensation every version that has them registers.
Undoable == {b \in Names : \A v \in Versions : \A h \in DOMAIN Script[v] :
               Script[v][h] # End /\ Script[v][h].name = b => Script[v][h].undo}

\* Whatever took effect was compensated and can take effect no more.
Clean ==
  \A b \in Undoable : did[b]["action"] = did[b]["compensate"] /\ (b \in sent => rows[b] # {})

\* Rolled back means rolled back, though the function may have died between any
\* two of its steps and its calls may arrive late (run_with registers first).
FailedIsClean == status = "failed" /\ ~deployment.overlap => Clean

\* A function that outlives its lease goes on opening branches after the
\* rollback: see MCWorkflowOverlap.cfg.
FailedIsCleanAnyway == status = "failed" => Clean

\* Success is the success of one path through one version of the function: each
\* branch on it took effect once and was not undone.  Two runs at once that were
\* told different things may mark each other's branches as done; with functions
\* of three branches the workflow then ends without one of them.
SucceedIsWhole ==
  status = "succeed" /\ ~deployment.overlap =>
    \E v \in Versions : \E h \in DOMAIN Script[v] :
      /\ Script[v][h] = End
      /\ \A i \in 1 .. Len(h) :
           LET b == Script[v][SubSeq(h, 1, i - 1)].name
           IN did[b]["action"] = 1 /\ did[b]["compensate"] = 0

\* A confirmed abort holds: the run that was under way when it came cannot end
\* the workflow as a success (the compare in transition).
AbortHolds == [][status = "aborting" => status' = "failed"]_status

\* A result is recorded for the branch that produced it: no position takes over
\* the result, or marks the success, of a branch of another name, whatever code
\* replays it (Diverged in run_with).  Two runs at once that were told different
\* things may: run_with does not look at the outcome of its registration.
ResultsAreOwn ==
  ~deployment.overlap =>
    \A i \in Position : act[i].st = "succeed" => "action" \in rows[act[i].name]

\* What a run was told once, every later run is told: a recorded result stays.
\* Two runs at once may each record theirs.
Memoised ==
  [][~deployment.overlap =>
       \A i \in Position : act[i].st = "succeed" => act'[i] = act[i]]_act

=============================================================================
