------------------------------ MODULE Runtime ------------------------------
(***************************************************************************)
(* The transaction coordinator inside a host process: a handle that is     *)
(* opened, given handlers, started and closed (dtmrs-ffi, or Embedded in   *)
(* Rust), the task that runs the workers (Driver::run_until), and the ways *)
(* in which a branch reaches the host: an async Rust function, a callback  *)
(* on a blocking thread, or a task in a queue that the host pulls.  The    *)
(* process may die and come up again, with other handlers.                 *)
(*                                                                         *)
(* One transaction with one branch, of any of the five modes, goes through *)
(* all this; what the driver does next is taken from Core.  The store is   *)
(* SQL, so that a change of status compares first.  Leases hold here: what *)
(* happens when one runs out is in Lease and Saga.                         *)
(***************************************************************************)
EXTENDS Core, Sequences

CONSTANTS
  Kinds,        \* modes to look at, a subset of TransType
  Hosts,        \* "native" (Rust), "ffi", or both
  Loops,        \* workers (worker_loop)
  MaxInc,       \* how often a handle is opened
  MaxTasks,     \* tasks in the pull queue and with the host at a time
  CallbacksReturn \* does every callback return in the end?

ASSUME RuntimeAssumption ==
  /\ Kinds \subseteq TransType
  /\ Hosts \subseteq {"native", "ffi"}
  /\ MaxInc \in Nat /\ MaxTasks \in Nat
  /\ CallbacksReturn \in BOOLEAN

VARIABLES
  kind, host,   \* the transaction's mode, the kind of host
  life,         \* the handle
  inc,          \* handles opened so far
  reg,          \* how each name is reached through this handle
  driver,       \* the task of run_until: "none", "up" or "down"
  server,       \* the topic API: not served, served, at work on a request
  global, branch, \* the transaction in the store: its status, its row for each name
  wk,           \* each worker's locals
  thread,       \* host code running for each worker, on a thread of its own if ffi
  task, queue,  \* PullQueue: tasks by id, ids not yet taken by the host
  said,         \* history: what the host reported, and a branch it was refused
  aborted       \* history: was it aborted, by the caller or the time limit?

handle == <<life, inc, reg, driver, server>>
db == <<global, branch>>
calls == <<thread, task, queue>>
history == <<said, aborted>>
rtVars == <<kind, host, life, inc, reg, driver, server, global, branch, wk, thread, task, queue, said, aborted>>

\* What the branch does and undoes, and the check-back of a msg.
Name == {"go", "undo", "query"}
Uses == {"go", IF kind = "msg" THEN "query" ELSE "undo"}
Result == {"success", "failure", "ongoing", "unknown"}

Idle == [pc |-> "idle", st |-> "none", name |-> "none", task |-> 0, r |-> "none",
         to |-> "none"]
Gone == [Idle EXCEPT !.pc = "gone"]
NoThread == [runs |-> "none", opened |-> FALSE, err |-> "none"]
NoTask == [name |-> "none", at |-> "none"]
Unregistered == [n \in Name |-> "none"]

RuntimeTypeOK ==
  /\ kind \in Kinds /\ host \in Hosts
  /\ life \in {"none", "opened", "bricked", "running", "stopping", "draining", "closed"}
  /\ inc \in 0 .. MaxInc
  /\ reg \in [Name -> {"none", "native", "callback", "pull"}]
  /\ driver \in {"none", "up", "down"} /\ server \in {"none", "up", "busy"}
  /\ global \in GlobalStatus \cup {"absent"}
  /\ branch \in [{"go", "undo"} -> BranchStatus \cup {"none"}]
  /\ wk \in [Loops -> [pc : {"gone", "idle", "process", "calling", "settle", "finish"},
                       st : {"none", "prepared", "submitted", "aborting"},
                       name : Name \cup {"none"}, task : 0 .. MaxTasks,
                       r : Result \cup {"none"}, to : GlobalStatus \cup {"none"}]]
  /\ thread \in [Loops -> [runs : {"none", "handler", "function"}, opened : BOOLEAN,
                           err : {"none", "failure", "unknown"}]]
  /\ task \in [1 .. MaxTasks -> [name : Name \cup {"none"}, at : {"none", "queue", "host"}]]
  /\ queue \in Seq(1 .. MaxTasks)
  /\ said \subseteq (Name \cup {"function"}) \X {"success", "failure", "refused"}
  /\ aborted \in BOOLEAN
  \* the answer a worker waits for is the answer to its own call
  /\ \A w \in Loops : wk[w].task # 0 => task[wk[w].task].name = wk[w].name

RuntimeInit ==
  /\ kind \in Kinds /\ host \in Hosts
  /\ life = "none" /\ inc = 0 /\ reg = Unregistered /\ driver = "none" /\ server = "none"
  /\ global = "absent" /\ branch = [n \in {"go", "undo"} |-> "none"]
  /\ wk = [w \in Loops |-> Gone]
  /\ thread = [w \in Loops |-> NoThread]
  /\ task = [i \in 1 .. MaxTasks |-> NoTask] /\ queue = <<>>
  /\ said = {} /\ aborted = FALSE

-----------------------------------------------------------------------------
(***************************************************************************)
(* The handle: everything is registered before start, and a start that     *)
(* fails has used up what was registered.                                  *)
(***************************************************************************)

\* dtmrs_open, Embedded::builder.
Open ==
  /\ life \in {"none", "closed"} /\ inc < MaxInc
  /\ life' = "opened" /\ inc' = inc + 1
  /\ reg' = Unregistered /\ driver' = "none"
  /\ UNCHANGED <<kind, host, server, db, wk, calls, history>>

\* EmbeddedBuilder::handler, ::workflow.
Handler(n) ==
  /\ life = "opened" /\ host = "native"
  /\ reg' = [reg EXCEPT ![n] = "native"]
  /\ UNCHANGED <<kind, host, server, life, inc, driver, db, wk, calls, history>>

\* dtmrs_register, dtmrs_register_ex: a callback has precedence over a pull.
PushHandler(n) ==
  /\ life = "opened" /\ host = "ffi"
  /\ kind = "workflow" => n # "go"
  /\ reg' = [reg EXCEPT ![n] = "callback"]
  /\ UNCHANGED <<kind, host, server, life, inc, driver, db, wk, calls, history>>

RegisterPull(n) ==
  /\ life = "opened" /\ host = "ffi"
  /\ kind = "workflow" => n # "go"
  /\ reg' = [reg EXCEPT ![n] = IF @ = "callback" THEN @ ELSE "pull"]
  /\ UNCHANGED <<kind, host, server, life, inc, driver, db, wk, calls, history>>

\* Workflow functions are callbacks, there is no pulling them.
RegisterWorkflow ==
  /\ life = "opened" /\ host = "ffi" /\ kind = "workflow"
  /\ reg' = [reg EXCEPT !["go"] = "callback"]
  /\ UNCHANGED <<kind, host, server, life, inc, driver, db, wk, calls, history>>

\* EmbeddedBuilder::start: the driver is spawned, unless a static subscription
\* has no handler or the store does not open.
Spawn ==
  \/ life' = "running" /\ driver' = "up" /\ wk' = [w \in Loops |-> Idle]
  \/ life' = "bricked" /\ UNCHANGED <<driver, wk>>

\* dtmrs_start takes what was registered whether or not the start succeeds.
Start ==
  /\ life = "opened"
  /\ Spawn
  /\ UNCHANGED <<kind, host, server, inc, reg, db, calls, history>>

\* Embedded::serve_topic_api: subscribers may come, one at a time here.
ServeTopicApi ==
  /\ life = "running" /\ kind = "msg" /\ server = "none"
  /\ server' = "up"
  /\ UNCHANGED <<kind, host, life, inc, reg, driver, db, wk, calls, history>>

Request ==
  /\ life = "running" /\ server = "up"
  /\ server' = "busy"
  /\ UNCHANGED <<kind, host, life, inc, reg, driver, db, wk, calls, history>>

Responds ==
  /\ server = "busy" /\ life \in {"running", "stopping"}
  /\ server' = "up"
  /\ UNCHANGED <<kind, host, life, inc, reg, driver, db, wk, calls, history>>

-----------------------------------------------------------------------------
(***************************************************************************)
(* Shutting down.                                                          *)
(***************************************************************************)

\* Mutant of DropSet: the workers are tasks of their own, as with a list of
\* join handles.
DropSetDetached == UNCHANGED <<wk, thread>>

\* The JoinSet of run_until is dropped: every worker is cancelled where it is.
\* Threads go on; a queued task has nobody waiting for it any more.
DropSet ==
  /\ wk' = [w \in Loops |-> Gone]
  /\ thread' = IF host = "native" THEN [w \in Loops |-> NoThread] ELSE thread

\* A worker has ended: if told to, run_until waits for the others, if not it
\* ends and takes them with it.
JoinNext ==
  /\ driver = "up" /\ \E w \in Loops : wk[w] = Gone
  /\ driver' = "down"
  /\ \/ life = "stopping" /\ (\A w \in Loops : wk[w] = Gone) /\ UNCHANGED <<wk, thread>>
     \/ life # "stopping" /\ DropSet
  /\ UNCHANGED <<kind, host, server, life, inc, reg, db, task, queue, history>>

\* dtmrs_close, Embedded::shutdown: the workers are asked to stop.
Close ==
  /\ life \in {"opened", "bricked", "running"}
  /\ life' = IF life = "running" THEN "stopping" ELSE "closed"
  /\ UNCHANGED <<kind, host, server, inc, reg, driver, db, wk, calls, history>>

\* Mutant of ServerStops: the server is waited for however long it takes.
ServerStopsIdle ==
  /\ life = "stopping" /\ server = "up"
  /\ server' = "none"
  /\ UNCHANGED <<kind, host, life, inc, reg, driver, db, wk, calls, history>>

\* The server ends first, because it uses the store: by itself once no request
\* is under way, or aborted when SHUTDOWN_GRACE is over.
ServerStops ==
  /\ life = "stopping" /\ server # "none"
  /\ server' = "none"
  /\ UNCHANGED <<kind, host, life, inc, reg, driver, db, wk, calls, history>>

\* SHUTDOWN_GRACE is over: run_until is aborted.
GraceExpires ==
  /\ life = "stopping" /\ server = "none" /\ driver = "up"
  /\ driver' = "down"
  /\ DropSet
  /\ UNCHANGED <<kind, host, server, life, inc, reg, db, task, queue, history>>

\* run_until has ended and the store is closed.
ShutdownReturns ==
  /\ life = "stopping" /\ server = "none" /\ driver = "down"
  /\ life' = "draining"
  /\ UNCHANGED <<kind, host, server, inc, reg, driver, db, wk, calls, history>>

\* dtmrs_close drops the runtime, which waits for blocking threads; then the
\* handle is gone, and the queue with it.
Closed ==
  /\ life = "draining"
  /\ host = "ffi" => \A w \in Loops : thread[w] = NoThread
  /\ life' = "closed"
  /\ task' = [i \in 1 .. MaxTasks |-> NoTask] /\ queue' = <<>>
  /\ UNCHANGED <<kind, host, server, inc, reg, driver, db, wk, thread, history>>

\* The process dies.
Die ==
  /\ life \notin {"none", "closed"}
  /\ life' = "none" /\ driver' = "none" /\ reg' = Unregistered /\ server' = "none"
  /\ wk' = [w \in Loops |-> Gone]
  /\ thread' = [w \in Loops |-> NoThread]
  /\ task' = [i \in 1 .. MaxTasks |-> NoTask] /\ queue' = <<>>
  /\ UNCHANGED <<kind, host, inc, db, history>>

-----------------------------------------------------------------------------
(***************************************************************************)
(* What the host asks for.                                                 *)
(***************************************************************************)

\* Registry::check_all: a transaction whose local branches this handle does not
\* know is refused.
CheckLocal(names) == \A n \in names : reg[n] # "none"

Creates(s, r) == global = "absent" /\ global' = s /\ branch' = [n \in {"go", "undo"} |-> r]

SubmitSaga ==
  /\ life = "running" /\ kind = "saga" /\ CheckLocal(Uses)
  /\ Creates("submitted", "prepared")
  /\ UNCHANGED <<kind, host, handle, wk, calls, history>>

SubmitWorkflow ==
  /\ life = "running" /\ kind = "workflow" /\ CheckLocal({"go"})
  /\ Creates("submitted", "none")
  /\ UNCHANGED <<kind, host, handle, wk, calls, history>>

MsgPrepare ==
  /\ life = "running" /\ kind = "msg" /\ CheckLocal(Uses)
  /\ Creates("prepared", "prepared")
  /\ UNCHANGED <<kind, host, handle, wk, calls, history>>

TccBegin ==
  /\ life = "running" /\ kind = "tcc"
  /\ Creates("prepared", "none")
  /\ UNCHANGED <<kind, host, handle, wk, calls, history>>

XaBegin ==
  /\ life = "running" /\ kind = "xa"
  /\ Creates("prepared", "none")
  /\ UNCHANGED <<kind, host, handle, wk, calls, history>>

Registers ==
  /\ CheckLocal(Uses)
  /\ global \in {"prepared", "submitted"}
  /\ branch["go"] = "none"
  /\ branch' = [n \in {"go", "undo"} |-> "prepared"]

TccRegister ==
  /\ life = "running" /\ kind = "tcc"
  /\ Registers
  /\ UNCHANGED <<kind, host, handle, global, wk, calls, history>>

XaRegister ==
  /\ life = "running" /\ kind = "xa"
  /\ Registers
  /\ UNCHANGED <<kind, host, handle, global, wk, calls, history>>

Submit ==
  /\ life = "running" /\ global = "prepared"
  /\ global' = "submitted"
  /\ UNCHANGED <<kind, host, handle, branch, wk, calls, history>>

Abort ==
  /\ life = "running"
  /\ global = IF kind \in {"saga", "workflow"} THEN "submitted" ELSE "prepared"
  /\ global' = "aborting"
  /\ aborted' = TRUE
  /\ UNCHANGED <<kind, host, handle, branch, wk, calls, said>>

-----------------------------------------------------------------------------
(***************************************************************************)
(* The workers.                                                            *)
(***************************************************************************)
EndRound(w) == wk' = [wk EXCEPT ![w] = Idle]

\* worker_loop looks at the stop flag at the head of each round.
LockOne(w) ==
  /\ wk[w].pc = "idle" /\ life = "running"
  /\ \A v \in Loops : wk[v].pc \in {"idle", "gone"}
  /\ Schedulable(global, kind)
  /\ wk' = [wk EXCEPT ![w].pc = "process", ![w].st = global]
  /\ UNCHANGED <<kind, host, handle, db, calls, history>>

Stop(w) ==
  /\ wk[w].pc = "idle" /\ life = "stopping"
  /\ wk' = [wk EXCEPT ![w] = Gone]
  /\ UNCHANGED <<kind, host, handle, db, calls, history>>

\* What is to be done about a transaction whose status is st.
Advance(st) ==
  LET go == <<branch["go"]>>
      undo == <<branch["undo"]>>
      fanout == MsgFanoutAdvance(st, {<<1, "go">>},
                                 IF branch["go"] = "succeed" THEN {<<1, "go">>} ELSE {})
  IN CASE kind = "saga" -> SagaAdvance(st, go, undo)
       [] kind = "workflow" ->
            WorkflowAdvance(st, <<IF branch["undo"] = "none" THEN "succeed" ELSE branch["undo"]>>)
       [] kind = "msg" -> IF fanout.each # {} THEN Call("action", 1) ELSE Finish(fanout.to)
       [] kind \in {"tcc", "xa"} /\ branch["go"] = "none" ->
            Finish(IF st = "aborting" THEN "failed" ELSE "succeed")
       [] kind = "tcc" /\ branch["go"] # "none" -> TccAdvance(st, go, undo)
       [] kind = "xa" /\ branch["go"] # "none" -> XaAdvance(st, go, undo)

\* PullQueue::dispatch: an id nobody uses, into the queue, and wait.
Dispatch(w, n, i) ==
  /\ task[i] = NoTask
  /\ task' = [task EXCEPT ![i] = [name |-> n, at |-> "queue"]]
  /\ queue' = Append(queue, i)
  /\ wk' = [wk EXCEPT ![w].pc = "calling", ![w].name = n, ![w].task = i]
  /\ UNCHANGED thread

\* call_local: what this process has no handler for has an unknown result.
CallLocal(w, n) ==
  \/ /\ reg[n] = "none"
     /\ wk' = [wk EXCEPT ![w].pc = "settle", ![w].name = n, ![w].r = "unknown"]
     /\ UNCHANGED calls
  \/ /\ reg[n] \in {"native", "callback"}
     /\ wk' = [wk EXCEPT ![w].pc = "calling", ![w].name = n]
     /\ thread' = [thread EXCEPT ![w].runs =
                     IF kind = "workflow" /\ n = "go" THEN "function" ELSE "handler"]
     /\ UNCHANGED <<task, queue>>
  \/ reg[n] = "pull" /\ \E i \in 1 .. MaxTasks : Dispatch(w, n, i)

\* Driver::process.
Process(w) ==
  LET st == wk[w].st
      d == Advance(st)
      n == IF d.op \in {"compensate", "cancel", "rollback"} THEN "undo" ELSE "go"
  IN /\ wk[w].pc = "process"
     /\ \/ st = "prepared" /\ kind = "msg" /\ CallLocal(w, "query")
        \/ st # "prepared" /\ d.kind \in {"call", "run"} /\ CallLocal(w, n)
        \/ /\ st # "prepared" /\ d.kind = "finish"
           /\ wk' = [wk EXCEPT ![w].pc = "finish", ![w].to = d.to]
           /\ UNCHANGED calls
     /\ UNCHANGED <<kind, host, handle, db, history>>

\* A tcc or xa found prepared: rolled back if its time is up, else put back.
PreparedTimeout(w) ==
  /\ wk[w].pc = "process" /\ wk[w].st = "prepared" /\ kind \in {"tcc", "xa"}
  /\ IF global = "prepared"
     THEN /\ global' = "aborting" /\ aborted' = TRUE
          /\ wk' = [wk EXCEPT ![w].st = "aborting"]
     ELSE EndRound(w) /\ UNCHANGED <<global, aborted>>
  /\ UNCHANGED <<kind, host, handle, branch, calls, said>>

PutBack(w) ==
  /\ wk[w].pc = "process" /\ wk[w].st = "prepared" /\ kind \in {"tcc", "xa"}
  /\ EndRound(w)
  /\ UNCHANGED <<kind, host, handle, db, calls, history>>

\* The result is recorded, in each mode's way.
Settle(w) ==
  LET r == wk[w].r
      n == wk[w].name
      next == [Idle EXCEPT !.pc = "process", !.st = wk[w].st]
      finish(s) == wk' = [wk EXCEPT ![w].pc = "finish", ![w].to = s]
      record(s) == branch' = [branch EXCEPT ![n] = s]
  IN /\ wk[w].pc = "settle"
     /\ \/ /\ r = "success" /\ n = "query"
           /\ finish("submitted") /\ UNCHANGED branch
        \/ /\ r = "failure" /\ n = "query"
           /\ finish("failed") /\ UNCHANGED branch
        \/ /\ r = "success" /\ n = "go" /\ kind = "workflow"
           /\ finish("succeed") /\ UNCHANGED branch
        \/ /\ r = "failure" /\ n = "go" /\ kind = "workflow"
           /\ finish("aborting") /\ UNCHANGED branch
        \/ /\ r = "success" /\ n \in {"go", "undo"} /\ ~(n = "go" /\ kind = "workflow")
           /\ record("succeed") /\ wk' = [wk EXCEPT ![w] = next]
        \/ /\ r = "failure" /\ n = "go" /\ kind = "saga"
           /\ record("failed") /\ finish("aborting")
        \/ /\ r = "failure" /\ n = "undo" /\ kind = "saga"
           /\ record("failed") /\ EndRound(w)
        \/ /\ r = "failure" /\ n \in {"go", "undo"} /\ kind \in {"tcc", "xa"}
           /\ record("failed") /\ EndRound(w)
        \/ /\ \/ r \in {"ongoing", "unknown"}
              \/ r = "failure" /\ (kind = "msg" \/ kind = "workflow") /\ n # "query"
                               /\ ~(n = "go" /\ kind = "workflow")
           /\ EndRound(w) /\ UNCHANGED branch
     /\ UNCHANGED <<kind, host, handle, global, calls, history>>

\* Driver::transition: if the status is still the one the worker knows.
FinishRound(w) ==
  LET to == wk[w].to
  IN /\ wk[w].pc = "finish"
     /\ IF global = wk[w].st
        THEN /\ global' = to
             /\ IF to \in {"submitted", "aborting"}
                THEN wk' = [wk EXCEPT ![w] = [Idle EXCEPT !.pc = "process", !.st = to]]
                ELSE EndRound(w)
        ELSE EndRound(w) /\ UNCHANGED global
     /\ UNCHANGED <<kind, host, handle, branch, calls, history>>

-----------------------------------------------------------------------------
(***************************************************************************)
(* The host's side of a call.                                              *)
(***************************************************************************)

\* to_branch_result: codes it does not know mean that nothing is known.
ToBranchResult(code) ==
  CASE code = 0 -> "success"
    [] code = 1 -> "failure"
    [] code = 2 -> "ongoing"
    [] OTHER -> "unknown"

Codes == {0, 1, 2, 3, 9}

\* What the host means by a code, and has therefore said.
Meant(code) ==
  IF code \in {0, 1} THEN (IF code = 0 THEN "success" ELSE "failure") ELSE "unknown"

Answered(w, r) == wk' = [wk EXCEPT ![w].pc = "settle", ![w].task = 0, ![w].r = r]
Says(n, r) == said' = IF r \in {"success", "failure"} THEN said \cup {<<n, r>>} ELSE said
ThreadEnds(w) == thread' = [thread EXCEPT ![w] = NoThread]

Calls(w) == wk[w].pc = "calling" /\ thread[w].runs = "handler"

\* A Rust handler returns ...
NativeReturns(w, r) ==
  /\ Calls(w) /\ host = "native"
  /\ Answered(w, r) /\ Says(wk[w].name, r) /\ ThreadEnds(w)
  /\ UNCHANGED <<kind, host, handle, db, task, queue, aborted>>

\* ... or panics, and the worker with it: except that the calls of a msg are
\* tasks of their own.  So does a workflow function.
NativePanics(w) ==
  /\ wk[w].pc = "calling" /\ host = "native" /\ ThreadEnds(w)
  /\ IF kind = "msg" /\ wk[w].name = "go" THEN Answered(w, "unknown")
     ELSE wk' = [wk EXCEPT ![w] = Gone]
  /\ UNCHANGED <<kind, host, handle, db, task, queue, history>>

\* call_host: a callback returns a code ...
CallbackReturns(w, c) ==
  /\ Calls(w) /\ host = "ffi"
  /\ Answered(w, ToBranchResult(c)) /\ Says(wk[w].name, Meant(c)) /\ ThreadEnds(w)
  /\ UNCHANGED <<kind, host, handle, db, task, queue, aborted>>

\* ... or it, or a function, ends without being heard, its worker cancelled.
EndsUnheard(w) ==
  /\ thread[w].runs # "none" /\ wk[w] = Gone
  /\ ThreadEnds(w)
  /\ UNCHANGED <<kind, host, handle, db, wk, task, queue, history>>

\* dtmrs_next_task: the oldest task goes to the host.  If the host's buffer
\* is too small the task is answered with UNKNOWN.
NextTask ==
  /\ life = "running" /\ queue # <<>>
  /\ queue' = Tail(queue)
  /\ task' = [task EXCEPT ![Head(queue)].at = "host"]
  /\ UNCHANGED <<kind, host, handle, db, wk, thread, history>>

Waiting(i) == {w \in Loops : wk[w].pc = "calling" /\ wk[w].task = i}

NextTaskTooSmall ==
  /\ life = "running" /\ queue # <<>>
  /\ queue' = Tail(queue)
  /\ task' = [task EXCEPT ![Head(queue)] = NoTask]
  /\ \/ \E w \in Waiting(Head(queue)) : Answered(w, "unknown")
     \/ Waiting(Head(queue)) = {} /\ UNCHANGED wk
  /\ UNCHANGED <<kind, host, handle, db, thread, history>>

\* Mutant of Reply: for whoever waits for an answer, not for this very task.
ReplyToAnyone(i, c) ==
  LET waiting == UNION {Waiting(j) : j \in 1 .. MaxTasks}
  IN /\ life = "running" /\ task[i].at = "host"
     /\ task' = [task EXCEPT ![i] = NoTask]
     /\ Says(task[i].name, Meant(c))
     /\ \/ \E w \in waiting : Answered(w, ToBranchResult(c))
        \/ waiting = {} /\ UNCHANGED wk
     /\ UNCHANGED <<kind, host, handle, db, thread, queue, aborted>>

\* dtmrs_reply: the answer is for whoever waits for this very task; a task
\* whose call has timed out is not waited for.
Reply(i, c) ==
  /\ life = "running" /\ task[i].at = "host"
  /\ task' = [task EXCEPT ![i] = NoTask]
  /\ Says(task[i].name, Meant(c))
  /\ \/ \E w \in Waiting(i) : Answered(w, ToBranchResult(c))
     \/ Waiting(i) = {} /\ UNCHANGED wk
  /\ UNCHANGED <<kind, host, handle, db, thread, queue, aborted>>

\* PULL_REPLY_TIMEOUT: the call is given up.  The task stays where it is.
PullTimeout(w) ==
  /\ wk[w].pc = "calling" /\ wk[w].task # 0
  /\ Answered(w, "unknown")
  /\ UNCHANGED <<kind, host, handle, db, calls, history>>

-----------------------------------------------------------------------------
(***************************************************************************)
(* A workflow function, native or as a callback, opens its one branch and  *)
(* returns.                                                                *)
(***************************************************************************)
Heard(w) == wk[w].pc = "calling"

\* dtmrs_wf_branch: a branch that has succeeded is not run again; otherwise its
\* compensation is registered, its body runs, and if it does not succeed that
\* is remembered and no branch runs any more.  A function whose worker has been
\* cancelled goes on in the same way as long as the store is open.
WfBranch(w, r) ==
  /\ thread[w].runs = "function" /\ thread[w].err = "none"
  /\ Heard(w) \/ life = "stopping"
  /\ IF branch["go"] = "succeed"
     THEN thread' = [thread EXCEPT ![w].opened = TRUE] /\ UNCHANGED <<branch, said>>
     ELSE /\ Says("go", r)
          /\ branch' = [go |-> CASE r = "success" -> "succeed" [] r = "failure" -> "failed"
                              [] OTHER -> "prepared",
                     undo |-> IF branch["undo"] = "none" THEN "prepared" ELSE branch["undo"]]
          /\ thread' = [thread EXCEPT ![w].opened = TRUE,
                                      ![w].err = CASE r = "success" -> "none"
                                                   [] r = "failure" -> "failure"
                                                   [] OTHER -> "unknown"]
  /\ UNCHANGED <<kind, host, handle, global, wk, task, queue, aborted>>

\* A call without a name, or without a body, is refused and nothing remembered.
WfBranchRefused(w) ==
  /\ host = "ffi" /\ thread[w].runs = "function" /\ thread[w].err = "none"
  /\ thread' = [thread EXCEPT ![w].opened = TRUE]
  /\ said' = said \cup {<<"go", "refused">>}
  /\ UNCHANGED <<kind, host, handle, db, wk, task, queue, aborted>>

\* run_host_workflow: what a branch came to counts, not what the function says.
FunctionResult(w, c) ==
  IF thread[w].err # "none" THEN thread[w].err ELSE ToBranchResult(c)

FunctionReturns(w, c) ==
  /\ thread[w].runs = "function" /\ thread[w].opened /\ Heard(w)
  /\ Answered(w, FunctionResult(w, c)) /\ Says("function", Meant(c)) /\ ThreadEnds(w)
  /\ UNCHANGED <<kind, host, handle, db, task, queue, aborted>>

-----------------------------------------------------------------------------
RuntimeNext ==
  \/ Open \/ RegisterWorkflow \/ Start \/ JoinNext \/ Close \/ GraceExpires
  \/ ShutdownReturns \/ Closed \/ Die
  \/ ServeTopicApi \/ Request \/ Responds \/ ServerStops
  \/ \E n \in Uses : Handler(n) \/ PushHandler(n) \/ RegisterPull(n)
  \/ SubmitSaga \/ SubmitWorkflow \/ MsgPrepare \/ TccBegin \/ XaBegin
  \/ TccRegister \/ XaRegister \/ Submit \/ Abort
  \/ \E w \in Loops :
       \/ LockOne(w) \/ Stop(w) \/ Process(w) \/ PreparedTimeout(w) \/ PutBack(w)
       \/ Settle(w) \/ FinishRound(w)
       \/ NativePanics(w) \/ EndsUnheard(w) \/ PullTimeout(w) \/ WfBranchRefused(w)
       \/ \E r \in Result : NativeReturns(w, r) \/ WfBranch(w, r)
       \/ \E c \in Codes : CallbackReturns(w, c) \/ FunctionReturns(w, c)
  \/ NextTask \/ NextTaskTooSmall
  \/ \E i \in 1 .. MaxTasks, c \in Codes : Reply(i, c)

RuntimeSpec == RuntimeInit /\ [][RuntimeNext]_rtVars

\* What the driver and the runtime do by themselves happens.  A host that is
\* asked again and again says yes at some time, while the handle is running; a
\* callback always returns if CallbacksReturn says so, even when nobody listens.
Answers(w) ==
  /\ life = "running"
  /\ \/ NativeReturns(w, "success") \/ CallbackReturns(w, 0) \/ FunctionReturns(w, 0)
     \/ \E i \in 1 .. MaxTasks : w \in Waiting(i) /\ Reply(i, 0)

Fairness ==
  /\ WF_rtVars(JoinNext) /\ WF_rtVars(GraceExpires) /\ WF_rtVars(ShutdownReturns) /\ WF_rtVars(Closed)
  /\ WF_rtVars(ServerStops)
  /\ WF_rtVars(NextTask) /\ \A i \in 1 .. MaxTasks : WF_rtVars(\E c \in Codes : Reply(i, c))
  /\ \A w \in Loops :
       /\ WF_rtVars(LockOne(w) \/ Process(w) \/ Settle(w) \/ FinishRound(w) \/ Stop(w))
       /\ SF_rtVars(PreparedTimeout(w))
       /\ SF_rtVars(Answers(w)) /\ SF_rtVars(life = "running" /\ WfBranch(w, "success"))
       /\ CallbacksReturn => WF_rtVars(EndsUnheard(w))

FairSpec == RuntimeSpec /\ Fairness

-----------------------------------------------------------------------------
(***************************************************************************)
(* What should hold.                                                       *)
(***************************************************************************)

\* Only what the host really said moves a transaction: it succeeds because the
\* branch succeeded (or its function went on without it, see ErrorCounts), it is
\* turned round because it was aborted or the host said failure, and its
\* compensation counts as done because the host answered that very call.
\* Handlers missing after a restart, time limits, buffers too small, codes nobody
\* knows, panics and answers to calls given up prove nothing (call_local,
\* to_branch_result, PullQueue, run_host_workflow).  A tcc or xa branch that is
\* registered after submit may be missed: that is looked at in TwoPhase and Xa.
OnlyHostDecides ==
  /\ global = "succeed" =>
       \/ {<<"go", "success">>, <<"go", "refused">>} \cap said # {}
       \/ kind \in {"tcc", "xa"} /\ branch["go"] # "succeed"
  /\ global \in {"aborting", "failed"} =>
       aborted \/ \E n \in {"go", "query", "function"} : <<n, "failure">> \in said
  /\ global = "failed" /\ branch["undo"] # "none" /\ kind # "msg" =>
       <<"undo", "success">> \in said \/ (kind = "saga" /\ <<"undo", "failure">> \in said)

\* The comment on WorkflowFn: once dtmrs_wf_branch has returned an error, what
\* the function returns does not count.  A call refused for its arguments is
\* such an error, and is forgotten: see MCRuntimeWf.cfg.
ErrorCounts == global = "succeed" /\ kind = "workflow" => <<"go", "success">> \in said

\* Once run_until has ended, or the handle is closed, no worker of this process
\* drives any more, and after dtmrs_close no host code runs for it: the next
\* handle does not meet the workers of the last one.  The topic API has let go of
\* the store before it is closed.
QuietAfterClose ==
  /\ life \notin {"running", "stopping"} => server = "none"
  /\ driver # "up" => \A w \in Loops : wk[w] = Gone
  /\ life = "closed" => \A w \in Loops : thread[w] = NoThread

\* dtmrs_close and Embedded::shutdown return, whatever the handlers do and
\* whether or not anybody replies or a subscriber's request ever ends.
CloseReturns == life = "stopping" ~> life \notin {"stopping", "draining"}

\* A handle that stays up with every handler registered, and whose host keeps
\* up with the pull queue, brings every transaction to its end, whichever
\* handle or process it was begun in.
Served == life = "running" /\ driver = "up" /\ \A n \in Uses : reg[n] # "none"
KeepsUp == [][~NextTaskTooSmall /\ \A w \in Loops : ~PullTimeout(w)]_rtVars
Terminates ==
  <>[]Served /\ <>KeepsUp => (global # "absent" ~> IsFinal(global))

=============================================================================
