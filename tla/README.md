# dtmrs: a TLA+ verification project

dtmrs is a distributed transaction coordinator (TC): a caller submits a saga, TCC, XA, msg or
workflow transaction, the TC writes it to a store and drives its branches over HTTP, gRPC or
in-process calls until it has succeeded or been rolled back. This directory holds TLA+ modules
translated from the Rust code, TLC configurations that model-check them, and TLAPS proofs.

## 1. Inventory

| Part | Code | State | Operations |
|---|---|---|---|
| State machines | `dtmrs-core` | none (pure) | `saga_advance`, `tcc_advance`, `xa_advance`, `msg_fanout_advance`, `workflow_advance`, `expand_msg_steps`, `from_http`, `from_grpc`, `status_contested`, `next_interval_with`, `prepared_deadline` |
| Driver | `server/driver.rs` | locals of a round: the row as locked, the reply awaited | `run_until`, `worker_loop`, `process` and one `process_*` per mode, `call_branch`, `transition`, `retry_later` |
| API | `server/api.rs` | none; optional inline driver | `submit`, `prepare`, `register_branch`, `abort`, `retry`, topics, queries |
| SQL store | `store/lib.rs` | `trans_global`, `trans_branch_op`, topics, tokens | `create_global`, `transition`, `set_branch_status`, `lock_one_due`, `release_lease`, `schedule_now`, `submit_prepared`, `register_branch_with` |
| Redis store | `store/redis_store.rs` | hashes per transaction, a schedule index (sorted set), TTLs | the same, as Lua scripts |
| SQL barrier | `dtmrs-barrier/lib.rs` | barrier rows in the branch's database | `decide`, `insert` |
| Redis barrier | `dtmrs-barrier/redis_barrier.rs` | barrier keys, with a TTL | `call`, `check_adjust_amount`, `query_prepared` |
| Embedded TC, FFI | `server/embedded.rs`, `registry.rs`, `dtmrs-ffi` | handlers, driver task, topic server, pull queue, life of the handle | open, register, start, submissions, `dtmrs_next_task`, `dtmrs_task_reply`, workflow functions, `shutdown`, `dtmrs_close` |
| Workflow | `server/workflow.rs` | recorded branch results | replay of a user function |
| XA helper | `dtmrs-xa` | prepared transactions of the databases | begin, prepare, discard, resolve |
| Authentication | `server/auth.rs` | token table, a cached list per instance, sessions | `managed_ok`, issue, revoke, `invalidate_cache` |
| HTTP, gRPC, alerts, dialects, `main` | | | decoding, wiring, text |

Interaction. The caller talks to the API; the API and the workers meet only in the store; the
workers call the branches; the branches keep their barrier rows in their own databases. A worker
takes a transaction by writing a lease into its row (`lock_one_due`), works from the copy it got
then, writes the status with a compare-and-set (`Driver::transition`), and gives the lease back
with `release_lease`. With inline submission, which is on by default, the API process drives what
it has just submitted without going through the lock. An embedded TC calls handlers in its own
process, or hands calls to a host language through callbacks and a pull queue.

What is hard:

- *stale workers*: a lease may run out while its holder still drives; both act on the row, with
  different copies of its status;
- *unreliable calls*: a branch call that timed out may have run, may run later, may run twice, and
  may arrive after the compensation that was meant to undo it;
- *racing decisions*: abort, submit, the prepared timeout, the check-back and the driver all change
  the status;
- *crashes* between a branch's effect and its record, between an abort's two store calls, of the
  caller between its local transaction and submit, of a participant with a prepared database
  transaction, of a user function between two of its steps;
- *second copies*: the Redis schedule index beside the rows, the topic index beside the topics, the
  recorded results beside the code that is replayed, the cached tokens beside the token table;
- *time*: leases, due times and back-offs share two columns counted in whole seconds; barrier keys
  and finished rows expire;
- *shutdown* while handlers run, replies are outstanding and subscribers are connected.

Properties that make each part correct: a saga has all of its effects or none, in order and taken
back in reverse; an accepted abort is never lost; a TCC or XA transaction goes one way for every
branch; a message is delivered, once and in the order of its steps, if and only if the local
transaction committed; a workflow step keeps its result and a failed workflow leaves nothing;
every transaction under way is taken up again and ends; a lease excludes other leases and is freed
only by its holder; the barrier makes each op take effect at most once and never after its
compensation; the Redis store is the same store as the SQL one; only what a host said decides;
closing returns and leaves nothing running; a revoked token is refused soon everywhere.

## 2. Modules

| Module | Models | Composition |
|---|---|---|
| `Core` | `dtmrs-core`: status sets, the advance functions of the five modes, topic expansion, what an answer means, `status_contested`, back-off, deadline; `schedulable` | extended by all but `Auth` |
| `Barrier` | `Barrier::decide` as a function on the set of ops that own a row | used by `Saga`, `TwoPhase`, `Msg`, `Workflow`, `RedisBarrier` |
| `GlobalTx` | abstract: what a saga promises its caller | implemented by `Saga` |
| `Commitment` | abstract: what TCC and XA promise, an atomic commitment that is decided once | implemented by `TwoPhase` and by `Xa` |
| `Saga` | `process_saga`, `submit`, `abort`, locking, the branches | `Core` + `Barrier` |
| `Lease` | scheduling of one row under a clock: `lock_one_due`, `release_lease`, `schedule_now`, `submit_prepared`, `retry`, `abort` | `Core` |
| `TwoPhase` | TCC: `prepare`, `register_branch`, `Tcc::try_branch`, `submit`, `abort`, prepared timeout, `drive_two_phase` | `Core` + `Barrier` |
| `Msg` | prepare, local transaction, submit, abort, check-back, fan-out and delivery of one message; subscriptions of the topic it goes to | `Core` + `Barrier` |
| `Workflow` | `process_workflow`, `run_with` with replay, registration and recording; the user's function as a decision tree in several versions | `Core` + `Barrier` |
| `Store` | abstract: what a store promises about `trans_global` | implemented by `RedisStore` |
| `RedisStore` | the Lua scripts and MULTIs on several transactions, with index and TTLs | `Core` |
| `RedisBarrier` | the Redis barrier's scripts around stock adjustments, under sagas and messages | `Core` + `Barrier` |
| `Xa` | participants with `dtmrs-xa`, their databases, the caller, the timeout, `drive_two_phase` | `Core` |
| `Runtime` | life cycle of the embedded TC and the FFI handle, handlers of all kinds, the topic server | `Core` |
| `Auth` | the token table, the cached lists, the consoles | |
| `CoreProofs` | lemmas about the advance functions | extended by the other proof modules |
| `SagaProofs`, `TwoPhaseProofs`, `XaProofs`, `MsgProofs`, `WorkflowProofs` | theorems about the module of that name | `CoreProofs` |
| `RedisProofs` | theorems about `RedisStore` and about `RedisBarrier` | `CoreProofs` |
| `ServiceProofs` | theorems about `Lease`, about `Runtime` and about `Auth` | `CoreProofs` |
| `MC*` | TLC instances | |

**State and steps.** An action is one access to shared state: a store statement or script, or the
execution of one call at a branch. In `Saga` the variables `status`, `lease`, `action`,
`compensate` are the rows; `pc`, `st`, `job`, `reply` are a worker's locals in `process_saga`
(`st` is its `status`, `job` the `Advance` value); `sent` is every call ever sent; `rows`, `acted`,
`undone` are the branches' side. One turn of the driver's loop is `Advance` (read the branch rows,
decide, send), `Execute` (the branch runs the call behind the barrier), and `BranchSucceeded`,
`ActionFailed`, `CompensateFailed` or `NoAnswer` (the match on `BranchResult`); `ExecuteStray`
executes any call ever sent, at any time and any number of times, which covers timeouts, delays and
duplicates. `Crash` drops a worker's locals and leaves the row alone. `TwoPhase` has the same
shape, with the caller's program counter `client`, `RegisterRead`/`RegisterWrite` for the two store
calls of `register_branch`, and `SubmitRead`/`SubmitWrite` for the two statements of the SQL
`submit_prepared` (`SubmitAtomic` for the Redis script); `DriveDetached` starts the API's inline
driver. `deployment` says which store is used and whether the API drives inline. `Msg` and `Xa`
submit in the same way. In all three an abort comes from anyone at any time, before a submit, between
its two statements or after it; the caller may fall silent at any point.

The other driving modules follow the same plan, with a worker's locals in one record `wk[w]`:

- `Msg`: `key` is the barrier key over which the local transaction and the check-back compete;
  `told` is what the API has confirmed, to the caller (who may submit again if it got no answer) and
  to whoever aborts. `Advance` sends a whole step, `Deliver`,
  `NotDelivered` and `Record` happen branch by branch, `Joined` is the end of the join. The
  subscription actions are a store call each, and `PrepareRead`/`PrepareWrite` are the reading of
  the subscriptions and the writing of the expanded message.
- `Workflow`: `act` and `comp` are the two branch rows of each position; `seen` is what the
  function has been told in this run, and `Script` says what it does next. `Replay` is the lookup in
  the rows read at the start, with the check of the name; `RegisterSql` writes both rows at once,
  `RegisterRedis` one after the other. A process that crashes comes up with any version.
- `Xa`: `xact` is each branch's transaction in its database and `part` the participant's program.
  `Disconnect` is what a database does with a session that dies: what is prepared stays.
- `RedisStore`: `hash`, `branch`, `index`, `recent` are the keys and `ttl` their expiry. `Abort` and
  `ScheduleNow` are two steps, as in the code. Each worker's `copy` is what `Store` calls the row in
  hand.
- `RedisBarrier`: `keys` are the barrier keys, `stock` the business key, `taken` what each
  transaction really holds.
- `Runtime`: `global` and `branch` are the rows of the transaction, `Loops` the workers (`worker_loop`)
  of the driver; `life` goes from opened through running, stopping (`shutdown`) and draining (the
  runtime waits for its blocking threads) to closed; `thread` is host code running for a worker;
  `task` and `queue` are `PullQueue`; `said` is the history of what the host reported. `DropSet` is
  the drop of the `JoinSet` when `run_until` ends or is aborted.
- `Auth`: a check of a request is `Present` (is the copy old?), the reading of the list (`ListSql`,
  or `SMembers` and one `HGetAll` per token), `StoreList` or `ListFails`, and `Answer`. `clock` is the
  monotonic clock, up to `MaxClock`.

`RedisStore` and `RedisBarrier`, and `Lease`, `Runtime` and `Auth`, are extended by one proof module
each, so their names are kept apart (`BarrierSpec`, `RuntimeSpec`, `AuthSpec`); they share no state.

**Data left out.** Payloads, URLs, reasons, retry counts and owners; branch ids are 1..N, where the
code's vectors count from 0. A transaction's rows are independent of any other's, so one
transaction is modelled, except in `RedisStore` (they share the index) and `RedisBarrier` (they
share the stock). In `Saga`, `TwoPhase`, `Msg`, `Workflow` and `Xa` time is left out: a lease may
run out at any moment, so exclusion is not relied on (in `Workflow` the deployment says whether it
may, as some of its properties need the lease); `Lease` keeps the clock and reduces the drive to the status it may write. `Lease` folds
workflow into "saga" (both start as submitted) and XA into "tcc"; in `Runtime` leases hold.

**What branches are assumed to do.** They put the barrier in front of their business logic, in one
database transaction (or script), with one barrier id per call; on SQL an answer of FAILURE means
that transaction was rolled back. An action or try may fail for business reasons; compensations may
only if `CompensateMayFail`; second-phase ops of a TCC always may. In `Xa` there is no barrier: the
databases' own knowledge of prepared transactions takes its place. In `Workflow` services tell
branches apart by name.

## 3. Runs

| Run | Instance | States | Checks |
|---|---|---|---|
| `saga` | 3 steps, 2 workers, SQL | 76,000 | `Atomicity`, `StepOrder`, refinement of `GlobalTx` (`Implements`) |
| `saga_live` | 1 step, 2 workers, Redis, failing compensations, fairness | 11,000 | `SucceedIsWhole`, `StatusForward`, `Terminates` (unless a compensation answered FAILURE) |
| `lease` | saga, TCC and msg rows, 2 workers, clock to 6 | 400,000 | `Exclusive`, `RequestKept`, `DueAgain`, `ReleasesOwn` |
| `two_phase` | 2 branches, 2 workers, SQL without inline, Redis with and without | 69,000 | `OneDirection`, `DecidedIsWhole`, refinement of `Commitment` (`Implements`) |
| `two_phase_sql` | 1 branch, 2 workers, SQL with inline | | violated: section 5 |
| `msg` | a topic with up to 2 subscribers, alone or before a second step, 2 workers, SQL with and without inline, Redis with, fairness | 81,000 | `ListingIsWhole`, `OnlyIfCommitted`, `DeliveredIsWhole`, `StepOrder`, `SubmitHolds`, `Delivered` |
| `workflow` | 2 branches out of 4, 2 versions of the function on SQL, 1 on Redis, there also with overlapping runs, 2 workers | 1.7 million | `FailedIsClean`, `SucceedIsWhole`, `ResultsAreOwn`, `Memoised`, `AbortHolds` |
| `redis_store` | a saga and a TCC transaction, 2 workers, clock to 4, scan limit 1 | 940,000 | `IndexExact`, `Reclaimed`, refinement of `Store` (`Implements`) |
| `redis_barrier` | 2 sagas and a message on 1 piece, 1 may be added | 380,000 | `ConservedUnlessRefused`, `NothingLost` |
| `xa` | 2 branches, 1 worker, SQL without inline, Redis with, fairness | 101,000 | `AllOrNothing`, `RecordedIsCommitted`, `DecidedIsWhole`, refinement of `Commitment` (`Implements`), `Resolved` |
| `runtime` | all 5 modes, both hosts, 1 worker, 2 handles, 2 tasks, fairness | 310,000 | `OnlyHostDecides`, `QuietAfterClose`, `CloseReturns`, `Terminates` |
| `auth` | 1 token, 2 instances, 2 checks at a time, both stores, clock to 4 | 3.1 million | `InForce`, `AtOnce` |

**Bounds.** Two workers are enough for one stale and one current driver; each may crash and start
again any number of times, so more than two lease hand-overs happen. Three saga steps give a first,
a middle and a last branch, needed for the order properties. In `lease`, leases last 2 seconds,
back-offs 1 to 3 and the clock stops at 6 (`MaxNow`), so two leases in a row run out and a third
can begin; `NEVER` is any value past the clock. In `msg` a topic of two in front of a plain address
is the least in which a step has several branches and another step follows. The workflow's function
chooses its second branch by the first one's result, and the other version puts a branch of the
first into another place, so that a replay meets a row of another name. `redis_store` needs two
transactions for a lock that passes over one of them, and leases (2), back-offs (1) and TTLs (2)
all run out before the clock stops. `redis_barrier` has more buyers than pieces, so that scripts
refuse. `xa` has one worker, which crashes and comes back with strays of its former self still under
way and is also the detached driver of a submit; two branches suffice for a hole and for a
disagreement. A store with inline driving does all that it does without, so that Redis without
inline is left out of `msg` and `xa`. `runtime` opens two handles, so that
a transaction begun in one is finished in the next, with tasks of the first still in the host's
hands. `auth` lets a list take 1 and the copy live 2 units, and two lists overlap. Workers are
symmetric, and symmetry is used in safety runs only. Deadlock is checked for sagas, where a late
call may always arrive, and for `Auth`; elsewhere a transaction at rest, or the end of the clock, is
a legal end.

**Fairness.** `Saga`: leases run out; a worker keeps polling (`worker_loop` never returns while
the process runs) and finishes rounds it begins unless it crashes in every one of them (strong
fairness of the steps of a round); a branch called again and again executes and answers. `Msg` and
`Xa` ask this of one worker only: the others may stop for good. A check-back that is asked again and
again answers in the end, receivers and second-phase handlers that are called again and again
succeed in the end, which the driver itself relies on by retrying for ever, and the deadline of a
prepared transaction comes. `Runtime` is fair to what the runtime does by itself (timers, joins),
and to a host that keeps pulling; callbacks return unless `CallbacksReturn` is off. Nothing is
assumed of callers and participants: they may never submit, never abort, or die.

Every property of a passing run has a mutant, a plausible bug in one definition of the model
(`...Blind`, `...Always`, `...Uncapped`, and so on, next to the definition it replaces), under which
TLC finds it violated. Type correctness is proved with each inductive invariant and is not listed
as a property of a run.

## 4. Proofs

For any number of steps, branches, workers and transactions, any lease length, back-off and clock,
any stock, any number of tokens, instances and pulled tasks, and, for workflows, any function in any
number of versions; on both stores, but where the API drives inline not all of it on SQL. A
hypothesis of a theorem stands in its statement, for messages in the property:

| Module | Theorems | Hypothesis, if any |
|---|---|---|
| `SagaProofs` | `SagaTypeCorrect`, `SagaSucceedIsWhole`, `SagaCompensateOnlyWhenAborting`, `SagaStatusForward` | |
| | `SagaAtomicity`, `SagaStepOrder`, `SagaImplements` (refinement of `GlobalTx`) | no compensation answers FAILURE (section 5, 1) |
| `ServiceProofs` | `LeaseTypeCorrect`, `LeaseExclusive`, `LeaseReleasesOwn`, `LeaseRequestKept` | |
| | `LeaseDueAgain` | there is a prepared time limit (section 5, 3) |
| | `RuntimeTypes`, `HostDecides` (`OnlyHostDecides`), `CloseIsQuiet` (`QuietAfterClose`) | |
| | `TokensInForce` (`InForce`), `TokensAtOnce` (`AtOnce`) | |
| `TwoPhaseProofs` | `TwoPhaseTypeCorrect`, `TwoPhaseOneDirection`, `TwoPhaseDecidedIsWhole`, `TwoPhaseStatusForward`, `TwoPhaseImplements` (refinement of `Commitment`) | no SQL store with inline driving (run `two_phase_sql`) |
| `XaProofs` | `XaTypeCorrect`, `XaAllOrNothing`, `XaRecordedIsCommitted`, `XaDecidedIsWhole`, `XaImplements` (refinement of `Commitment`) | no SQL store with inline driving (`MCXaSql.cfg`) |
| `MsgProofs` | `MsgTypeCorrect`, `MsgListingIsWhole`, `MsgStepOrder` | |
| | `MsgOnlyIfCommitted`, `MsgDeliveredIsWhole` | none for "only if the local transaction committed" and "succeed means everybody has it"; no SQL store with inline driving (`SubmitCompares`) for "not after a confirmed abort" and "failed means nobody has it" |
| | `MsgSubmitHolds` | unless an abort was confirmed, too |
| `RedisProofs` | `RedisStoreTypeCorrect`, `RedisStoreIndexExact`, `RedisStoreReclaimed`, `RedisStoreImplements` (refinement of `Store`) | |
| | `RedisBarrierConserves` (`ConservedUnlessRefused`), `RedisBarrierNothingLost` (`NothingLost`) | |
| `WorkflowProofs` | `WorkflowTypeCorrect`, `WorkflowAbortHolds` | |
| | `WorkflowFailedIsClean`, `WorkflowSucceedIsWhole`, `WorkflowResultsAreOwn`, `WorkflowMemoised` | on Redis a function does not change under its transactions (section 5, 5) |

Each component has one inductive invariant (`SagaInvariant`, `TwoPhaseInvariant`, ...; `LInv` for
`Lease`, `BarrierInv`, `RuntimeInv` and `AuthInv` for the components so named, elsewhere `IInv`), one lemma per action or group of actions, and takes the rest from
it. Each of these invariants was checked by TLC on the instances of section 3 before it was proved.
`CoreProofs` says what the advance functions return: which branch is called, and what is known of
all others when they say the transaction is over.

**The saga's invariant.** Atomicity is not inductive: a worker about to write `succeed` must
be known to have seen every action's success, and a success recorded in the store must mean that
the branch's barrier row is there. So `IInv` follows the knowledge from the branch outwards:
`BarrierOK` (a branch is untouched, acted, or closed), `CallsOK` (an answer tells what the barrier
holds), `RecordedOK` (a branch row marked succeed vouches for the barrier row), `DecidedOK` (a
worker about to write a final status knows this of all branches), `FinalOK` (so does the status
once written). Barrier rows never go away, so what a stale worker has learnt stays true.
`CopyOK` says that a copy is stale in one direction only (aborting is never taken back), which gives
`DirectionOK`: no compensation is sent before the transaction turns round. `OrderOK` relates the
calls sent to the barrier rows of earlier and later branches. The refinement maps `status` to the
outcome and the effect counters to `none`, `applied`, `undone`; the only steps that are not stutters
are `Runs` taking effect and `Transition` writing a final status.

**The lease's invariant**: `TokenOK` (for a saga a running lease is the one in the row, and
the token in the row names its holder: two locks cannot fall into one second because the first
lease must have run out and leases last at least a second), `RequestOK` (a request leaves a due
time before the end of the lease, which is what `release_lease` looks for), `DueOK` (no due time is
further off than the longest delay).

**Two-phase modes.** The same chain from the branch to the status, and in addition what fixes the
direction: `CopyOK` (a worker with a decided copy has the decision that holds), `DirectionOK` (a
second-phase call was sent only after the decision for it), `CountOK` (the branches a worker counts
are those registered before the decision), `CallerOK` (what the caller knows when it submits). In
`Xa` the databases take the barrier's place: `PartOK` says what a participant at each point of its
program has in its database, `SubmittedOK` that once submitted the branches are those that are
ready, and `HeldOK` that what was prepared when the decision fell is prepared or resolved; so
SUCCESS for an xid the database does not know can only mean that it was committed before.

`Commitment` is what the two have in common. A branch is not begun, held, carried out or undone; the
mapping takes this from what the branches did (each op at most once, everything else is mapped to
no value `Commitment` knows) and from the databases' transactions. A decision to commit needs every
branch held and none undone; then only `Carry` is possible, so there is no way back, and no branch
can begin any more. A decision to abort leaves room for branches that were announced and begin
late (section 5, 4): they are held, and given back if a worker counts them, but the promise at the
end is about those that counted. Beyond `IInv` the refinement needs `ReachOK`: calls go to
registered branches only, so that whatever is held at the decision counts, and once submitted
every branch counts. Of the steps, `Try`, `Execute` and `ExecuteStray` (in `Xa` also what databases do) map
to steps of branches, `Submit`, `Abort` and `PreparedTimeout` to the decision, `Transition` to the
end; all others stutter.

**Messages.** `KeyOK`: the barrier key is set once, by the local transaction or by the check-back,
and everything the caller or a worker believes agrees with it. `SentOK`: only what is committed was
sent, and a step only when `Knows` holds of the worker that sends it, that is when all receivers of
the steps before have the message. `OnItsWay`, of the stores whose submit compares: whoever drives
the message as submitted has a row that says so, and that no abort has turned round. `TopicOK` relates the subscribers' key to the index of topics.

**The Redis store.** `IndexExact` and `Reclaimed` are almost inductive; `HashOK` (a hash is there
whole or not at all), `RegisterOK` (only branches of a TCC are registered one by one) and `TtlOK`
(only what is over has a time limit) are added. `CopyOK` says that what a worker holds is there, and
that nobody can have gone another way where it writes without a comparison. The refinement needs
it: `Store` compares, so a script that does not takes a step of `Store` only if the copy is right.

**Workflows.** `IInv` has two parts. `Basic` holds in all deployments, with overlapping runs and
with any versions: a run follows the script of its code, services take each op once, and a worker's
program counter tells the status it began with; `AbortHolds` follows from it and from the compare in
`transition`. The other part is for `Settled` deployments (one run at a time; on Redis one version),
since it is false elsewhere (section 5, 5 and 6). There, `RunOK` says that what a run was told is
what is on record, position by position, for branches of the names its code opens; `OpenOK` that the
position it is at belongs to the branch it opens and has no result yet, and from which point on the
compensation is registered; `CoveredOK` that whatever was called and can be undone has its
compensation on record. `PairOK` (SQL: the two rows of a position have one name) and `PathOK`
(Redis: a compensation on record is that of the branch to which the recorded results lead) are why
a registration meets no conflict: `run_with` would not notice one. When the rollback ends all
compensations are marked, hence done (`UndoneOK`); when the function returns, each branch on its
path was carried out (`OwnOK`).

**The Redis barrier.** The properties compare the status with the pieces held. `BarrierInv` says at any time,
transaction by transaction, what the two keys prove: `BookOK` counts the pieces, `SagaOK` and `MsgOK`
relate the keys to the status (a saga that is closed as failed has its compensation's key, which
shuts out late actions; a message that is checked back has a key that decides), until the keys expire,
which is only after the end and after the last call. One transaction's step leaves the other's keys
alone, so one lemma (`OneMoves`) carries all others, while the stock they share changes. The proof
found two overlapping cases of one `CASE` in `Outcome`, which TLC had resolved by their order; they
are now disjoint.

**The handle.** `OnlyHostDecides` speaks of the end of a long way: an answer is given in a thread or
by a pull, goes to the worker that waits for it, into the branch row, and by the advance function into
the status. So `RuntimeInv` says of each station that what is there was said: `SaidByFunction`,
`SaidToLoop`, `SaidInRows`, `SaidBeforeFinish`, `SaidInStatus`. That an answer meets the worker it is
meant for needs `LoopOK` (host code runs for a worker only while it waits, or once the driver has been
torn down) and `TasksOK`; that a worker's copy is not overtaken needs `Exclusion` and `DriveOK`.
`LifeOK` ties driver, topic server and host threads to the life of the handle; `QuietAfterClose`
follows from it and `LoopOK`.

**Tokens.** A copy may be put in place after the change it misses, so what is invariant is about time:
a list under way is right about every token that has not changed since its reading began (`ListOK`),
and so is the copy made of it (`CopyOK`, counted from the start of the reading, which is at most
`Latency` before). A check that answers from a copy younger than `Ttl` is therefore right about all
that is older than both (`CheckOK`). `SureOK` is the same without time, for the instance at which the
change was made and whose lists all began after it.

Assumptions are the named `ASSUME`s of the modules, which TLC evaluates on every run: at least one
step, `NoWorker` is no worker, leases and back-offs of at least a second, `RetryInitial <= RetryMax`;
in `Workflow`, that the script goes on or ends after every result and ends after at most `N`
branches, and that `"none"` is no branch's name.

**Only model-checked.** `Terminates`, `Delivered`, `Resolved` and `CloseReturns`: liveness under
fairness is out of the prover's reach. Every other property of a passing run is a theorem. The
mutants, and the configurations of section 5, are TLC's as well.

## 5. Where code and comments disagree

**SQL submit drives what it did not submit** (run `two_phase_sql`). `submit_prepared` does not look
at the number of rows its UPDATE changed; a submit that loses to the timeout is reported as
advanced, and the inline driver confirms while a worker cancels. The same gap breaks XA and messages:

- `MCXaSql.cfg`, `RecordedIsCommitted`: a branch that the timeout or an abort rolled back is committed
  by the inline driver; the database does not know the xid any more, answers SUCCESS, and the branch
  is recorded as committed. `xa/lib.rs:251-253` argues that an unknown xid is one that was committed.
- `MCMsgAbort.cfg`, `AbortedIsSilent`: an abort confirmed between the two statements is followed by the
  delivery of the message: `abort` compares before it writes (`api.rs:637-642`), but the submit that
  lost to it does not look.

`MCMsgAbort.cfg`, `ConfirmedIsSubmitted` (`-continue` shows both), fails for another reason and on every
store: `submit` answers Ok for any status but prepared, "submitted before, idempotent" as the comment
in `api.rs:296` has it, so also for a message that somebody has aborted. `SubmitHolds` is therefore
stated for messages whose abort was not confirmed.

The remaining configurations in this directory are not runs of the project's list but can be checked
in the same way (`tlc -config X.cfg MCModule`). One of them holds:

- `MCTwoPhaseLive.cfg`: `Decided`, every prepared TCC transaction is decided although its caller may
  vanish.

Under the others, besides the two above, TLC finds a property violated:

1. `MCSagaCompFail.cfg`, `FailedIsClean`. `saga_advance` looks for compensations still *prepared*;
   one that answered FAILURE is recorded as *failed*, the next round passes it over and closes the
   saga as failed with the effect in place. The comment beside it (`driver.rs:437`) says it can only
   be retried for ever, as TCC, XA and workflow do. Retried for ever, such a saga would not end, so
   `Terminates` is stated for sagas none of whose compensations has answered FAILURE.
2. `MCLeaseToken.cfg`, `TokenNamesOneLease`. Tokens are seconds, and `submit_prepared` overwrites the
   lease of a worker that checks back on a prepared msg; in the same second both leases have the
   same token, and the first worker's release frees the second (`store/lib.rs:127` says it cannot).
3. `MCLeaseStranded.cfg`, `AbortedIsDue`. With the prepared time limit switched off, `schedule_now`
   after the status change is the only thing that schedules the rollback, and its failure is
   ignored; a second abort finds `aborting` and does nothing.
4. `MCTwoPhaseLate.cfg`, `NoTryLeftBehind`, and `MCXaLate.cfg`, `NoneLeftPrepared`.
   `register_branch` checks the status and writes the branch in two store calls; the first phase
   that follows is rolled back by nobody. For XA also a participant that prepares after its
   rollback was counted as done leaves a prepared transaction behind.
5. `MCWorkflowRedis.cfg`, `FailedIsClean`. On Redis a registration is written op by op. If the code
   of a workflow changed while it was in progress, the replay's conflict on the second op leaves a
   compensation in place of the right one; SQL rolls both back.
6. `MCWorkflowOverlap.cfg`, `FailedIsCleanAnyway`. Leases are not extended while a user's function
   runs. A function that outlives its lease does not see an abort and goes on registering and
   running branches after another worker has compensated those it knew and closed the workflow;
   two runs at once may also record different results, and `run_with` looks only at errors of its
   registration, not at the conflict it may report: it then marks the other run's branch as done,
   and with functions of three branches the workflow can end as a success without that branch. (Two
   branches, the bound of the run, are too few for it: the proof of `SucceedIsWhole` showed that.)
   `FailedIsClean`, `SucceedIsWhole`, `ResultsAreOwn` and `Memoised` are therefore stated for one
   run at a time, `AbortHolds` for both.
7. `MCRedisBarrierRefused.cfg`, `Conserved`. A script that refuses leaves its key
   (`redis_barrier.rs:54`), whereas on SQL the row goes with the transaction it was written in; the
   module's head says that both decide alike. The check-back of a message whose local script was
   refused then answers that it was executed; the compensation of a refused action gives back a
   piece that was never taken; an action repeated after its FAILURE got lost counts as done.
8. `MCRuntimeStuck.cfg`, `CloseReturns`. A callback runs on a blocking thread that cannot be
   aborted: `dtmrs_close` waits for one that never returns.
9. `MCRuntimeWf.cfg`, `ErrorCounts`. A call of `dtmrs_wf_branch` refused for its arguments is not
   remembered, so the workflow may end as a success, against the comment on `WorkflowFn`.

Seen while modelling and not part of any property: `xid_for` maps distinct gids such as `a.b` and
`a_b` to one xid; errors in `XaBranch::prepare` and `discard` give the connection back with the
transaction open on MySQL; a `dtmrs_start` that fails leaves a handle that can only be closed; an
aborted message to a topic without subscribers ends as succeed; a Rust handler that panics ends its
worker and with it `run_until`, silently; a stored `local://` subscription without a handler is
retried for ever, as only static ones are checked at start; the branch key that a late registration
of a finished TCC writes on Redis has no TTL; SCAN_LIMIT candidates under lease hide others that are
due until a lease runs out; a token list read before a revocation may be put in place after
`invalidate_cache`, so that at that instance, too, it takes up to one TTL (`InForce`), unlike the
comment in `tokens_revoke` says.

## 6. Not modelled

Pure I/O or text: HTTP and gRPC decoding, alerts, dialects, bindings, the barrier clients in other
languages, the benchmark, console listings, migrations, length checks, marshalling in the FFI,
hashing and sealing of tokens and their usage statistics, the forming of xids. Several barrier calls
in one branch (`next_barrier_id`) only repeat `decide` on rows of their own. Leases inside `Msg`,
`Workflow`, `Xa` and `Runtime` are abstracted as said in section 2; static subscriptions are in
`Msg` but its instance has none.

## 7. Plan

All components that keep state are modelled, and all safety and action properties of the runs are
proved. What would add most:

1. a lease token that names one lease for every kind of transaction (section 5, 2), should the code
   get one: `LeaseExclusive` and `LeaseReleasesOwn` could then be stated for messages, too;
2. several transactions in `Runtime`, whose handle is shared by all of them.
