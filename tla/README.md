# SparkX in TLA+

A verification project kept beside the SparkX distributed query engine. It
models the parts of the engine whose correctness depends on the order in which
things happen, the path of a query from SQL to its answer, and the algorithms
that split a query over machines. TLC checks the models on small instances;
TLAPS proves, for every instance, the safety of the coordinator, of the workers
around it, of the block store, of the driver and of the primitives every task
shares, that the executor gives its memory back, and that splitting an aggregate
or a join over machines does not change its result. Source paths below are
relative to the repository's `src/`.

    tlc -workers 2 -config MCCoordinator.cfg MCCoordinator     # a run
    tlapm CoordinatorProofs.tla                                # some of the proofs

`PROJECT.json` lists every run with its properties, maps every definition to the
lines it stands for, and lists the hazards the properties are aimed at.

## 1. The system

A client turns SQL into a physical plan (`query/`). The plan is executed in one
process by tasks and channels (`runtime/execution.rs`), in one process by a small
cluster of tasks (`cluster/distributed.rs`), or remotely: a *driver* submits a
graph of stages to a *coordinator*; *workers* register, send heartbeats, poll for
assignments and report their outcome; results travel as *blocks* between the
workers' data planes and from there to the driver.

| Component | State it keeps | Operations | Talks to | What is hard, and what makes it correct |
|---|---|---|---|---|
| Coordinator `coordinator.rs` | stages, partitions with attempt and lease, workers with slots, cancelled queries | submit, register, heartbeat, task update, next assignment, cancel, status and output queries; each first expires what the caller's clock says | called by the control plane and by `LocalCluster` | late reports of superseded attempts, expiry racing success, cancellation racing both. One committed attempt a partition, consumers after producers, each block read once, no slot given twice |
| Control plane `control_plane.rs` | the coordinator and a queue of messages per worker, each under its own lock | one handler per call; cancel takes the locks in turn | drivers, workers | calls interleave between the two locks. A cancellation reaches every worker that runs the query |
| Worker runtime `worker.rs` | active tasks with their tokens, cancelled queries, its data plane | the `select!` loop: heartbeat, poll, join, shutdown; task execution | control plane, other data planes | the loop's picture of its slots and leases lags. It is never refused a legitimate call, keeps what was committed and drops the rest |
| Block store `block_store.rs`, data plane `data_plane.rs` | index, bytes charged, block files | upload, fetch, delete, open | workers, drivers | crashes and failing fsyncs between file-system calls, two locks in an upload. What was acknowledged is served, what was deleted stays deleted, the capacity holds, the store opens again |
| Remote driver `remote.rs` | the attempt, its lists of blocks | submit, poll, details, fetch, delete, cancel and clean up, recompute | control plane, data planes | calls that never answer, answers that describe different moments, a coordinator that restarts empty. A result is one whole execution, the driver returns |
| Pipelined executor `execution.rs` | tasks, bounded channels, reservations | scan, operator and tracker tasks; collect | table providers | errors that look like ends, dropped receivers, tight budgets. Exact result or an error, everything ends, memory comes back |
| Query memory `memory.rs`, token `cancellation.rs` | two atomic counters; a flag and waiters | reserve, grow, shrink, drop; cancel, check, wait | every task | races of loads, exchanges and notifications. The counter is exact, no wake-up is lost |
| In-process cluster and plan splitting `distributed.rs`, `hash_exchange.rs`, `join.rs`, `flight_exchange.rs` | running tasks, partial batches | assign, join, exchange, merge; repartition | coordinator, Flight | completion order, NULLs and empty partitions. The distributed result is the native one |
| Session `session.rs`, logical and physical plans, optimiser, expressions `query/` | the catalog | parse, plan, optimise, bind, execute | catalog, executor, cluster, driver | the catalog is read again at each stage; folding and push-down meet NULLs, widths and errors. The answer is that of the query as written |
| Catalog and pruning `storage/` | tables and their statistics | register, look up, scan, skip row groups | session, workers | statistics may be absent, deprecated, truncated. A skipped row group has no matching row |
| Plan codec `plan_codec.rs`, protocol `protocol.rs` | none | encode, decode, validate | all | each side derives schemas by itself. A decoded plan is the encoded one |
| Metrics, row keys, binaries | counters | — | — | see section 7 |

## 2. Modules

| Module | Models | Uses |
|---|---|---|
| `OutputCommit` | what the coordinator promises a driver: stages are published, partitions commit once, completely and after their inputs, and no more once the query is closed | |
| `Coordinator` | the state machine of `coordinator.rs`, one action per public operation | `OutputCommit` as its refinement target |
| `CoordinatorProofs` | theorems about `Coordinator` | |
| `Cluster` | the control-plane service and the workers' event loops around the coordinator | `Coordinator` |
| `ClusterProofs` | theorems about `Cluster` | `CoordinatorProofs` |
| `Sums`, `SumProofs` | sums over finite sets, and what the proofs need to know of them, of concatenated sequences and of the totals of their items | |
| `BlockStore` | a worker's disk store and upload and delete handlers, at the grain of file-system calls | `Sums` |
| `BlockStoreProofs` | theorems about `BlockStore` | `SumProofs` |
| `QueryRuntime`, `QueryRuntimeProofs` | query memory and cancellation token, at the grain of atomic operations; theorems about them | `Sums`, `SumProofs` |
| `Operators` | what operators compute: filter, project, sort, aggregate, join | |
| `Pipeline` | plan building, tasks, channels, memory and cancellation of the executor | `Operators` |
| `PipelineProofs` | theorems about `Pipeline` | `SumProofs` |
| `Distributed` | splitting aggregates and joins: partial states, both merges, hash routing | `Operators` |
| `LocalCluster` | the loop of `LocalCluster::execute`, and what remote aggregates and joins return | `Distributed` |
| `LocalClusterProofs` | theorems about `LocalCluster` and the algorithms of `Distributed` | `SumProofs` |
| `Driver` | `RemoteStageRunner::execute_graph` against the promise, not the details, of the coordinator | `OutputCommit` |
| `DriverProofs` | theorems about `Driver` | |
| `Expressions` | names, types, evaluation, casts and constant folding (`query/expr.rs`) | |
| `Plans` | logical plans with their checks, and the optimiser (`query/logical.rs`, `query/optimizer.rs`) | `Expressions` |
| `Physical` | providers, pruning, the planner and what each physical operator computes on typed columns | `Plans` |
| `PlanCodec` | wire plans: encoding, validation, decoding against a catalog | `Physical` |
| `Session` | a query from its syntax tree to its answer, natively, in the in-process cluster and remotely | `PlanCodec` |

The `MC*` modules give the constants their values.

### Coordinator

`stages`, `workers`, `parts` and `cancelled` are the four maps of the struct.
A partition is a record of its state (`pending`, `active`, `cancelling`,
`succeeded`, `failed`, `cancelled`), attempt, lease and committed blocks. Every
operation that takes a time first applies `AdvanceTime` and then does its own
work on the result, in one step, as the `&mut self` methods do; a rejected call
(an unknown worker, a clock running backwards, a report for somebody else's
lease) leaves the state as the code leaves it, time advance included. Any worker
may report anything about any attempt it could have been given, at any time:
that covers lost, repeated and late reports. A heartbeat may claim any number of
free slots up to a slot count (`FreeCounts`). Deadlines are checked additions.

### Cluster

A worker is sequential: it waits for the answer to a call before anything else,
so a call is one step per lock its handler takes. `asking` is the point between
the two locks of a poll, `notifying` the one between those of a cancellation.
Tasks, the clock, clients and other workers move in between. A call that fails in
transport ends the worker, before or after it took effect: `Crash`, and
`JoinAnswerLost` for a task's last report, after which the worker deletes the
blocks it named before it exits.

### BlockStore

`files` is the directory as the process sees it, `synced` its committed blocks as
of the last successful fsync of the directory. When the process dies (`Kill`) the
kernel keeps `files`, and nothing becomes more durable for it: `open` reads what
the directory shows and never fsyncs it. A crash of the host (`Crash`), then or any
number of restarts later, keeps either state for each entry and tears a file whose
data was not flushed. `insert` is write, flush, rename, fsync, publish; `remove` is
unlink, fsync, forget. `do_put` checks its budget under one lock and inserts under
another. Three variables let a property say after which faults it still holds:
`badSync` records which operations' directory fsyncs failed, `cut` whether a
process died between a rename or an unlink and its fsync, and `solid` which
acknowledged blocks a directory fsync has covered since.

### QueryRuntime

A task alternates between a `select` on its input and the token and the work on
a batch, in which it reserves and gives back memory. `reserve` is a load, then
rounds of check and weak compare-and-swap, then `fetch_max` on the peak;
`release` is a subtraction modulo the counter's width. `cancelled()` is check,
create the `Notified` future, check again, wait; `cancel` is a swap of the flag
and, for the first caller, `notify_waiters`. tokio's `Notify` (external) is
reduced to what `cancelled()` uses: a future hears every `notify_waiters` after
its creation.

### Pipeline and Operators

Every spawned task of `execution.rs` is a small process: one for each scan
partition, one for each operator, one tracker for each operator's output. `raw`
and `out` are the bounded channels before and after the trackers. Plans are built
top-down while scans already run. Rows have a key and a value; NULL is a value.
Memory is a counter that takes and returns whole reservations, which is what
`ReservedIsExact` shows of the real one. `Operators` uses folds and
concatenations rather than recursion, so that proofs may use it.

### Distributed and LocalCluster

`Distributed` has no state: partial aggregation, `merge_partials` for the
in-process cluster, the final stage's plan for the remote one, `repartition` and
the three stages of a join, on tables of abstract rows, averages as pairs.
`LocalCluster` is the loop with its tasks, memory in rows, cancellation, and the
Flight exchange, which cuts a batch into messages and sends none for no rows.

### Driver

A call is served and answered, served with its answer lost, or fails; a dropped
submission may still be served later (`late`). Partitions commit or fail, blocks
vanish with their workers, other clients cancel the query, and the coordinator
restarts, forgetting every query and the calls under way, between any two steps.
`OutputCommit` gives the coordinator's state; attempt `n` of the query has query
identity `n`. `ever` is a history variable: what each partition ever committed,
restarts notwithstanding. A task may also succeed after its query was cancelled
(`LateSuccess`): the coordinator answers its report as if it counted and commits
nothing, so its worker keeps blocks that no manifest lists (`Unlisted`).

A clean-up is *thorough* when every call of it was answered and the coordinator
still remembered every output of the attempt (`Remembered`). The second condition
came out of the proof: when the coordinator restarts between the submissions of
two independent stages, it forgets the first and accepts the second; the survey
then passes over the first stage, whose blocks stay with their workers. The
request of two independent stages that reaches this makes the run too large and is
left to the theorem. `CleanupIsComplete` speaks of thorough clean-ups and of
committed blocks: the blocks of late successes are listed by nobody and stay, which
`docs/BUILD_PLAN.md:129` allows ("Failure cleanup is best-effort").

### Expressions, Plans, Physical, PlanCodec, Session

The first four are operators on data, translated function by function. A value is
an integer in a one-element sequence, NULL the empty one; texts are numbered in
their order, floating-point values count twelfths, and names are integers of
which `Lower` forgets the case and one, `Blank`, is a blank. Whatever may fail returns `Ok(x)` or `Err`, and
`Then` is Rust's `?`: an error of any sub-expression, row or operator is one of
the whole. A
stream is a sequence of batches that may end in an error, so a LIMIT that is
satisfied before an error really hides it. Statistics of a row group may be full,
deprecated, truncated or absent. A fragment on the wire is a tree of its own:
`PlanNesting` is how deep its Protobuf messages are nested, and `Readable` is where
prost (external) stops reading, long before `MAX_PLAN_DEPTH` levels of operators.

`Session` is the process around them. `LookUp` is one catalog access of `sql`,
`PlanAndOptimize` the rest of `sql` and the optimiser, `BindScan` one catalog
access of `create_physical_plan`; then `RunNative`, or `Distribute`, which cuts
the plan into fragments, encodes and validates them, `RunTask`, which decodes one
against the catalog it finds then and runs one partition, and `Finish`.
`Register` and `RegisterAtWorker` replace a table between any two of these.
That partial aggregates merge, and that equal keys meet, is checked in
`Distributed`: here the tasks of an aggregate hand on their rows.

## 3. Runs

| Run | Checks | Instance and why it is enough |
|---|---|---|
| `coordinator` | `TypeOK`, `DependencyGate`, `InputsExactlyOnce`, `SlotAccounting`, `CancellationFence`, `CommittedOutputIsFinal`, `LifecycleProgress`, `StatusIsStable`, `ImplementsOutputCommit` | a hash exchange of one producer and two consumer partitions, two attempts, one worker with two slots, clock to 2: expiry, retry, exhaustion, incomplete manifests and cancellation all meet. The theorems of section 5 cover the rest |
| `cluster` | `NoWorkerRefused`, `NoOverbooking`, `CommittedBlocksServed`, `CancellationReaches`, `ClusterIsReleased` | one task of two attempts on two workers, either of which may die, stop and be restarted, cancelled at any point: the task moves to the other worker, or comes back to the same, while the first attempt still runs and reports. The theorems cover more tasks and stages |
| `worker_restart` | `WorkerReadmitted` (violated) | one worker that crashes and comes back |
| `block_store` | `AckedIsServed`, `RestartOpens`, `DeletedStaysDeleted`, `UsageIsExact` | three tickets, two with one file name, contents of one and two bytes, capacity two, two uploads in flight, process deaths and host crashes everywhere, one failing directory fsync. Two million states, two and a half minutes |
| `stale_index` | `AckedAlwaysServed` (violated) | the same with two tickets |
| `query_runtime` | `TypeOK`, `ReservedIsExact`, `PeakIsExact`, `WakeUpPending`, `CancellationReleases` | two tasks, two cancelling threads, a limit that one large or two small requests fill, counters of three bits |
| `pipeline` | `ResultExact`, `PromptCancellation`, `MemoryReturned`, `EverythingEnds` | ten plans of two to five operators over channels of one batch: every operator, two inputs, failing rows, missing, unreadable and pruned partitions, a budget that suffices only in some interleavings, in a session and in a worker's task |
| `local_cluster` | `DistributedMatchesNative`, `ResultOfWholePartitions`, `RemoteAggregateMatches`, `RemoteJoinMatches`, `NothingIsLeft` | all pairs of a partition of at most two rows and one of at most one (NULL keys, NULL values, repeated keys, none), three partitions for two workers and one alone, with and without GROUP BY, messages of one row so that every batch of two is cut, every placement of the keys, every order of completion with failures, cancellation and short memory. For all but the second and the last, section 5 proves the same of tables of any size |
| `empty_partial` | `FailsOnlyForCause` (violated) | three partitions, one without rows |
| `driver` | `ResultIsWhole`, `CleanupIsComplete`, `FatalIsFinal`, `DriverReturns` | one stage of two partitions, and two stages in a row with deletion; one recomputation, one restart of the coordinator, at most two partitions at a time with blocks of a late success. 900,000 states, two minutes |
| `session` | `NativeAnswerExact`, `PruningIsConservative`, `DistributedAnswerExact`, `CodecRoundTrip` | 58 queries (each form of predicate over NULLs, casts, overflow and division by zero; projections, sorts with NULLs, LIMIT 0, aggregates with NULL groups and none, inner, left and self joins, blank names, refused forms) over two tables, four catalogs, five worker catalogs and nine replacements of a table (new rows, reordered, renamed, retyped, fewer or ambiguous columns), one of which arrives at any moment |
| `case_twins` | `PruningAsDocumented` (violated) | one Parquet table with columns that differ in case only |

Bounds: `TimeMax` ends the clock (no lease outlasts it), `MaxTaskAttempts`,
`MaxQueryRetries` and `MaxPlanDepth` are the code's own limits, `MaxRestarts`,
`MaxUploads`, `MaxBadSyncs`, `MaxUnlisted` and `MaxRegistrations` bound what
operators, clients, late tasks and failing disks do. `MaxWireNesting` is prost's
limit of 100 nested messages, scaled down to what some of the queries exceed;
`MessageRows` stands for the two megabytes of a Flight message. `MaxBytes`,
`Int32Max` and `Int64Max` stand for the widths of the integers and are small so that
sums reach them. Deadlock is not checked
where everything may really end: at the clock's horizon (`cluster`), in a
directory that cannot be opened (`block_store`), when all tasks are done
(`query_runtime`) and when the query is answered (`session`).

Every property has a mutant in `PROJECT.json`: a plausible bug in a mapped
definition, written beside it, under which TLC finds the property violated.

### Fairness

- `Cluster`: intervals keep ticking and `select!` picks among ready branches, so a
  live worker goes on sending heartbeats, polling for assignments, starting and
  joining its tasks; a task ends, by its lease's deadline at the latest; time
  passes. Nothing is assumed of clients, crashes, shutdowns or the delivery of a
  cancellation: `ClusterIsReleased` holds by expiry alone.
- `QueryRuntime`: a runnable task is polled and a call of `cancel` runs to its
  end. Strong fairness says that a weak compare-and-swap does not fail for ever
  and that the work on one batch is finite. Nobody has to cancel, and input may
  never arrive.
- `Pipeline`, `LocalCluster`: the runtime polls every task that was woken.
  Nothing makes the client give up or cancel.
- `Driver`: only its own timers fire. No service is assumed ever to answer.

### What the session's properties leave out

Three conditions in the properties of `Session` are there because without them
TLC refutes them. The first and the third contradict no document of the repository;
the second does, and is the finding `case_twins`.

- A table replaced by one with other columns between `sql` and
  `create_physical_plan`, under a join or an aggregate: types were derived from
  the first table, columns are read from the second. `NativeAnswerExact` then
  speaks of flat plans only.
- Two columns that differ in case: pruning looks statistics up ignoring case
  (`storage/pruning.rs:165`), while evaluation does not, so a row group may be
  skipped by the wrong column's extremes. `PruningIsConservative` and the two
  properties of answers ask for `NoCaseTwins`; `PruningAsDocumented` does not.
- The number of partitions is not part of what a fragment says about its table.
  When the worker's table has another number than the session's, partitions are
  left out or missing (`ReadTogether`); different tasks may also read different
  versions.

`CodecRoundTrip` has no such condition: it says of every plan that `encode` accepts
whether it comes back. A plan with a blank table, column or alias name does not,
although `encode` and the session let it pass (`plan_codec.rs:222, 510, 536`;
`SELECT a AS " "` runs natively and fails remotely), nor does one whose messages are
nested more deeply than prost reads, which happens long before the "128 plan levels"
of `docs/ARCHITECTURE.md:192`, an upper bound that is never reached. Both are
refused on submission.

Also visible in the model, and part of it: `HAVING` in a query without
aggregates is ignored; `Int32 + Int32` is typed `Int64` but computed in `Int32`,
and fails when the batch is built; constant folding can turn a query that would
not have evaluated an erroneous constant into an error, and hide one.

## 4. Findings

- `worker_restart`: a worker restarted under its identity, as
  `docs/SHUFFLE_STORAGE.md` advises for persistent blocks, is rejected by
  `register_worker` and exits.
- `stale_index`: a deletion whose directory fsync fails leaves its index entry;
  a later upload of the same block is acknowledged although no file exists.
- `empty_partial`: `LocalCluster::execute` counts batches that return from the
  exchange as finished partitions. A GROUP BY with a partition left without rows
  has a partial batch without rows, for which arrow-flight's encoder sends no
  message; the loop runs out of tasks and fails a query that succeeds natively.
- `case_twins`: a filter on one of two columns that differ in case only is decided
  by the statistics of the first of them, and row groups with matching rows are
  skipped, although `docs/ARCHITECTURE.md:87` calls the pruning conservative and
  `:90` says that only row groups are skipped that statistics "prove cannot satisfy
  pushed filters".

### Known limits

What the code does besides, and the properties therefore make conditions of. The
first and the third sit ill with what the repository says: "Committed files remain
until explicit client deletion" (`docs/SHUFFLE_STORAGE.md`), and the differential
test's "matches_duckdb_in_native_and_distributed_modes" (`tests/sql_differential.rs`).
Each can be seen as a violation by dropping its condition from the property.

- A process that dies between the rename of a block file (`block_store.rs:203`) and
  the directory fsync (204) leaves an entry that only the page cache holds. `open`
  (86-141) indexes it without an fsync, a repeated upload is acknowledged (152-153),
  and a later crash of the host loses the block. `AckedIsServed` therefore promises
  such a repeat only once a directory fsync has covered it.
- A process that dies between an unlink (233) and its fsync leaves a file that a
  later crash of the host may bring back. When the room was given out meanwhile,
  `open` refuses the directory as full (123-125). The same happens after the
  directory fsync of an upload failed, which leaves a file that nobody charged.
  `RestartOpens` leaves both out of its second half; that no committed file is torn
  holds always.
- `LocalCluster::execute` counts the batches that come back from the exchange
  (`distributed.rs:339`). When the encoder cuts a partial batch, which it does beyond
  two megabytes, the loop stops before the last partitions are joined, and the result
  silently lacks them: in the run, with messages of one row, TLC refutes
  `at = "ok" => result = Native(input)`. `DistributedMatchesNative` promises the
  native result where nothing was cut, `ResultOfWholePartitions` says what comes out
  otherwise: the aggregate of the partitions that were joined.
- The blocks of a task that succeeds after the cancellation of its query
  (`coordinator.rs:807`) stay on their worker for ever. `CleanupIsComplete` says that
  a clean-up without errors leaves nothing else.
- A worker whose success report was committed but not answered deletes the committed
  blocks and ends (`worker.rs:310`). `CommittedBlocksServed` speaks of live workers;
  the driver recomputes the query or fails.
- Somebody else's cancellation while the driver asks for the partitions of a failed
  stage wipes the failures; a fatal one may then be retried. `FatalIsFinal` leaves
  that out.

## 5. Proofs

All constants are arbitrary, under named assumptions, which TLC evaluates on
the runs of the module that states them.

| Module | Assumptions |
|---|---|
| `Coordinator` | identifiers are naturals and the partition keys a finite set (`IdAssumption`); the plans are stage-plan records over them (`PlanAssumption`); slot counts are naturals and outputs sequences of naturals (`InputAssumption`); the limits are positive (`ConfigAssumption`) |
| `Cluster` | restarts are counted (`RestartAssumption`); the manifest a task uploads is among the outputs the coordinator is told of (`ManifestAssumption`) |
| `BlockStore` | file names are a finite set, being derived from a 32-bit hash (`NameAssumption`); encoded contents are not empty and the capacity is positive (`SizeAssumption`); the markers for no content and a torn file are no contents (`NoneAssumption`); faults are counted (`FaultAssumption`) |
| `QueryRuntime` | the limit and the requested sizes fit the counter's width, and the limit is positive (`BytesAssumption`); a query has finitely many tasks (`TaskAssumption`) |
| `Pipeline` | channels hold at least one batch (`CapacityAssumption`); a plan is a sequence of operators, each before the at most two it reads, of which only a scan has none (`PlanAssumption`) |
| `LocalCluster` | a table has at least one partition, whose rows are pairs of naturals, zero being NULL (`InputAssumption`); there is a worker, and a message holds a row (`ConfigAssumption`) |
| `Driver` | a request is a sequence of stages, each with earlier stages as inputs, of which one is final (`RequestAssumption`); partition identifiers are naturals and outputs sequences of naturals (`IdAssumption`); recomputations, restarts and late successes are counted (`RetryAssumption`) |

| Theorem | States |
|---|---|
| `TypeCorrect` | `Spec => []TypeOK` of `Coordinator` |
| `SlotsAccounted` | `Spec => []SlotAccounting`: free slots plus leases held never exceed a worker's slots, a dead worker holds none |
| `CancellationFences` | `Spec => []CancellationFence` |
| `DependenciesGated` | `Spec => []DependencyGate` |
| `InputsDelivered` | `Spec => []InputsExactlyOnce` |
| `CommittedOutputFinal` | `Spec => CommittedOutputIsFinal` |
| `LifecycleForward` | `Spec => LifecycleProgress`: every change of a partition raises its rank |
| `StatusStable` | `Spec => StatusIsStable`: a stage seen to have succeeded or failed is never reported otherwise until its query is cancelled |
| `CoordinatorImplementsOutputCommit` | `Spec => ImplementsOutputCommit`: the refinement the driver's model relies on |
| `ClusterInvariant` | `CSpec => []ClusterInv`, the inductive invariant below |
| `ClusterRunsCoordinator` | `CSpec => Spec`: the cluster only makes the coordinator take its own steps, so every theorem above holds in the cluster |
| `NobodyRefused` | `CSpec => []NoWorkerRefused` |
| `NeverOverbooked` | `CSpec => []NoOverbooking` |
| `CancellationsReach` | `CSpec => []CancellationReaches` |
| `CommittedServed` | `CSpec => []CommittedBlocksServed` |
| `ClusterKeepsPromise` | `CSpec => ImplementsOutputCommit` |
| `StoreInvariant` | `Spec => []Inv` of `BlockStore`, the inductive invariant below |
| `AcknowledgedIsDurable` | `Spec => []AckedIsServed`, through process deaths and host crashes in any order |
| `DeletionIsPermanent` | `Spec => []DeletedStaysDeleted` |
| `AlwaysRestarts` | `Spec => []RestartOpens`, likewise |
| `ChargeIsExact` | `Spec => []UsageIsExact` |
| `RuntimeTypes` | `Spec => []TypeOK` of `QueryRuntime` |
| `NoLostWakeUp` | `Spec => []WakeUpPending`, for any number of tasks and cancelling threads |
| `ReservedExact` | `Spec => []ReservedIsExact`: the counter is the sum of what the tasks hold and within the limit |
| `PeakExact` | `Spec => []PeakIsExact` |
| `DriverInvariant` | `Spec => []Inv` of `Driver`, the inductive invariant below |
| `WholeResult` | `Spec => []ResultIsWhole` |
| `CompleteCleanup` | `Spec => []CleanupIsComplete`: no committed block is left, for any number of late successes |
| `FatalStays` | `Spec => FatalIsFinal` |
| `PipelineInvariant` | `Spec => []Invariant` of `Pipeline`, the inductive invariant below |
| `MemoryComesBack` | `Spec => []MemoryReturned` |
| `CancellationIsPrompt` | `Spec => []PromptCancellation` |
| `LoopInvariant` | `Spec => []LoopInv` of `LocalCluster`, the inductive invariant below |
| `ClusterIsTransparent` | `Spec => []DistributedMatchesNative`: any number of partitions and workers, any order of completion, any size of messages |
| `RemoteAggregateIsNative` | `Spec => []RemoteAggregateMatches`: any table, any hash |
| `RemoteJoinIsNative` | `Spec => []RemoteJoinMatches`: any table, any hash, inner and left outer |

*Types and slots* (`CoordinatorProofs`). `TypeOK` is inductive. Slot accounting
is stated as `Slots(W, P)` over explicit workers and partitions because a call
passes through an intermediate state, after time advanced and before its own
change; one lemma shows that advancing time keeps it (a set of leases loses the
expired ones, and their workers get exactly those slots back), the others start
from that state.

*Commits* (`CoordinatorProofs`). The invariant `CInv(stages, cancelled, parts)` is a
conjunction of named parts: no cancelled query has assignable or running work
(`Fence`), partitions exist exactly as their plans say (`Shape`), what ever
started has finished dependencies (`Gate`), committed manifests are complete
(`Manifests`), producers' destinations match their consumers' partitions
(`Matched`), attempts are bounded (`Attempts`), and output is there only when
committed (`Plain`). `DependencyGate` alone is not inductive: it needs that a
finished producer stays finished and that a stage's plan never changes. Handlers
are not treated one by one: `Moved` lists the seven ways in which a single
partition may change, every call is at most two rounds of moves (`TwoMoves`), and
each part of `CInv` is shown to survive a round. The same decomposition gives the
rank argument, the stability of a stage's status and, with the lemma that exactly
a success report commits (`UpdateCommits`), the refinement.

*Cluster* (`ClusterProofs`). None of the four properties is inductive: whether a
report is refused depends on what the coordinator believes of a lease, and that
on what the worker has been told. `ClusterInv` adds to the coordinator's own
invariants (`TypeOK`, `CInv`, `Slots`) what relates the two sides. For the
coordinator: heartbeats and leases are not from the future (`SeenOK`,
`LeasesOK`), and an attempt is leased once, to one worker (`HistoryOK`). For each
worker: its loop is at one place (`LoopOK`), has a slot for what it asks for
(`RoomOK`), has an attempt once (`UniqueOK`), knows every lease it holds
(`HeldOK`), and runs only tasks whose lease the coordinator holds or whose report
it will answer as superseded (`TasksOK`); a task being wound down has its token
cancelled or its cancellation queued (`ReachOK`), and blocks of what succeeded
are kept (`UploadOK`, `ServedOK`). What the coordinator does to the partitions
falls into three kinds. They *fade* (`Fades`: leases may be lost or start to be
wound down, none is given and nothing is committed), which covers the passing of
time, cancellation and failures; one of them *commits*; or one of them is *given*
to the worker that asks. Each part of the invariant is shown to survive each
kind, and each step of `CNext` to be one of them. Before the proof, TLC checked
`ClusterInv` as an invariant of two small instances. The refinement of `Coordinator`
then carries every theorem about the coordinator over.

*Block store* (`BlockStoreProofs`). The invariant relates the index, the
directory as the process sees it and as last synced, the operation under way and
what dead processes left unsynced. Files are under the names of their tickets and
committed ones are whole (`FilesInv`); an operation knows its files (`OpInv`); a
stopped service has no memory, and its directory differs from the synced one only
where a process died before an fsync (`DownInv`, `cut`). Three parts hold until a
fault: every committed file is charged, in both directories, until the directory
fsync of an upload fails or an unlink is left unsynced (`ChargeInv`); every indexed
block has its file, and on disk too if a directory fsync covered it or no rename was
ever left unsynced, and what was acknowledged and is on disk in this sense is
indexed, until the fsync of a deletion fails (`DurableInv`, `AckInv`). A deleted
ticket has no file in either directory and nobody is about to write one
(`DeletedInv`), and the charge is exact (`UsageInv`). While the service is down
`ChargeInv` speaks of all the directories a host crash may leave, since one crash may
follow another: for each of them the sizes sum to no more than the charge was, each
file being charged to a different ticket, and that is within the capacity
(`RestartOpens`).

*Sums* (`SumProofs`). A sum over a finite set is a fold, and the library's
induction theorems cannot be used. Induction is argued from a least counterexample
instead: the sets for which a claim fails, if there are any, include one of which
no proper subset fails it (`SmallestSubset`); likewise for naturals
(`NaturalInduction`). From these follow that the sum exists, what adding, removing
or changing one element does to it, that sums are monotone, that a bijection keeps
a sum and that a double sum may be taken in either order. The same argument gives
what a concatenation of sequences holds and what its items weigh together
(`TotalOfFlatten`), for the driver's lists of blocks and the tables of queries.

*Runtime primitives* (`QueryRuntimeProofs`). `WakeUpPending` is strengthened by
`TokenInv`: `notify_waiters` has run only after the flag was set, a set flag
means that somebody notified or still will, and no sleeping task's future was
created after the notification. The second check is what makes it inductive: a
task passes it only with the flag clear. `PeakIsExact` is
strengthened by `PeakInv`, which bounds the largest total ever reserved by the
peak or by a reservation on its way to `fetch_max`. `ReservedIsExact` is
inductive once the sum's value under a change of one task is known.

*Driver* (`DriverProofs`). The answers a driver collects describe different
moments, and the coordinator may have forgotten some of what it said. The argument
is about `ever`: a stage is submitted at most once under an identity, what
is still to be submitted has committed nothing (`AheadInv`), and what was
committed is never committed differently; hence a stage that was once seen
complete is complete (`RoundInv`), and what was fetched and what is left to fetch
are together its output (`FetchInv`). For the clean-up, every block still held was
committed or is of a late success (`HeldInv`), every committed one is on the list or
of a stage not yet surveyed (`TidyInv`, `PurgeInv`), and a query that was cleaned up
can commit no more (`CleanedInv`). A fatal failure is noted,
or is among the answers still to come (`FatalInv`).

*Executor* (`PipelineProofs`). Both theorems are about counts that many tasks
change. What is reserved is the sum of what each operator and the client hold
(`mem`), and only an operator that reads or computes holds anything, so nothing
is left when all have ended; what needs work is that every way a task may end,
an error in any input or a dropped receiver included, passes through its release.
For the cancellation the invariant bounds `Ahead`, what the client got since and
what its channel still holds: it grows only by steps of the root's tracker, and
the token leaves the tracker two, the second of which sends the error that comes
last.

*In-process cluster* (`LocalClusterProofs`). `DistributedMatchesNative` is about
the batches that happen to be there when the loop stops counting, so the invariant
says where each came from. `Origin` is an injection of the batches into the
partitions that were joined, and exists unless one of those partitions' batches was
cut (`Arrived`). As many batches as partitions are then all of them, each once, in
some order, and it remains that `merge_partials` does not mind the order. Cut or not,
there are at least as many messages as joined partitions, unless one has no groups
(`Counted`), which is why the loop cannot run out of tasks (`Waits`, `Drops`). The
size of a message is arbitrary; nothing is assumed of the size of batches.
`ResultOfWholePartitions` is only model-checked: it would need the merge of cut
batches, which the lemmas below do not cover.

*Merging and routing* (`LocalClusterProofs`). Instead of an
induction over rows the argument goes through measures of them. The total,
the least and the greatest value of a column do not depend on the order of its
rows (`Total`, `Lowest`, `Highest`), those of a table follow from those of its
parts (`TotalOfFlatten`, `ExtremesOfFlatten`), and folding `UpdateState`, `Merge`
or `UpdateColumns` over rows gives a state that is read off them (`UpdateFold`,
`MergeFold`, `ColumnsFold` and their grouped forms). A partial row holds the
measures of one partition's group, and a partition without the group measures
zero, which is what a NULL reads as, so merged partial rows measure the whole
group (`MergedColumns`). Routing keeps the rows of one key together and in one
place (`RoutedKeys`, `RoutedSame`, `RoutedTotal`): a destination's groups are the
native ones, and the destinations list every key once (`ConcatLists`). For joins,
how often a row appears in the result is the sum, over left rows, of how often each
gives it (`JoinTimes`); a left row finds at its destination all the partners it
has (`WeightRouted`), and the double sum over destinations and producers is that
over the table (`JoinRemote`).

Values other than NULL are positive in `Operators`, which the proofs use: a sum is
zero only when nothing was added. A sum of zero or a negative value, where the
code relies on its separate `seen` flag, is outside these theorems; typed columns
with all their values are in `Physical`, which TLC checks through `session`.

Only model-checked: liveness under fairness, which is out of the prover's reach;
`ResultOfWholePartitions` of `LocalCluster`; `ResultExact` of `Pipeline`, whose meaning of a plan (`Answer`) is a recursion over
its operators; and the properties of `Session`, whose modules are recursive over
plans and expressions, which the prover does not support.

## 6. Plan

Done: coordinator, cluster, block store, runtime primitives, driver, in-process
cluster and plan splitting, with the proofs of their safety properties; the
executor, with proofs of its use of memory and of its cancellation; query front
end and codec, model-checked. Left, in this order:

1. `Cluster`: the upload of a block as a step of its own, so that a task dropped
   in an upload (`worker.rs:444`) leaves the block it leaves in the code.
2. `Pipeline`: a proof of `ResultExact`, for which each operator needs an invariant
   that relates what it has read and sent to the meaning of its inputs.
3. `LocalCluster`: a proof of `ResultOfWholePartitions`, which needs that merging the
   pieces of a partial batch is merging the batch.
4. `Operators`: values that may be zero or negative, so that the merge theorems
   also speak of sums that vanish.

## 7. Not modelled

- The bytes of JSON and Protobuf messages, size limits, gRPC framing and
  checksums in transit. Corruption appears as a failed fetch.
- The SQL grammar: the parser is a library. The many forms `session.rs` refuses
  are one form of each kind.
- In the front end: schema and field metadata, operator numbers, EXPLAIN output,
  casts to and from text, display names with dots in them, NaN in statistics,
  decimals, ties of an unstable sort (no input has any) and the division of a
  partition into batches.
- The CSV and Parquet readers: I/O of libraries, seen as providers.
- Metrics and report counters: nothing reads them.
- Row-key encoding: a wrapper of a library; keys are compared as values.
- The rounding of floating-point sums.
- Binaries: argument parsing and start-up.
- Clocks that step backwards (one monotonic clock per run), and the time the
  worker's loop spends deleting blocks while heartbeats wait.
