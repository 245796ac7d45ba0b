---------------------------- MODULE Coordinator ----------------------------
(***************************************************************************)
(* The coordinator state machine of src/src/cluster/coordinator.rs: worker *)
(* registration and liveness, stage submission, lease-based assignment of  *)
(* partition attempts, task updates, retries and query cancellation.       *)
(*                                                                         *)
(* Every call carries the caller's timestamp.  The service passes          *)
(* SystemTime, which may step backwards, so timestamps are arbitrary       *)
(* members of Time.  Messages are arbitrary too: any worker may report any *)
(* attempt of any partition, so the properties hold against late,          *)
(* duplicated, reordered and confused senders.                             *)
(***************************************************************************)
EXTENDS Integers, FiniteSets, Sequences

CONSTANTS
  WorkerId,            \* worker identities, ordered like the BTreeMap keys
  QueryId,             \* query identities, ordered likewise
  StageId,             \* stage numbers
  PartitionId,         \* partition numbers
  StagePlans,          \* the StagePlan values drivers may submit
  SlotCounts,          \* slot counts a registration may advertise
  Outputs,             \* output manifests a worker may report
  LeaseDuration, HeartbeatTimeout, MaxTaskAttempts, MaxStagePartitions,
  TimeMax              \* u64::MAX

Time == 0 .. TimeMax

\* The "absent" values of Option fields.
NoWorker == -1
NoTime == -1
NoStage == [query |-> -1, stage |-> -1, inputs |-> {}, partitions |-> 0,
            exchange |-> 0, partitioned |-> FALSE]

\* A StagePlan; `exchange` is the destination count of output_exchange, 0 for
\* None.  The plan fragment, opaque to the coordinator, is left out.
StagePlan == [query: QueryId, stage: StageId, inputs: SUBSET StageId,
              partitions: Nat, exchange: Nat, partitioned: BOOLEAN]

StageKey == QueryId \X StageId
PartitionKey == QueryId \X StageId \X PartitionId

ASSUME IdAssumption ==
  /\ WorkerId \subseteq Nat
  /\ QueryId \subseteq Nat
  /\ StageId \subseteq Nat
  /\ PartitionId \subseteq Nat
  /\ IsFiniteSet(PartitionKey)

ASSUME PlanAssumption == StagePlans \subseteq StagePlan

ASSUME InputAssumption ==
  /\ SlotCounts \subseteq Nat
  /\ Outputs \subseteq Seq(Nat)

\* CoordinatorConfig::validate.
ASSUME ConfigAssumption ==
  /\ LeaseDuration \in Nat \ {0}
  /\ HeartbeatTimeout \in Nat \ {0}
  /\ MaxTaskAttempts \in Nat \ {0}
  /\ MaxStagePartitions \in Nat \ {0}
  /\ TimeMax \in Nat

VARIABLES
  workers,    \* worker -> WorkerRuntime
  stages,     \* stage key -> StagePlan, or NoStage before submission
  parts,      \* partition key -> PartitionRuntime
  cancelled   \* the keys of cancelled_queries

vars == <<workers, stages, parts, cancelled>>

-----------------------------------------------------------------------------
(* State records.  Fields a Rust enum variant does not have hold defaults. *)

\* The free memory a worker reports is checked and stored, never used: left out.
WorkerRuntime == [status: {"unknown", "alive", "dead"}, slots: Nat,
                  available: Nat, observed: Time, received: Time]

PartitionRuntime ==
  [state: {"absent", "pending", "active", "cancelling", "succeeded", "failed",
           "cancelled"},
   attempt: Nat, worker: WorkerId \cup {NoWorker}, issued: Time, expires: Time,
   started: Time \cup {NoTime}, blocks: Seq(Nat), retryable: BOOLEAN]

Unleased(state, attempt, blocks, retryable) ==
  [state |-> state, attempt |-> attempt, worker |-> NoWorker, issued |-> 0,
   expires |-> 0, started |-> NoTime, blocks |-> blocks,
   retryable |-> retryable]

Absent == Unleased("absent", 0, << >>, FALSE)
Pending(nextAttempt) == Unleased("pending", nextAttempt, << >>, FALSE)
Succeeded(attempt, blocks) == Unleased("succeeded", attempt, blocks, FALSE)
Failed(attempt, retryable) == Unleased("failed", attempt, << >>, retryable)
Cancelled == Unleased("cancelled", 0, << >>, FALSE)
Active(attempt, w, t) ==
  [state |-> "active", attempt |-> attempt, worker |-> w, issued |-> t,
   expires |-> t + LeaseDuration, started |-> NoTime, blocks |-> << >>,
   retryable |-> FALSE]
Cancelling(p) == [p EXCEPT !.state = "cancelling", !.started = NoTime]

KeyOf(k) == <<k[1], k[2]>>

\* A partition holding a lease: Active or Cancelling.
Leased(p) == p.state \in {"active", "cancelling"}

Minimum(a, b) == IF a < b THEN a ELSE b

-----------------------------------------------------------------------------
(* Time.  Every call but submission, cancellation and reads first expires  *)
(* workers and leases.                                                     *)

TimedOut(W, t) ==
  {w \in WorkerId : /\ W[w].status = "alive"
                    /\ t - W[w].received > HeartbeatTimeout}

\* Mutant: leases being wound down are left to their workers.
ExpiredActiveOnly(W, P, t) ==
  {k \in PartitionKey : /\ P[k].state = "active"
                        /\ \/ P[k].worker \in TimedOut(W, t)
                           \/ P[k].expires <= t}

Expired(W, P, t) ==
  {k \in PartitionKey : /\ Leased(P[k])
                        /\ \/ P[k].worker \in TimedOut(W, t)
                           \/ P[k].expires <= t}

ExpiredOf(W, P, t, w) == {k \in Expired(W, P, t) : P[k].worker = w}

\* release_worker_slot, n times.
Released(r, n) ==
  IF r.status = "alive"
  THEN [r EXCEPT !.available = Minimum(r.available + n, r.slots)]
  ELSE r

\* Mutant: the attempt limit is off by one.
RetryOrFailOnceMore(attempt) ==
  IF attempt < MaxTaskAttempts THEN Pending(attempt + 1)
                               ELSE Failed(attempt, TRUE)

RetryOrFail(attempt) ==
  IF attempt + 1 < MaxTaskAttempts THEN Pending(attempt + 1)
                                   ELSE Failed(attempt, TRUE)

\* What becomes of a partition whose lease is given up.
Retired(p) ==
  IF p.state = "cancelling" THEN Cancelled ELSE RetryOrFail(p.attempt)

AdvancedWorkers(W, P, t) ==
  [w \in WorkerId |->
     IF w \in TimedOut(W, t)
     THEN [W[w] EXCEPT !.status = "dead", !.available = 0]
     ELSE Released(W[w], Cardinality(ExpiredOf(W, P, t, w)))]

AdvancedParts(W, P, t) ==
  [k \in PartitionKey |->
     IF k \in Expired(W, P, t) THEN Retired(P[k]) ELSE P[k]]

-----------------------------------------------------------------------------
(* Reads.                                                                  *)

PartitionsOf(key) ==
  {k \in PartitionKey : KeyOf(k) = key /\ k[3] < stages[key].partitions}

StageSucceeded(P, key) ==
  /\ stages[key] # NoStage
  /\ \A k \in PartitionsOf(key) : P[k].state = "succeeded"

DependenciesSucceeded(P, key) ==
  \A d \in stages[key].inputs : StageSucceeded(P, <<key[1], d>>)

LeasesOf(P, w) == {k \in PartitionKey : Leased(P[k]) /\ P[k].worker = w}

\* Mutant: a running sibling hides the failed partition of a stage.
StageStatusRunningFirst(key) ==
  LET states == {parts[k].state : k \in PartitionsOf(key)}
  IN  IF key[1] \in cancelled THEN "Cancelled"
      ELSE IF "active" \in states THEN "Running"
      ELSE IF "failed" \in states THEN "Failed"
      ELSE IF states \subseteq {"succeeded"} THEN "Succeeded"
      ELSE IF DependenciesSucceeded(parts, key) THEN "Ready"
      ELSE "Blocked"

StageStatus(key) ==
  LET states == {parts[k].state : k \in PartitionsOf(key)}
  IN  IF key[1] \in cancelled THEN "Cancelled"
      ELSE IF "failed" \in states THEN "Failed"
      ELSE IF states \subseteq {"succeeded"} THEN "Succeeded"
      ELSE IF "active" \in states THEN "Running"
      ELSE IF DependenciesSucceeded(parts, key) THEN "Ready"
      ELSE "Blocked"

\* Mutant: consumers are handed the blocks of every destination.
InputBlocksUnfiltered(P, k, j) == DOMAIN P[j].blocks

\* The positions of the blocks of producer j's manifest that an assignment of
\* k carries in input_blocks.
InputBlocks(P, k, j) ==
  {n \in DOMAIN P[j].blocks :
     stages[KeyOf(k)].partitioned => P[j].blocks[n] = k[3]}

-----------------------------------------------------------------------------
(* submit_stage.                                                           *)

\* StagePlan::validate.
ValidPlan(plan) ==
  /\ plan.partitions > 0
  /\ plan.partitioned => plan.inputs # {}
  /\ plan.stage \notin plan.inputs

SubmitStage(plan) ==
  LET key == <<plan.query, plan.stage>>
  IN  /\ ValidPlan(plan)
      /\ plan.partitions <= MaxStagePartitions
      /\ plan.query \notin cancelled
      /\ stages[key] = NoStage
      /\ \A d \in plan.inputs : stages[<<plan.query, d>>] # NoStage
      /\ plan.partitioned =>
           \A d \in plan.inputs :
              stages[<<plan.query, d>>].exchange = plan.partitions
      /\ plan.exchange <= MaxStagePartitions
      /\ stages' = [stages EXCEPT ![key] = plan]
      /\ parts' = [k \in PartitionKey |->
                     IF KeyOf(k) = key /\ k[3] < plan.partitions
                     THEN Pending(0) ELSE parts[k]]
      /\ UNCHANGED <<workers, cancelled>>

-----------------------------------------------------------------------------
(* Worker messages.                                                        *)

\* advance_time.  It is also all that a call does that is then rejected, or
\* finds nothing to assign: handle_worker_message, next_assignment and
\* next_assignment_for advance time before they look at anything else.  The
\* actions below are the calls that go through.
AdvanceTime(t) ==
  /\ workers' = AdvancedWorkers(workers, parts, t)
  /\ parts' = AdvancedParts(workers, parts, t)
  /\ UNCHANGED <<stages, cancelled>>

\* Only a worker identity never seen before may register.
RegisterWorker(w, slots, t) ==
  LET W == AdvancedWorkers(workers, parts, t)
  IN  /\ slots > 0
      /\ W[w].status = "unknown"
      /\ workers' = [W EXCEPT ![w] =
           [status |-> "alive", slots |-> slots, available |-> slots,
            observed |-> 0, received |-> t]]
      /\ parts' = AdvancedParts(workers, parts, t)
      /\ UNCHANGED <<stages, cancelled>>

\* Mutant: the worker's own count of free slots is trusted.
AcceptsHeartbeatUnchecked(W, P, w, observed, available) ==
  /\ W[w].status # "unknown"
  /\ observed >= W[w].observed
  /\ available <= W[w].slots

\* record_heartbeat's checks; `slots.saturating_sub(active_tasks)` bounds what
\* the worker may report as free.
AcceptsHeartbeat(W, P, w, observed, available) ==
  /\ W[w].status # "unknown"
  /\ observed >= W[w].observed
  /\ \/ available = 0
     \/ available + Cardinality(LeasesOf(P, w)) <= W[w].slots

\* The free slots a heartbeat may report: a larger count is never accepted.
FreeCounts == UNION {0 .. slots : slots \in SlotCounts}

RecordHeartbeat(w, observed, available, t) ==
  LET W == AdvancedWorkers(workers, parts, t)
      P == AdvancedParts(workers, parts, t)
  IN  /\ AcceptsHeartbeat(W, P, w, observed, available)
      /\ workers' = [W EXCEPT ![w] =
           [status |-> "alive", slots |-> W[w].slots, available |-> available,
            observed |-> observed, received |-> t]]
      /\ parts' = P
      /\ UNCHANGED <<stages, cancelled>>

\* A TaskState; `at` is its started_at_ms or finished_at_ms.
TaskState ==
  [kind: {"running", "cancelled"}, at: Time, blocks: {<< >>}, retryable: {FALSE}]
    \cup
  [kind: {"succeeded"}, at: Time, blocks: Outputs, retryable: {FALSE}]
    \cup
  [kind: {"failed"}, at: Time, blocks: {<< >>}, retryable: BOOLEAN]

\* Mutant: the last attempt of a failed partition is not recognised.
SupersededStrictly(p, attempt) ==
  \/ /\ p.state \in {"pending", "active", "cancelling", "succeeded", "failed"}
     /\ attempt < p.attempt
  \/ p.state = "cancelled"

\* Attempts the coordinator has already retired: their late reports are told
\* apart from malformed ones, because the worker must survive them.
Superseded(p, attempt) ==
  \/ /\ p.state \in {"pending", "active", "cancelling", "succeeded"}
     /\ attempt < p.attempt
  \/ /\ p.state = "failed"
     /\ attempt <= p.attempt
  \/ p.state = "cancelled"

\* "hash exchange must commit exactly one block per destination".
OneBlockPerDestination(plan, blocks) ==
  plan.exchange > 0 =>
    /\ Len(blocks) = plan.exchange
    /\ \A d \in 0 .. plan.exchange - 1 : \E n \in DOMAIN blocks : blocks[n] = d

ReportedTimeOK(p, at, t) == p.issued <= at /\ at < p.expires /\ at <= t

AcceptsUpdate(W, P, w, k, attempt, s, t) ==
  /\ W[w].status # "unknown"
  /\ Leased(P[k])
  /\ P[k].attempt = attempt
  /\ P[k].worker = w
  /\ s.kind = "succeeded" => OneBlockPerDestination(stages[KeyOf(k)], s.blocks)
  /\ P[k].state = "active" => t < P[k].expires
  /\ ReportedTimeOK(P[k], s.at, t)
  /\ P[k].state = "active" /\ s.kind = "running" =>
       P[k].started \in {NoTime, s.at}

\* Mutant: a success that races a cancellation is still committed.
UpdatedPartitionIgnoringCancel(p, s) ==
  CASE s.kind = "running" -> IF p.state = "active"
                             THEN [p EXCEPT !.started = s.at] ELSE p
    [] s.kind = "succeeded" -> Succeeded(p.attempt, s.blocks)
    [] s.kind \in {"failed", "cancelled"} /\ p.state = "cancelling" -> Cancelled
    [] s.kind = "failed" /\ p.state = "active" ->
         IF s.retryable THEN RetryOrFail(p.attempt) ELSE Failed(p.attempt, FALSE)
    [] s.kind = "cancelled" /\ p.state = "active" -> Cancelled

UpdatedPartition(p, s) ==
  CASE s.kind = "running" -> IF p.state = "active"
                             THEN [p EXCEPT !.started = s.at] ELSE p
    [] s.kind # "running" /\ p.state = "cancelling" -> Cancelled
    [] s.kind = "succeeded" /\ p.state = "active" -> Succeeded(p.attempt, s.blocks)
    [] s.kind = "failed" /\ p.state = "active" ->
         IF s.retryable THEN RetryOrFail(p.attempt) ELSE Failed(p.attempt, FALSE)
    [] s.kind = "cancelled" /\ p.state = "active" -> Cancelled

RecordTaskUpdate(w, k, attempt, s, t) ==
  LET W == AdvancedWorkers(workers, parts, t)
      P == AdvancedParts(workers, parts, t)
  IN  /\ AcceptsUpdate(W, P, w, k, attempt, s, t)
      /\ parts' = [P EXCEPT ![k] = UpdatedPartition(P[k], s)]
      /\ workers' = IF s.kind = "running" THEN W
                    ELSE [W EXCEPT ![w] = Released(W[w], 1)]
      /\ UNCHANGED <<stages, cancelled>>

-----------------------------------------------------------------------------
(* Assignment.                                                             *)

\* Mutant: stages start as soon as they are submitted.
AssignableEagerly(P, k) == P[k].state = "pending" /\ k[1] \notin cancelled

Assignable(P, k) ==
  /\ P[k].state = "pending"
  /\ k[1] \notin cancelled
  /\ DependenciesSucceeded(P, KeyOf(k))

\* The BTreeMap order of stages, then the partition index.
NotAfter(k, j) ==
  \/ k[1] < j[1]
  \/ k[1] = j[1] /\ k[2] < j[2]
  \/ k[1] = j[1] /\ k[2] = j[2] /\ k[3] <= j[3]

NextPending(P, k) ==
  /\ Assignable(P, k)
  /\ \A j \in PartitionKey : Assignable(P, j) => NotAfter(k, j)

HasFreeSlot(W, w) == W[w].status = "alive" /\ W[w].available > 0

\* Mutant: the deadline is computed without checking for overflow.
AssignUnchecked(W, P, w, t) ==
  \E k \in PartitionKey :
    /\ NextPending(P, k)
    /\ parts' = [P EXCEPT ![k] = Active(P[k].attempt, w, t)]
    /\ workers' = [W EXCEPT ![w].available = W[w].available - 1]

\* assign_to_worker.  A lease whose deadline would overflow is refused.
Assign(W, P, w, t) ==
  \E k \in PartitionKey :
    /\ NextPending(P, k)
    /\ t + LeaseDuration <= TimeMax
    /\ parts' = [P EXCEPT ![k] = Active(P[k].attempt, w, t)]
    /\ workers' = [W EXCEPT ![w].available = W[w].available - 1]

NextAssignmentFor(w, t) ==
  LET W == AdvancedWorkers(workers, parts, t)
      P == AdvancedParts(workers, parts, t)
  IN  /\ HasFreeSlot(W, w)
      /\ Assign(W, P, w, t)
      /\ UNCHANGED <<stages, cancelled>>

\* The in-process runner lets the coordinator pick the first free worker.
NextAssignment(t) ==
  LET W == AdvancedWorkers(workers, parts, t)
      P == AdvancedParts(workers, parts, t)
  IN  \E w \in WorkerId :
        /\ HasFreeSlot(W, w)
        /\ \A v \in WorkerId : HasFreeSlot(W, v) => w <= v
        /\ Assign(W, P, w, t)
        /\ UNCHANGED <<stages, cancelled>>

-----------------------------------------------------------------------------
(* cancel_query.  Cancelling again changes nothing, whatever the reason.   *)

\* Mutant: only the partitions in flight are cancelled.
CancelledPartitionInFlight(p) ==
  IF p.state = "active" THEN Cancelling(p) ELSE p

\* Mutant: finished partitions lose their output.
CancelledPartitionAll(p) ==
  CASE p.state = "active" -> Cancelling(p)
    [] p.state = "absent" -> p
    [] OTHER -> Cancelled

CancelledPartition(p) ==
  CASE p.state = "active" -> Cancelling(p)
    [] p.state \in {"absent", "succeeded"} -> p
    [] OTHER -> Cancelled

CancelQuery(q) ==
  /\ \E key \in StageKey : key[1] = q /\ stages[key] # NoStage
  /\ q \notin cancelled
  /\ parts' = [k \in PartitionKey |->
                 IF k[1] = q THEN CancelledPartition(parts[k]) ELSE parts[k]]
  /\ cancelled' = cancelled \cup {q}
  /\ UNCHANGED <<workers, stages>>

-----------------------------------------------------------------------------
Init ==
  /\ workers = [w \in WorkerId |->
                  [status |-> "unknown", slots |-> 0, available |-> 0,
                   observed |-> 0, received |-> 0]]
  /\ stages = [key \in StageKey |-> NoStage]
  /\ parts = [k \in PartitionKey |-> Absent]
  /\ cancelled = {}

Next ==
  \/ \E plan \in StagePlans : SubmitStage(plan)
  \/ \E q \in QueryId : CancelQuery(q)
  \/ \E t \in Time :
       \/ AdvanceTime(t)
       \/ NextAssignment(t)
       \/ \E w \in WorkerId :
            \/ NextAssignmentFor(w, t)
            \/ \E slots \in SlotCounts : RegisterWorker(w, slots, t)
            \/ \E observed \in Time, available \in FreeCounts :
                 RecordHeartbeat(w, observed, available, t)
            \/ \E k \in PartitionKey, attempt \in 0 .. MaxTaskAttempts - 1,
                  s \in TaskState :
                 RecordTaskUpdate(w, k, attempt, s, t)

Spec == Init /\ [][Next]_vars

-----------------------------------------------------------------------------
(* Properties.                                                             *)

\* Every piece of coordinator state has the shape of its Rust type.
TypeOK ==
  /\ workers \in [WorkerId -> WorkerRuntime]
  /\ stages \in [StageKey -> StagePlans \cup {NoStage}]
  /\ parts \in [PartitionKey -> PartitionRuntime]
  /\ cancelled \subseteq QueryId

\* No worker is overbooked: the slots the coordinator believes free and the
\* leases it has out never exceed the slots registered, through expiries,
\* heartbeats, cancellations and late reports; and a worker that timed out
\* holds no lease (advance_time, release_worker_slot, record_heartbeat).
SlotAccounting ==
  \A w \in WorkerId :
    /\ Cardinality(LeasesOf(parts, w)) + workers[w].available <= workers[w].slots
    /\ workers[w].status # "alive" =>
         LeasesOf(parts, w) = {} /\ workers[w].available = 0

\* Cancelling a query fences it: none of its partitions is running or will be
\* assigned again, and only cancelled queries have leases being wound down
\* (cancel_query, submit_stage, next_pending_partition).
CancellationFence ==
  \A k \in PartitionKey :
    /\ k[1] \in cancelled =>
         parts[k].state \in {"absent", "cancelling", "succeeded", "cancelled"}
    /\ parts[k].state = "cancelling" => k[1] \in cancelled

\* A partition that has ever been assigned and was not cancelled since.
EverAssigned(p) ==
  \/ p.state \in {"active", "cancelling", "succeeded", "failed"}
  \/ p.state = "pending" /\ p.attempt > 0

\* A stage starts only after all its dependencies committed, and they stay
\* committed while it runs, retries and finishes (dependencies_succeeded).
DependencyGate ==
  \A k \in PartitionKey :
    EverAssigned(parts[k]) => DependenciesSucceeded(parts, KeyOf(k))

\* A running task of a stage with partitioned input was handed, from every
\* producer of every dependency, exactly one block: its own (submit_stage's
\* exchange check, record_task_update's manifest check and the input filter of
\* assign_to_worker together).
InputsExactlyOnce ==
  \A k \in PartitionKey :
    parts[k].state = "active" /\ stages[KeyOf(k)].partitioned =>
      \A d \in stages[KeyOf(k)].inputs :
        \A j \in PartitionsOf(<<k[1], d>>) :
          \E n \in DOMAIN parts[j].blocks : InputBlocks(parts, k, j) = {n}

\* Committed output is immutable: once an attempt of a partition succeeded, no
\* late report, expiry or cancellation changes which attempt or which blocks.
CommittedOutputIsFinal ==
  [][\A k \in PartitionKey :
       parts[k].state = "succeeded" => parts'[k] = parts[k]]_vars

\* Position of a partition in its life: attempts count up, and within an
\* attempt a partition is queued, leased, started, cancelling, failed.
Rank(p) ==
  CASE p.state = "absent" -> 0
    [] p.state = "pending" -> 5 * p.attempt + 1
    [] p.state = "active" -> 5 * p.attempt + IF p.started = NoTime THEN 2 ELSE 3
    [] p.state = "cancelling" -> 5 * p.attempt + 4
    [] p.state = "failed" -> 5 * p.attempt + 5
    [] p.state \in {"succeeded", "cancelled"} -> 5 * MaxTaskAttempts + 1

\* A partition only moves forward: whatever happens to it raises its rank, so
\* an attempt number is leased at most once and at most MaxTaskAttempts
\* attempts are ever made (retry_or_fail, Superseded reports).
LifecycleProgress ==
  [][\A k \in PartitionKey :
       parts'[k] # parts[k] =>
         /\ Rank(parts'[k]) > Rank(parts[k])
         /\ Rank(parts'[k]) <= 5 * MaxTaskAttempts + 1]_vars

\* What a driver has read of a stage stays true until the query is cancelled:
\* a succeeded or failed stage never looks unfinished again (stage_status).
StatusIsStable ==
  [][\A key \in StageKey :
       stages[key] # NoStage /\ StageStatus(key) \in {"Succeeded", "Failed", "Cancelled"}
         => StageStatus(key)' \in {StageStatus(key), "Cancelled"}]_vars

-----------------------------------------------------------------------------
(* The promise to drivers, in the terms of OutputCommit.                   *)

NoOutput == [attempt |-> -1, blocks |-> << >>]

CommittedOutput ==
  [k \in PartitionKey |->
     IF parts[k].state = "succeeded"
     THEN [attempt |-> parts[k].attempt, blocks |-> parts[k].blocks]
     ELSE NoOutput]

Promise == INSTANCE OutputCommit
             WITH plan <- stages, output <- CommittedOutput, closed <- cancelled

\* Whatever workers report and however often attempts are retried, drivers see
\* a sequence of single, complete, dependency-ordered commits, and none after
\* a cancellation: the coordinator implements OutputCommit.
ImplementsOutputCommit == Promise!OSpec
=============================================================================
