------------------------------ MODULE Cluster ------------------------------
(***************************************************************************)
(* The coordinator behind its control-plane service, and the remote        *)
(* workers that call it: src/src/cluster/control_plane.rs and worker.rs.   *)
(*                                                                         *)
(* A worker's event loop is sequential: it waits for the reply of a call   *)
(* before it looks at anything else, so a call is one step for each lock   *)
(* its handler takes, at the coordinator's current time.  The tasks a      *)
(* worker runs, the clock, the clients and the other workers move between  *)
(* the steps.  A call that fails in transport ends the worker: that is     *)
(* Crash, taken before the call's step (request lost) or after it (reply   *)
(* lost), and JoinAnswerLost for the reply to a task's final report.       *)
(***************************************************************************)
EXTENDS Coordinator

CONSTANTS MaxRestarts   \* how often an operator restarts a lost worker

ASSUME RestartAssumption == MaxRestarts \in Nat

\* The manifest a task uploads: a block per destination of the exchange, or one
\* block named after the partition.
Manifest(plan, partition) ==
  IF plan.exchange = 0 THEN <<partition>>
  ELSE [n \in 1 .. plan.exchange |-> n - 1]

\* Outputs holds what these workers report.
ASSUME ManifestAssumption ==
  \A plan \in StagePlans, partition \in PartitionId :
    Manifest(plan, partition) \in Outputs

VARIABLES
  clock,      \* the coordinator host's clock, here without steps backwards
  phase,      \* where each worker process is in its life
  active,     \* worker -> its `active` map and JoinSet: the tasks it runs
  asking,     \* worker -> its poll found no message and goes on to the coordinator
  starting,   \* worker -> the assignment whose start it has yet to report
  told,       \* worker -> its cancelled_queries
  inbox,      \* worker -> its queue in pending_messages, of query ids
  notifying,  \* query -> workers a cancel handler has still to queue it for
  stored,     \* worker -> attempts whose blocks its data plane holds
  ranOn,      \* history: <<partition, attempt, worker>> ever leased
  restarts    \* worker -> restarts so far

workerVars == <<phase, active, asking, starting, told, stored, restarts>>
serviceVars == <<inbox, notifying>>
cvars == <<vars, clock, workerVars, serviceVars, ranOn>>

\* Phases: "down" before the process starts; "up" and "stopping" in the event
\* loop; "left" after a clean exit; "gone" after a crash or a failed call;
\* "refused" when the coordinator rejected a call; "turnedAway" when it
\* rejected the registration.

\* A running or finished task; `token` is its CancellationToken, and status its
\* result in the JoinSet: Ok, Err(Cancelled), a retryable error, another one.
Statuses == {"running", "ok", "cancelled", "retryable", "fatal"}

NewTask(lease) ==
  [key |-> lease.key, attempt |-> lease.attempt, issued |-> lease.issued,
   token |-> FALSE, status |-> "running"]

Live(w) == phase[w] \in {"up", "stopping"}
InLoop(w) == Live(w) /\ ~asking[w] /\ starting[w] = {}
QueryOf(task) == task.key[1]

\* A cancelled token stays so; the finished tasks are not affected by it.
CancelTokens(tasks) == {[x EXCEPT !.token = TRUE] : x \in tasks}

W0 == AdvancedWorkers(workers, parts, clock)
P0 == AdvancedParts(workers, parts, clock)

-----------------------------------------------------------------------------
(* The worker's life.                                                      *)

\* Binding the data plane, connecting and registering.
Register(w) ==
  /\ phase[w] = "down"
  /\ \E slots \in SlotCounts :
       \/ RegisterWorker(w, slots, clock) /\ phase' = [phase EXCEPT ![w] = "up"]
       \/ /\ W0[w].status # "unknown"
          /\ AdvanceTime(clock)
          /\ phase' = [phase EXCEPT ![w] = "turnedAway"]
  /\ UNCHANGED <<clock, active, asking, starting, told, stored, restarts,
                 serviceVars, ranOn>>

\* The process dies, or returns the error of a call that did not go through.
Crash(w) ==
  /\ Live(w)
  /\ phase' = [phase EXCEPT ![w] = "gone"]
  /\ active' = [active EXCEPT ![w] = {}]
  /\ asking' = [asking EXCEPT ![w] = FALSE]
  /\ starting' = [starting EXCEPT ![w] = {}]
  /\ told' = [told EXCEPT ![w] = {}]
  /\ UNCHANGED <<vars, clock, stored, restarts, serviceVars, ranOn>>

\* An operator starts the same worker again, on its data directory.
Restart(w) ==
  /\ phase[w] = "gone"
  /\ restarts[w] < MaxRestarts
  /\ phase' = [phase EXCEPT ![w] = "down"]
  /\ restarts' = [restarts EXCEPT ![w] = @ + 1]
  /\ UNCHANGED <<vars, clock, active, asking, starting, told, stored, serviceVars,
                 ranOn>>

\* Ctrl+C, or max_terminal_tasks reached: every token is cancelled.
Shutdown(w) ==
  /\ phase[w] = "up"
  /\ InLoop(w)
  /\ phase' = [phase EXCEPT ![w] = "stopping"]
  /\ active' = [active EXCEPT ![w] = CancelTokens(@)]
  /\ UNCHANGED <<vars, clock, asking, starting, told, stored, restarts, serviceVars,
                 ranOn>>

\* The loop ends and the data plane is closed.
Leave(w) ==
  /\ phase[w] = "stopping"
  /\ active[w] = {}
  /\ phase' = [phase EXCEPT ![w] = "left"]
  /\ UNCHANGED <<vars, clock, active, asking, starting, told, stored, restarts,
                 serviceVars, ranOn>>

-----------------------------------------------------------------------------
(* Heartbeats.                                                             *)

AvailableSlots(w) ==
  IF Cardinality(active[w]) > workers[w].slots THEN 0
  ELSE workers[w].slots - Cardinality(active[w])

Heartbeat(w) ==
  /\ InLoop(w)
  /\ \/ /\ RecordHeartbeat(w, clock, AvailableSlots(w), clock)
        /\ UNCHANGED phase
     \/ /\ ~AcceptsHeartbeat(W0, P0, w, clock, AvailableSlots(w))
        /\ AdvanceTime(clock)
        /\ phase' = [phase EXCEPT ![w] = "refused"]
  /\ UNCHANGED <<clock, active, asking, starting, told, stored, restarts,
                 serviceVars, ranOn>>

-----------------------------------------------------------------------------
(* Polling.  The service pops a queued cancellation under one lock and, if *)
(* there is none and the worker has room, looks for work under another.    *)

PollCancellation(w) ==
  /\ phase[w] = "up"
  /\ InLoop(w)
  /\ inbox[w] # << >>
  /\ told' = [told EXCEPT ![w] = @ \cup {Head(inbox[w])}]
  /\ active' = [active EXCEPT ![w] =
       {IF QueryOf(x) = Head(inbox[w]) THEN [x EXCEPT !.token = TRUE] ELSE x :
          x \in @}]
  /\ inbox' = [inbox EXCEPT ![w] = Tail(@)]
  /\ UNCHANGED <<vars, clock, phase, asking, starting, stored, restarts, notifying,
                 ranOn>>

\* Mutant: the worker leaves the count to the coordinator.
HasRoomAlways(w) == TRUE

HasRoom(w) == Cardinality(active[w]) < workers[w].slots

PollFindsNoMessage(w) ==
  /\ phase[w] = "up"
  /\ InLoop(w)
  /\ inbox[w] = << >>
  /\ HasRoom(w)
  /\ asking' = [asking EXCEPT ![w] = TRUE]
  /\ UNCHANGED <<vars, clock, phase, active, starting, told, stored, restarts,
                 serviceVars, ranOn>>

\* TimeMax is the horizon of the model: no lease is issued that outlasts it.
WorkFor(w) ==
  /\ HasFreeSlot(W0, w)
  /\ \E k \in PartitionKey : Assignable(P0, k)
  /\ clock + LeaseDuration <= TimeMax

PollAssignment(w) ==
  /\ asking[w]
  /\ asking' = [asking EXCEPT ![w] = FALSE]
  /\ \/ /\ NextAssignmentFor(w, clock)
        /\ \E k \in PartitionKey :
             /\ P0[k].state = "pending" /\ parts'[k].state = "active"
             /\ starting' = [starting EXCEPT ![w] =
                  {[key |-> k, attempt |-> P0[k].attempt, issued |-> clock]}]
             /\ ranOn' = ranOn \cup {<<k, P0[k].attempt, w>>}
     \/ /\ ~WorkFor(w)
        /\ AdvanceTime(clock)
        /\ UNCHANGED <<starting, ranOn>>
  /\ UNCHANGED <<clock, phase, active, told, stored, restarts, serviceVars>>

-----------------------------------------------------------------------------
(* Task updates.                                                           *)

Update(kind, lease, blocks, retryable) ==
  [kind |-> kind, at |-> lease.issued, blocks |-> blocks,
   retryable |-> retryable]

\* What handle_worker_message answers.
Reply(w, lease, s) ==
  IF AcceptsUpdate(W0, P0, w, lease.key, lease.attempt, s, clock) THEN "ok"
  ELSE IF Superseded(P0[lease.key], lease.attempt) THEN "superseded"
  ELSE "refused"

Handle(w, lease, s) ==
  IF Reply(w, lease, s) = "ok"
  THEN RecordTaskUpdate(w, lease.key, lease.attempt, s, clock)
  ELSE AdvanceTime(clock)

\* A worker survives only the "superseded" error.
PhaseAfter(w, reply) ==
  IF reply = "refused" THEN [phase EXCEPT ![w] = "refused"] ELSE phase

\* The assignment received, the worker reports Running and only then runs it.
Start(w) ==
  /\ Live(w)
  /\ \E lease \in starting[w] :
       LET s == Update("running", lease, << >>, FALSE)
       IN  /\ Handle(w, lease, s)
           /\ active' = [active EXCEPT ![w] =
                IF Reply(w, lease, s) = "ok" THEN @ \cup {NewTask(lease)} ELSE @]
           /\ phase' = PhaseAfter(w, Reply(w, lease, s))
  /\ starting' = [starting EXCEPT ![w] = {}]
  /\ UNCHANGED <<clock, asking, told, stored, restarts, serviceVars, ranOn>>

ManifestOf(k) == Manifest(stages[KeyOf(k)], k[3])

\* The state reported for a finished task.
TerminalState(w, x) ==
  IF QueryOf(x) \in told[w] THEN Update("cancelled", x, << >>, FALSE)
  ELSE CASE x.status = "ok" -> Update("succeeded", x, ManifestOf(x.key), FALSE)
         [] x.status = "cancelled" /\ phase[w] = "stopping" ->
              Update("failed", x, << >>, TRUE)
         [] x.status = "cancelled" /\ phase[w] = "up" ->
              Update("cancelled", x, << >>, FALSE)
         [] x.status = "retryable" -> Update("failed", x, << >>, TRUE)
         [] x.status = "fatal" -> Update("failed", x, << >>, FALSE)

\* Mutant: a cancellation that came too late still discards the output.
KeepsBlocksUnlessCancelled(w, x) ==
  LET s == TerminalState(w, x)
  IN  s.kind = "succeeded" /\ Reply(w, x, s) = "ok" /\ ~x.token

\* Blocks stay only if their manifest was reported and accepted.
KeepsBlocks(w, x) ==
  LET s == TerminalState(w, x)
  IN  s.kind = "succeeded" /\ Reply(w, x, s) = "ok"

Join(w, x) ==
  LET s == TerminalState(w, x)
  IN  /\ InLoop(w)
      /\ x.status # "running"
      /\ Handle(w, x, s)
      /\ active' = [active EXCEPT ![w] = @ \ {x}]
      /\ stored' = IF KeepsBlocks(w, x) THEN stored
                   ELSE [stored EXCEPT ![w] = @ \ {<<x.key, x.attempt>>}]
      /\ phase' = PhaseAfter(w, Reply(w, x, s))
      /\ UNCHANGED <<clock, asking, starting, told, restarts, serviceVars, ranOn>>

\* The answer to a report is lost in transport: the coordinator may have applied
\* it, and the worker deletes the blocks it named and returns the error.
JoinAnswerLost(w, x) ==
  LET s == TerminalState(w, x)
  IN  /\ InLoop(w)
      /\ x.status # "running"
      /\ Handle(w, x, s)
      /\ phase' = [phase EXCEPT ![w] = "gone"]
      /\ active' = [active EXCEPT ![w] = {}]
      /\ told' = [told EXCEPT ![w] = {}]
      /\ stored' = [stored EXCEPT ![w] = @ \ {<<x.key, x.attempt>>}]
      /\ UNCHANGED <<clock, asking, starting, restarts, serviceVars, ranOn>>

-----------------------------------------------------------------------------
(* Task execution, concurrent with the loop.                               *)

\* The committed input blocks of k can all be downloaded.
InputsAvailable(k) ==
  \A d \in stages[KeyOf(k)].inputs : \A j \in PartitionsOf(<<k[1], d>>) :
    \E v \in WorkerId :
      Live(v) /\ <<j, parts[j].attempt>> \in stored[v]

\* What a task uploaded before it failed is not tracked: Join deletes the blocks
\* the failing assignment names, and no manifest ever refers to them.
\* execute_assignment returns.  Its select! takes any branch that is ready: the
\* work done, the token cancelled, the lease's deadline passed, or an error.
Ended(x, status) == [x EXCEPT !.status = status,
                              !.token = x.token \/ status # "ok"]

TaskEnds(w, x, status) ==
  /\ Live(w)
  /\ x.status = "running"
  /\ status = "cancelled" => x.token
  /\ status = "ok" => InputsAvailable(x.key)
  /\ active' = [active EXCEPT ![w] = (@ \ {x}) \cup {Ended(x, status)}]
  /\ stored' = IF status = "ok"
               THEN [stored EXCEPT ![w] = @ \cup {<<x.key, x.attempt>>}]
               ELSE stored
  /\ UNCHANGED <<vars, clock, phase, asking, starting, told, restarts, serviceVars,
                 ranOn>>

-----------------------------------------------------------------------------
(* Clients and time.                                                       *)

Submit(plan) ==
  /\ SubmitStage(plan)
  /\ UNCHANGED <<clock, workerVars, serviceVars, ranOn>>

\* Mutant: the workers are looked up after their leases were marked.
CancelThenLookUp(q) ==
  /\ CancelQuery(q)
  /\ notifying' = [notifying EXCEPT ![q] =
       {w \in WorkerId : \E k \in PartitionKey :
          k[1] = q /\ parts'[k].state = "active" /\ parts'[k].worker = w}]
  /\ UNCHANGED <<clock, workerVars, inbox, ranOn>>

\* active_workers_for_query and cancel_query under one lock ...
Cancel(q) ==
  /\ CancelQuery(q)
  /\ notifying' = [notifying EXCEPT ![q] =
       {w \in WorkerId : \E k \in PartitionKey :
          k[1] = q /\ parts[k].state = "active" /\ parts[k].worker = w}]
  /\ UNCHANGED <<clock, workerVars, inbox, ranOn>>

\* ... and, that lock released, the message queued for each of them.
Notify(q) ==
  /\ notifying[q] # {}
  /\ inbox' = [w \in WorkerId |->
       IF w \in notifying[q] THEN Append(inbox[w], q) ELSE inbox[w]]
  /\ notifying' = [notifying EXCEPT ![q] = {}]
  /\ UNCHANGED <<vars, clock, workerVars, ranOn>>

Tick ==
  /\ clock < TimeMax
  /\ clock' = clock + 1
  /\ UNCHANGED <<vars, workerVars, serviceVars, ranOn>>

-----------------------------------------------------------------------------
CInit ==
  /\ Init
  /\ clock = 0
  /\ phase = [w \in WorkerId |-> "down"]
  /\ active = [w \in WorkerId |-> {}]
  /\ asking = [w \in WorkerId |-> FALSE]
  /\ starting = [w \in WorkerId |-> {}]
  /\ told = [w \in WorkerId |-> {}]
  /\ inbox = [w \in WorkerId |-> << >>]
  /\ notifying = [q \in QueryId |-> {}]
  /\ stored = [w \in WorkerId |-> {}]
  /\ ranOn = {}
  /\ restarts = [w \in WorkerId |-> 0]

Worker(w) ==
  \/ Register(w)
  \/ Crash(w)
  \/ Restart(w)
  \/ Shutdown(w)
  \/ Leave(w)
  \/ Heartbeat(w)
  \/ PollCancellation(w)
  \/ PollFindsNoMessage(w)
  \/ PollAssignment(w)
  \/ Start(w)
  \/ \E x \in active[w] :
       \/ Join(w, x)
       \/ JoinAnswerLost(w, x)
       \/ \E status \in Statuses \ {"running"} : TaskEnds(w, x, status)

CNext ==
  \/ \E w \in WorkerId : Worker(w)
  \/ \E plan \in StagePlans : Submit(plan)
  \/ \E q \in QueryId : Cancel(q) \/ Notify(q)
  \/ Tick

CSpec == CInit /\ [][CNext]_cvars

\* Intervals keep ticking and select! picks among the ready branches, so a live
\* worker goes on calling the coordinator and joining its tasks; a task ends, by
\* its lease's deadline at the latest; time passes.  Nothing makes clients act,
\* a cancel message arrive or workers stop or come back.
Fairness ==
  /\ WF_cvars(Tick)
  /\ \A w \in WorkerId :
       /\ WF_cvars(Heartbeat(w))
       /\ WF_cvars(PollAssignment(w))
       /\ WF_cvars(Start(w))
       /\ WF_cvars(\E x \in active[w] : Join(w, x))
       /\ WF_cvars(\E x \in active[w], status \in Statuses \ {"running"} :
                     TaskEnds(w, x, status))

FairCSpec == CSpec /\ Fairness

-----------------------------------------------------------------------------
(* Properties.                                                             *)

\* Any error but TaskSuperseded ends a worker.  As long as the clock does not
\* step back none is ever returned to it, whatever expires, is reassigned or is
\* cancelled while its heartbeats and reports are on their way: its heartbeat
\* never claims a slot the coordinator holds a lease for, and every report is
\* accepted or recognised as superseded (run_until, record_heartbeat,
\* record_task_update).
NoWorkerRefused == \A w \in WorkerId : phase[w] # "refused"

\* A worker never runs more tasks than it has slots, although the coordinator
\* takes a slot back when a lease expires and the task runs on
\* (poll_assignment_with_capacity); so run_until never has to reject an
\* assignment for want of a slot.
NoOverbooking ==
  \A w \in WorkerId :
    Live(w) => Cardinality(active[w]) + Cardinality(starting[w]) <= workers[w].slots

\* The attempt a live worker is to stop: its lease is being wound down.
MustStop(w, x) ==
  /\ parts[x.key].state = "cancelling"
  /\ parts[x.key].attempt = x.attempt
  /\ parts[x.key].worker = w

\* A cancellation is never lost on its way to a task: until the task's token is
\* cancelled the message is in the worker's queue or about to be put there,
\* also for a task whose start was reported after the query was cancelled
\* (do_action's two locks, the polling branch, run_until's start report).
CancellationReaches ==
  \A w \in WorkerId : Live(w) =>
    \A x \in active[w] \cup {NewTask(lease) : lease \in starting[w]} :
      MustStop(w, x) /\ x.status = "running" =>
        \/ x.token
        \/ w \in notifying[QueryOf(x)]
        \/ \E n \in DOMAIN inbox[w] : inbox[w][n] = QueryOf(x)

\* Output that was committed is served: the worker that ran the committed
\* attempt still holds its blocks while it lives, so consumers and the driver
\* can download what the manifest names (discard_output_blocks).
CommittedBlocksServed ==
  \A k \in PartitionKey, w \in WorkerId :
    /\ parts[k].state = "succeeded"
    /\ <<k, parts[k].attempt, w>> \in ranOn
    /\ Live(w)
    => <<k, parts[k].attempt>> \in stored[w]

SomeWorkerLives == \E w \in WorkerId : Live(w)

\* A lease that nobody works for, or a task that nobody waits for.
Unreleased ==
  \/ \E w \in WorkerId : phase[w] = "gone" /\ LeasesOf(parts, w) # {}
  \/ \E k \in PartitionKey : k[1] \in cancelled /\ Leased(parts[k])
  \/ \E w \in WorkerId : Live(w) /\ \E x \in active[w] : QueryOf(x) \in cancelled

\* The cluster is released again and again: the lease of a worker that vanished is taken
\* back, a cancelled query loses its leases, and no live worker goes on working on it.
\* This takes some worker that calls the coordinator, which has no timer of its own
\* (advance_time runs only inside worker calls; cancel_query, expire_tasks).
ClusterIsReleased == []<>(SomeWorkerLives => ~Unreleased)

\* "To retrieve old manifests after restart, keep the worker identity and
\* advertised address/port unchanged": a worker restarted under its identity
\* gets its place back (docs/SHUFFLE_STORAGE.md, register_worker).
WorkerReadmitted == \A w \in WorkerId : phase[w] # "turnedAway"
=============================================================================
