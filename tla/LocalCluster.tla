---------------------------- MODULE LocalCluster ----------------------------
(***************************************************************************)
(* LocalCluster::execute of src/src/cluster/distributed.rs: an aggregate   *)
(* is computed by tasks of one process, one for each partition, as many at *)
(* a time as there are workers; their partial batches cross a loopback     *)
(* Flight exchange one by one and are merged.  The coordinator it drives   *)
(* never expires a lease and allows one attempt (see Coordinator): what is *)
(* left of it is the order of the partitions and a slot for each worker.   *)
(*                                                                         *)
(* Memory is counted in rows: a task holds the rows it collected and the   *)
(* groups it builds, the loop holds the partial rows it received, and the  *)
(* merge its groups.                                                       *)
(***************************************************************************)
EXTENDS Distributed, FiniteSetsExt

CONSTANTS
  Inputs,        \* what execute may be called with
  Workers,       \* LocalCluster's workers
  MessageRows,   \* rows of a partial batch that fit into one Flight message
  MemoryLimit    \* the query's memory

\* An input: the rows of each partition, a key and a value each, and whether there is
\* a GROUP BY.
ASSUME InputAssumption ==
  \A i \in Inputs : /\ i.table \in Seq(Seq(Nat \X Nat)) /\ Len(i.table) > 0
                    /\ i.grouped \in BOOLEAN

ASSUME ConfigAssumption ==
  /\ Workers \in Nat \ {0}
  /\ MessageRows \in Nat \ {0}
  /\ MemoryLimit \in Nat

VARIABLES
  input,
  at,         \* where execute is
  task,       \* partition -> state of its task
  kept,       \* partition -> memory its task holds
  current,    \* the partition joined last
  batches,    \* partial_batches
  shuffle,    \* shuffle_reservation
  result,
  token,      \* the client's CancellationToken
  cause       \* history: something went wrong, or the client cancelled

tasksVars == <<task, kept>>
loopVars == <<at, current, batches, shuffle, result>>
vars == <<input, tasksVars, loopVars, token, cause>>

Partitions == DOMAIN input.table
MostPartitions == Max({Len(i.table) : i \in Inputs})
Over == at \in {"ok", "err"}

Used == shuffle + FoldFunction(+, 0, kept)
Fits(rows) == Used + rows <= MemoryLimit

\* The rows of the partial batch of a partition.
Batch(p) == PartialOf(input.table[p], input.grouped)

\* What the plan computes without a cluster.
Native(i) == IF i.grouped THEN GroupBy(Concat(i.table)) ELSE Aggregate(Concat(i.table))

-----------------------------------------------------------------------------
(* Tasks.                                                                  *)

Alive(p) == task[p] \in {"spawned", "collected"}
Ended(p) == task[p] \in {"done", "failed"}

\* Mutant: only a task that succeeds gives its memory back.
EndTaskKeeps(p, outcome) ==
  /\ task' = [task EXCEPT ![p] = outcome]
  /\ kept' = [kept EXCEPT ![p] = IF outcome = "done" THEN 0 ELSE @]

EndTask(p, outcome) ==
  /\ task' = [task EXCEPT ![p] = outcome]
  /\ kept' = [kept EXCEPT ![p] = 0]

TaskFails(p) == EndTask(p, "failed") /\ cause' = TRUE

\* The input is executed and collected, which fails when a scan or an expression
\* does, when memory is short, and on cancellation.
Collect(p) ==
  /\ task[p] = "spawned" /\ ~Over
  /\ \/ /\ ~token /\ Fits(Len(input.table[p]))
        /\ task' = [task EXCEPT ![p] = "collected"]
        /\ kept' = [kept EXCEPT ![p] = Len(input.table[p])]
        /\ UNCHANGED cause
     \/ TaskFails(p)
  /\ UNCHANGED <<input, loopVars, token>>

\* The partial aggregate is computed between two awaits.
PartialAggregation(p) ==
  /\ task[p] = "collected" /\ ~Over
  /\ \/ ~token /\ Fits(Len(Batch(p))) /\ EndTask(p, "done") /\ UNCHANGED cause
     \/ (token \/ ~Fits(Len(Batch(p)))) /\ TaskFails(p)
  /\ UNCHANGED <<input, loopVars, token>>

\* execute has returned and dropped its JoinSet: a task goes at its next await.
Dropped(p) ==
  /\ Over /\ Alive(p)
  /\ EndTask(p, "dropped")
  /\ UNCHANGED <<input, loopVars, token, cause>>

-----------------------------------------------------------------------------
(* execute.                                                                *)

Return(where, value) ==
  /\ at' = where
  /\ result' = value
  /\ shuffle' = 0
  /\ UNCHANGED <<current, batches>>

Fail == Return("err", << >>)

\* A call of the loop's own fails, or the token is found cancelled.
Fault == Fail /\ cause' = TRUE

\* One partition, or a shape that is not split, is left to the native executor;
\* otherwise the exchange's server is started.
Begin ==
  /\ at = "begin"
  /\ \/ /\ ~token /\ Len(input.table) = 1
        /\ Return("ok", Native(input)) /\ UNCHANGED cause
     \/ /\ ~token /\ Len(input.table) > 1
        /\ at' = "head" /\ UNCHANGED <<current, batches, shuffle, result, cause>>
     \/ Fault
  /\ UNCHANGED <<input, tasksVars, token>>

\* Workers without a lease; there are no more of them than partitions.
Free == Workers - Cardinality({p \in Partitions : Alive(p) \/ Ended(p)})

\* next_assignment until it has none: pending partitions in order, one a worker.
Assigned ==
  [p \in Partitions |->
     IF /\ task[p] = "pending"
        /\ Cardinality({r \in 1 .. p : task[r] = "pending"}) <= Free
     THEN "spawned" ELSE task[p]]

LoopHead ==
  /\ at = "head"
  /\ \/ /\ Len(batches) >= Len(input.table)
        /\ at' = "close"
        /\ UNCHANGED <<task, current, batches, shuffle, result, cause>>
     \/ /\ Len(batches) < Len(input.table) /\ ~token
        /\ task' = Assigned
        /\ at' = "join"
        /\ UNCHANGED <<current, batches, shuffle, result, cause>>
     \/ /\ Len(batches) < Len(input.table) /\ token
        /\ Fault
        /\ UNCHANGED task
  /\ UNCHANGED <<input, kept, token>>

\* join_next: whichever task ended first; its slot is free again.
Join ==
  /\ at = "join"
  /\ \/ \E p \in Partitions :
          /\ task[p] = "done"
          /\ task' = [task EXCEPT ![p] = "joined"]
          /\ current' = p
          /\ at' = "ship"
          /\ UNCHANGED <<batches, shuffle, result>>
     \/ \E p \in Partitions :
          /\ task[p] = "failed"
          /\ task' = [task EXCEPT ![p] = "joined"]
          /\ Fail
     \/ /\ \A p \in Partitions : ~Alive(p) /\ ~Ended(p)
        /\ Fail
        /\ UNCHANGED task
  /\ UNCHANGED <<input, kept, token, cause>>

\* The partial batch is reserved for, then sent.
Ship ==
  /\ at = "ship"
  /\ \/ /\ Fits(Len(Batch(current)))
        /\ shuffle' = shuffle + Len(Batch(current))
        /\ at' = "exchange"
        /\ UNCHANGED <<current, batches, result, cause>>
     \/ ~Fits(Len(Batch(current))) /\ Fault
  /\ UNCHANGED <<input, tasksVars, token>>

\* The Flight encoder cuts a batch into messages and sends none for no rows.
Messages(rows) ==
  LET count == (Len(rows) + MessageRows - 1) \div MessageRows
  IN  [n \in 1 .. count |->
         SubSeq(rows, (n - 1) * MessageRows + 1, Min({n * MessageRows, Len(rows)}))]

\* Mutant: only the first message of the answer is kept.
ReceiveFirst ==
  /\ at = "exchange"
  /\ \/ /\ ~token
        /\ batches' = batches \o SubSeq(Messages(Batch(current)), 1, Min({1, Len(Batch(current))}))
        /\ at' = "head"
        /\ UNCHANGED <<current, shuffle, result, cause>>
     \/ Fault
  /\ UNCHANGED <<input, tasksVars, token>>

\* The exchange answers with what it was sent; its rows stay reserved.
Receive ==
  /\ at = "exchange"
  /\ \/ /\ ~token
        /\ batches' = batches \o Messages(Batch(current))
        /\ at' = "head"
        /\ UNCHANGED <<current, shuffle, result, cause>>
     \/ Fault
  /\ UNCHANGED <<input, tasksVars, token>>

\* The exchange is closed and the partials are merged.
Close ==
  /\ at = "close"
  /\ LET merged == MergePartials(batches, input.grouped)
     IN  \/ /\ ~token /\ Fits(Len(merged))
            /\ Return("ok", merged)
            /\ UNCHANGED cause
         \/ Fault
  /\ UNCHANGED <<input, tasksVars, token>>

Cancel ==
  /\ ~token /\ ~Over
  /\ token' = TRUE
  /\ cause' = TRUE
  /\ UNCHANGED <<input, tasksVars, loopVars>>

-----------------------------------------------------------------------------
Init ==
  /\ input \in Inputs
  /\ at = "begin"
  /\ task = [p \in Partitions |-> "pending"]
  /\ kept = [p \in Partitions |-> 0]
  /\ current = 0
  /\ batches = << >>
  /\ shuffle = 0
  /\ result = << >>
  /\ token = FALSE
  /\ cause = FALSE

TaskStep(p) == Collect(p) \/ PartialAggregation(p) \/ Dropped(p)
LoopStep == Begin \/ LoopHead \/ Join \/ Ship \/ Receive \/ Close

Returned == Over /\ (\A p \in Partitions : ~Alive(p)) /\ UNCHANGED vars

Next ==
  \/ \E p \in Partitions : TaskStep(p)
  \/ LoopStep
  \/ Cancel
  \/ Returned

\* The runtime polls execute and every task that can go on.
Fairness ==
  /\ WF_vars(LoopStep)
  /\ \A p \in 1 .. MostPartitions : WF_vars(p \in Partitions /\ TaskStep(p))

Spec == Init /\ [][Next]_vars /\ Fairness

-----------------------------------------------------------------------------
(* Properties.                                                             *)

\* execute fails only when something went wrong or the client cancelled, never by
\* running out of tasks before its loop is done (LocalCluster::execute).
FailsOnlyForCause == at = "err" => cause

\* Some partition has no groups, so that its partial batch has no rows.
Emptied == input.grouped /\ \E p \in Partitions : input.table[p] = << >>

\* The partial batch of a partition that was joined took more than one message.
Joined == {p \in Partitions : task[p] = "joined"}
Cut == \E p \in Joined : Len(Batch(p)) > MessageRows

\* The cluster is transparent as long as no partial batch is cut: in whatever order the
\* partitions finish, a result is the native one, with NULLs, averages, and empty
\* partitions, and execute fails for a cause, or for a partial batch without rows.
\* The loop counts messages as if they were partitions: where a batch was cut it may
\* stop before all partitions are in (LocalCluster::execute, merge_partials).
DistributedMatchesNative ==
  /\ at = "ok" => result = Native(input) \/ Cut
  /\ Emptied \/ FailsOnlyForCause

\* What a result is in any case, cut batches or not: the native aggregate of whole
\* partitions, those whose tasks were joined.  No partition counts in part or twice,
\* and what the tasks do that the loop no longer waits for does not show
\* (LocalCluster::execute, merge_partials).
ResultOfWholePartitions ==
  at = "ok" /\ Len(input.table) > 1 =>
    result = Native([input EXCEPT !.table =
               [p \in Partitions |-> IF p \in Joined THEN @[p] ELSE << >>]])

\* execute returns, and then nothing of the query is left: no task runs and all
\* memory is back, however it ended (the drops of JoinSet and reservations).
NothingIsLeft == <>[](Over /\ Used = 0 /\ \A p \in Partitions : ~Alive(p))

\* Both tables have the same rows, whatever their order.
SameRows(a, b) ==
  \A row \in ToSet(a) \cup ToSet(b) :
    Cardinality({n \in DOMAIN a : a[n] = row}) = Cardinality({n \in DOMAIN b : b[n] = row})

Hashes == [Keys(Concat(input.table)) -> 0 .. Len(input.table) - 1]

\* A remote aggregate returns the rows of the native one, wherever the hash sends
\* the groups: no group is split over two merging tasks, none is lost with an
\* empty destination, and merging by SUM is right for COUNT and AVG of groups that
\* are all NULL (final_worker_plan, repartition, execute_sql_remote).
RemoteAggregateMatches ==
  at = "begin" =>
    \A hash \in Hashes :
      SameRows(RemoteAggregate(input.table, input.grouped, hash), Native(input))

\* A remote join returns the rows of the native one, inner and left outer, for
\* sides of different partition counts and keys that are NULL, repeated or without
\* a partner (plan_remote_join, repartition, hash_join).
RemoteJoinMatches ==
  at = "begin" =>
    \A hash \in Hashes, outer \in BOOLEAN :
      LET right == <<input.table[1]>>
      IN  SameRows(RemoteJoin(input.table, right, outer, hash),
                   HashJoin(Concat(input.table), Concat(right), outer))
=============================================================================
