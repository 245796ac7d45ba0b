---------------------------- MODULE Distributed ----------------------------
(***************************************************************************)
(* How a query is split over partitions: src/src/cluster/distributed.rs    *)
(* for aggregates, src/src/cluster/join.rs for joins, with the hash        *)
(* routing of src/src/cluster/hash_exchange.rs between the stages.  A      *)
(* table is the sequence of its partitions, a partition a sequence of rows *)
(* as in Operators: what the filters and projections below leave of a scan.*)
(***************************************************************************)
EXTENDS Operators

-----------------------------------------------------------------------------
(* partial_aggregate_exprs: AVG becomes SUM and COUNT, the others stay.    *)

Partial(state) ==
  <<state.count, SumValue(state), state.min, state.max, SumValue(state), state.count>>

PartialGroupBy(rows) == InKeyOrder(GroupStates(rows, NewState, UpdateRow), Partial)
PartialAggregate(rows) == <<Partial(StateOf(rows))>>

\* The worker plan of one partition.
PartialOf(rows, grouped) ==
  IF grouped THEN PartialGroupBy(rows) ELSE PartialAggregate(rows)

-----------------------------------------------------------------------------
(* merge_partials: the final merge of the in-process cluster.              *)

NewMergeState == [count |-> 0, sum |-> 0, seen |-> FALSE, min |-> Null,
                  max |-> Null, avgSum |-> 0, avgCount |-> 0]

\* as_f64 and as_u64 read NULL as zero.
Number(value) == IF value = Null THEN 0 ELSE value

\* Mutant: averages are counted by partials.
MergeCountsPartials(state, p) ==
  [count |-> state.count + Number(p[1]), sum |-> state.sum + Number(p[2]),
   seen |-> state.seen \/ p[2] # Null,
   min |-> Least(state.min, p[3]), max |-> Greatest(state.max, p[4]),
   avgSum |-> state.avgSum + Number(p[5]), avgCount |-> state.avgCount + 1]

\* One row of partial states; a NULL sum is no sum, a NULL candidate none.
Merge(state, p) ==
  [count |-> state.count + Number(p[1]),
   sum |-> IF p[2] = Null THEN state.sum ELSE state.sum + p[2],
   seen |-> state.seen \/ p[2] # Null,
   min |-> Least(state.min, p[3]),
   max |-> Greatest(state.max, p[4]),
   avgSum |-> state.avgSum + Number(p[5]),
   avgCount |-> state.avgCount + Number(p[6])]

MergeFinished(state) ==
  <<state.count, SumValue(state), state.min, state.max,
    IF state.avgCount = 0 THEN <<0, 0>> ELSE <<state.avgSum, state.avgCount>>>>

MergeGroupRow(state, row) == Merge(state, Tail(row))

MergePartials(batches, grouped) ==
  IF grouped
  THEN InKeyOrder(GroupStates(Concat(batches), NewMergeState, MergeGroupRow),
                  MergeFinished)
  ELSE <<MergeFinished(FoldLeft(Merge, NewMergeState, Concat(batches)))>>

-----------------------------------------------------------------------------
(* final_worker_plan: the final stage of a remote aggregate is an ordinary *)
(* HashAggregate over the partial columns, one state a column (COUNT is    *)
(* merged by SumUInt64), with the projection that divides for AVG.         *)

NewColumns == [c \in 1 .. 6 |-> NewState]

\* Mutant: COUNT is merged by COUNT.
UpdateColumnsCounting(states, p) ==
  [c \in 1 .. 6 |-> UpdateState(states[c], IF c \in {1, 6} THEN 1 ELSE p[c])]

UpdateColumns(states, p) == [c \in 1 .. 6 |-> UpdateState(states[c], p[c])]
UpdateColumnsOfGroup(states, row) == UpdateColumns(states, Tail(row))

\* Every row has a count, so SumUInt64 is never NULL; NULL divided by a count, zero
\* too, is NULL.
Project(states) ==
  <<states[1].sum, SumValue(states[2]), states[3].min, states[4].max,
    IF states[5].seen THEN <<states[5].sum, states[6].sum>> ELSE <<0, 0>>>>

FinalWorkerPlan(rows, grouped) ==
  IF grouped THEN InKeyOrder(GroupStates(rows, NewColumns, UpdateColumnsOfGroup), Project)
  ELSE <<Project(FoldLeft(UpdateColumns, NewColumns, rows))>>

-----------------------------------------------------------------------------
(* repartition: rows go where the hash of their key says; the order of a   *)
(* destination's rows is kept and every destination gets its, maybe empty, *)
(* output.  hash stands for crc32fast over the encoded key.                *)

Repartition(rows, count, hash) ==
  [n \in 1 .. count |-> FilterBatch(rows, {k \in Keys(rows) : hash[k] % count = n - 1})]

\* What the tasks of a partitioned consumer read: each its own destination's block
\* of every producer partition, in the order of the partitions.
Routed(outputs, count, hash) ==
  [n \in 1 .. count |->
     Concat([p \in DOMAIN outputs |-> Repartition(outputs[p], count, hash)[n]])]

\* execute_sql_remote for an aggregate: as many merging tasks as scan partitions
\* with GROUP BY, one without; the driver concatenates what they return.
RemoteAggregate(table, grouped, hash) ==
  LET partials == [p \in DOMAIN table |-> PartialOf(table[p], grouped)]
      inputs == IF grouped THEN Routed(partials, Len(table), hash)
                ELSE <<Concat(partials)>>
  IN  Concat([n \in DOMAIN inputs |-> FinalWorkerPlan(inputs[n], grouped)])

\* plan_remote_join: both sides get the same number of destinations.
JoinPartitions(left, right) ==
  IF Len(left) > Len(right) THEN Len(left) ELSE Len(right)

\* Mutant: each side is routed by its own number of partitions.
RemoteJoinOwnCounts(left, right, outer, hash) ==
  LET count == JoinPartitions(left, right)
      lefts == Routed(left, Len(left), hash)
      rights == Routed(right, Len(right), hash)
      Of(parts, n) == IF n \in DOMAIN parts THEN parts[n] ELSE << >>
  IN  Concat([n \in 1 .. count |-> HashJoin(Of(lefts, n), Of(rights, n), outer)])

RemoteJoin(left, right, outer, hash) ==
  LET count == JoinPartitions(left, right)
      lefts == Routed(left, count, hash)
      rights == Routed(right, count, hash)
  IN  Concat([n \in 1 .. count |-> HashJoin(lefts[n], rights[n], outer)])
=============================================================================
