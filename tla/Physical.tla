------------------------------ MODULE Physical ------------------------------
(***************************************************************************)
(* Tables and their statistics (src/src/storage), physical planning        *)
(* (src/src/query/planner.rs), and what a physical plan computes           *)
(* (src/src/runtime/execution.rs) for whole queries and any expressions.   *)
(* How the operators run concurrently is the matter of Pipeline; here the  *)
(* partitions of a scan are read in order, one batch each.                 *)
(***************************************************************************)
EXTENDS Plans

\* A provider: "memory" (CSV tables behave alike) or "parquet", the fields, the rows
\* of every partition, and the quality of the statistics in a Parquet footer.
Provider(kind, fields, parts, stats) ==
  [kind |-> kind, fields |-> fields, parts |-> parts, stats |-> stats]

Lower(n) == IF n < 10 THEN n + 10 ELSE n

-----------------------------------------------------------------------------
(* Statistics of a row group, as a Parquet writer leaves them (external):  *)
(* the extremes and the number of NULLs of a column.  Deprecated ones were *)
(* computed in an order of the bytes that is not the order of the values,  *)
(* and do not count the NULLs; the texts of truncated ones are prefixes,   *)
(* bounds that no row need reach.                                          *)

ExtremeTypes == {"Boolean", "Int32", "Int64", "Float32", "Float64", "Utf8"}

ColumnCells(provider, part, i) ==
  [n \in DOMAIN provider.parts[part] |-> provider.parts[part][n][i]]

StatisticsOf(provider, part, i) ==
  LET cells == ToSet(ColumnCells(provider, part, i))
      values == {c[1] : c \in cells \ {Null}}
      t == provider.fields[i].t
      Stat(n) == Ok([t |-> ScalarType(t), v |-> <<n>>])
      known == values # {} /\ t \in ExtremeTypes
      reversed == provider.stats = "deprecated"
      cut == provider.stats = "truncated" /\ t = "Utf8"
      slack == IF cut THEN 1 ELSE 0
      low == IF reversed THEN Max(values) ELSE Min(values) - slack
      high == IF reversed THEN Min(values) ELSE Max(values) + slack
  IN  [min |-> IF known THEN Stat(low) ELSE Err,
       max |-> IF known THEN Stat(high) ELSE Err,
       nulls |-> IF reversed THEN Err
                 ELSE Ok(Len(SelectSeq(ColumnCells(provider, part, i), LAMBDA c : c = Null))),
       ordered |-> ~reversed, exact |-> ~cut]

\* column_statistics: the first field with the name, whatever its case.
ColumnStatistics(provider, part, name) ==
  LET bare == Unqualified(name)
      found == {i \in DOMAIN provider.fields :
                  bare.k = "id" /\ Lower(provider.fields[i].name.n) = Lower(bare.n)}
  IN  IF found = {} \/ provider.stats = "none" THEN Err
      ELSE Ok([field |-> provider.fields[Min(found)],
               s |-> StatisticsOf(provider, part, Min(found))])

-----------------------------------------------------------------------------
(* Pruning of row groups.                                                  *)

\* partial_compare of two scalars that are not NULL; other types do not compare.
Before(a, b) == a.t = b.t /\ a.v[1] < b.v[1]
Same(a, b) == a.t = b.t /\ a.v = b.v

\* Mutant: the operands of a comparison are swapped, its direction is not.
ReverseKeeps(op) == op

ReverseComparison(op) ==
  CASE op = "<" -> ">" [] op = "<=" -> ">=" [] op = ">" -> "<" [] op = ">=" -> "<="
    [] OTHER -> op

Extreme(stats, extreme) == IF stats.ordered /\ stats.exact THEN extreme ELSE Err

\* An extreme that is unknown or does not compare rules nothing out.
ExtremesMayMatch(op, lit, min, max, floating) ==
  CASE op = "=" -> /\ min = Err \/ ~Before(lit, min[1])
                   /\ max = Err \/ ~Before(max[1], lit)
    [] op = "!=" -> floating \/ min = Err \/ max = Err
                             \/ ~(Same(min[1], lit) /\ Same(max[1], lit))
    [] op = "<" -> min = Err \/ ~(Before(lit, min[1]) \/ Same(lit, min[1]))
    [] op = "<=" -> min = Err \/ ~Before(lit, min[1])
    [] op = ">" -> max = Err \/ ~(Before(max[1], lit) \/ Same(max[1], lit))
    [] op = ">=" -> max = Err \/ ~Before(max[1], lit)

\* A column without statistics rules nothing out, a comparison with NULL everything.
ColumnLiteralMayMatch(provider, part, name, op, lit) ==
  /\ lit.t # "Null"
  /\ \A found \in ToSet(ColumnStatistics(provider, part, name)) :
       ExtremesMayMatch(op, lit, Extreme(found.s, found.s.min), Extreme(found.s, found.s.max),
                        found.field.t \in Floating)

NullsMayMatch(provider, part, name, negated) ==
  \A found \in ToSet(ColumnStatistics(provider, part, name)) :
    IF ~found.field.nullable THEN negated
    ELSE \A nulls \in ToSet(found.s.nulls) :
           IF negated THEN nulls < Len(provider.parts[part]) ELSE nulls > 0

ComparisonMayMatch(provider, part, l, op, r) ==
  LET literalFirst == l.k = "lit"
      column == IF literalFirst THEN r ELSE l
      literal == IF literalFirst THEN l ELSE r
  IN  column.k = "col" /\ literal.k = "lit" =>
        ColumnLiteralMayMatch(provider, part, column.name,
                              IF literalFirst THEN ReverseComparison(op) ELSE op, literal)

RECURSIVE ExpressionMayMatch(_, _, _)
ExpressionMayMatch(expr, provider, part) ==
  LET e == Unalias(expr)
      May(side) == ExpressionMayMatch(side, provider, part)
  IN  CASE e.k = "lit" /\ e.t = "Boolean" -> e.v = Bool(TRUE)
        [] e.k = "lit" /\ e.t = "Null" -> FALSE
        [] e.k = "bin" /\ e.op = "and" -> May(e.l) /\ May(e.r)
        [] e.k = "bin" /\ e.op = "or" -> May(e.l) \/ May(e.r)
        [] e.k = "bin" /\ e.op \in Comparison ->
             ComparisonMayMatch(provider, part, Unalias(e.l), e.op, Unalias(e.r))
        [] e.k = "isnull" /\ Unalias(e.e).k = "col" ->
             NullsMayMatch(provider, part, Unalias(e.e).name, e.negated)
        [] OTHER -> TRUE

\* Only Parquet tables prune.
PartitionMayMatch(provider, part, filters) ==
  provider.kind = "parquet" =>
    \A n \in DOMAIN filters : ExpressionMayMatch(filters[n], provider, part)

-----------------------------------------------------------------------------
(* Physical plans.  create_physical_plan looks the provider of every scan  *)
(* up in the catalog, in pre-order: here the ones it found are given.      *)

RECURSIVE ScansOf(_)
ScansOf(plan) ==
  CASE plan.k = "scan" -> <<plan>>
    [] plan.k = "stage" -> << >>
    [] plan.k = "join" -> ScansOf(plan.left) \o ScansOf(plan.right)
    [] OTHER -> ScansOf(plan.input)

\* The columns of a projection, by their names in the provider.
ResolveProjection(scan, provider) ==
  IF scan.projection = Err THEN Ok(Err)
  ELSE LET names == scan.projection[1]
       IN  Then(CollectAll([n \in DOMAIN names |-> ResolveFieldIndex(provider.fields, names[n])]),
                LAMBDA indices : Ok(Ok(indices)))

TopK(input, keys, limit, schema) ==
  [k |-> "topk", input |-> input, keys |-> keys, limit |-> limit, schema |-> schema]

RECURSIVE Build(_, _)
Build(plan, providers) ==
  CASE plan.k = "scan" ->
         [plan EXCEPT !.projection = ResolveProjection(plan, providers[1])[1]]
           @@ [provider |-> providers[1]]
    [] plan.k = "join" ->
         LET n == Len(ScansOf(plan.left))
         IN  [plan EXCEPT !.left = Build(@, SubSeq(providers, 1, n)),
                          !.right = Build(@, SubSeq(providers, n + 1, Len(providers)))]
    [] plan.k = "limit" /\ plan.input.k = "sort" ->
         TopK(Build(plan.input.input, providers), plan.input.keys, plan.limit, plan.schema)
    [] OTHER -> [plan EXCEPT !.input = Build(@, providers)]

-----------------------------------------------------------------------------
(* Batches.  A stream is a sequence of Results: a batch or an error.       *)

\* RecordBatch::try_new: the arrays fit the schema and one another.
TryNew(schema, arrays, count) ==
  IF /\ Len(arrays) = Len(schema)
     /\ \A i \in DOMAIN arrays :
          /\ arrays[i].t = schema[i].t /\ Len(arrays[i].cells) = count
          /\ schema[i].nullable \/ \A n \in 1 .. count : arrays[i].cells[n] # Null
  THEN Ok([fields |-> schema,
           rows |-> [n \in 1 .. count |-> [i \in DOMAIN arrays |-> arrays[i].cells[n]]]])
  ELSE Err

ArraysOf(batch) == [i \in DOMAIN batch.fields |-> ColumnOf(batch, i)]

FilterBatch(batch, predicate) ==
  LET Kept(cells) == SelectSeq([n \in DOMAIN batch.rows |-> n], LAMBDA n : cells[n] = <<1>>)
  IN  Then(Evaluate(predicate, batch), LAMBDA a :
           IF a.t # "Boolean" THEN Err
           ELSE Ok([batch EXCEPT !.rows = LET kept == Kept(a.cells)
                                          IN  [n \in DOMAIN kept |-> batch.rows[kept[n]]]]))

FilterAll(batch, filters) ==
  FoldLeft(LAMBDA b, f : Then(b, LAMBDA x : FilterBatch(x, f)), Ok(batch), filters)

ProjectBatch(batch, exprs, schema) ==
  Then(EvaluateAll(exprs, batch), LAMBDA arrays : TryNew(schema, arrays, Len(batch.rows)))

\* scan_partition: a Parquet reader keeps the columns in the order of the file.
ScanPartition(provider, part, projection) ==
  LET columns == CASE projection = Err -> [i \in DOMAIN provider.fields |-> i]
                   [] projection # Err /\ provider.kind = "parquet" ->
                        SetToSortSeq(ToSet(projection[1]), <)
                   [] OTHER -> projection[1]
      rows == provider.parts[part]
  IN  [fields |-> [i \in DOMAIN columns |-> provider.fields[columns[i]]],
       rows |-> [n \in DOMAIN rows |-> [i \in DOMAIN columns |-> rows[n][columns[i]]]]]

\* One partition of a scan; one without rows has no batch.
ScanStream(scan, part) ==
  IF part \notin DOMAIN scan.provider.parts THEN <<Err>>
  ELSE IF ~PartitionMayMatch(scan.provider, part, scan.filters) THEN << >>
  ELSE IF scan.provider.parts[part] = << >> THEN << >>
  ELSE <<FilterAll(ScanPartition(scan.provider, part, scan.projection), scan.filters)>>

-----------------------------------------------------------------------------
(* The operators that collect their input.                                 *)

\* Rows of batches in order; the arrays of an operator's expressions over them.
RowsOf(batches) == FlattenSeq([b \in DOMAIN batches |-> batches[b].rows])

CellBefore(a, b, key) ==
  IF a = Null \/ b = Null THEN a # b /\ (a = Null) = key.nullsFirst
  ELSE IF key.ascending THEN a[1] < b[1] ELSE b[1] < a[1]

\* lexsort_to_indices; rows with equal keys keep their order.
SortIndices(arrays, keys, count) ==
  LET RowBefore(m, n) ==
        \/ \E i \in DOMAIN keys :
             /\ CellBefore(arrays[i].cells[m], arrays[i].cells[n], keys[i])
             /\ \A j \in 1 .. i - 1 : arrays[j].cells[m] = arrays[j].cells[n]
        \/ m < n /\ \A i \in DOMAIN keys : arrays[i].cells[m] = arrays[i].cells[n]
  IN  SortSeq([n \in 1 .. count |-> n], RowBefore)

\* The batches of a sort are concatenated under the schema of the plan.
Concatenated(batches, schema) ==
  IF batches = << >> THEN Ok([fields |-> schema, rows |-> << >>])
  ELSE LET all == [fields |-> batches[1].fields, rows |-> RowsOf(batches)]
       IN  TryNew(schema, ArraysOf(all), Len(all.rows))

SortBatches(batches, keys, limit, schema) ==
  LET Sorted(all, order) ==
        LET taken == IF limit = Err THEN Len(order) ELSE Min({limit[1], Len(order)})
        IN  [all EXCEPT !.rows = [n \in 1 .. taken |-> @[order[n]]]]
  IN  IF limit = Ok(0) THEN Ok([fields |-> schema, rows |-> << >>])
      ELSE Then(Concatenated(batches, schema), LAMBDA all :
                Then(EvaluateAll(KeyExprs(keys), all), LAMBDA arrays :
                     Ok(Sorted(all, SortIndices(arrays, keys, Len(all.rows))))))

\* AggregateState: what a function makes of the scalars of its group, without NULLs.
Summed(scalars) ==
  FoldLeft(LAMBDA sum, s : sum + (IF s.t = "Float64" THEN 1 ELSE Twelfths) * s.v[1],
           0, scalars)

AggregateScalars(f, distinct, scalars) ==
  LET live == SelectSeq(scalars, LAMBDA s : s.t # "Null")
      used == IF distinct THEN SetToSeq(ToSet(live)) ELSE live
      values == {live[n].v[1] : n \in DOMAIN live}
      none == live = << >>
      number == [t |-> "Float64", v |-> <<Summed(used)>>]
      null == [t |-> "Null", v |-> Null]
  IN  CASE f = "count" -> Ok([t |-> "UInt64", v |-> <<Len(used)>>])
        [] f \in {"min", "max"} ->
             Ok(IF none THEN null
                ELSE [t |-> live[1].t, v |-> <<IF f = "min" THEN Min(values) ELSE Max(values)>>])
        [] f = "sum_u64" ->      \* the merge of partial counts
             LET total == Summed(live) \div Twelfths
             IN  IF none THEN Ok(null)
                 ELSE IF live[1].t # "UInt64" \/ ~InRange("UInt64", total) THEN Err
                 ELSE Ok([t |-> "UInt64", v |-> <<total>>])
        [] OTHER ->
             IF none THEN Ok(null)
             ELSE IF live[1].t \notin Numeric THEN Err
             ELSE Ok(IF f = "sum" THEN number
                     ELSE [number EXCEPT !.v = <<Quotient(@[1], Len(used))>>])

\* The order of encoded keys: column by column, NULLs first.
KeyBefore(a, b) ==
  \E i \in DOMAIN a :
    /\ CellBefore(a[i], b[i], [ascending |-> TRUE, nullsFirst |-> TRUE])
    /\ \A j \in 1 .. i - 1 : a[j] = b[j]

KeysOf(arrays, count) == [n \in 1 .. count |-> [i \in DOMAIN arrays |-> arrays[i].cells[n]]]

\* COUNT(*) counts a TRUE for every row.
ArgumentArray(e, batch) ==
  IF e = Wildcard THEN Ok(Array("Boolean", [n \in DOMAIN batch.rows |-> <<1>>]))
  ELSE Evaluate(e, batch)

\* One row for each key of order, in which the arguments of its rows meet.
AggregateBatch(specs, arguments, keys, order, schema) ==
  LET width == Len(schema) - Len(specs)
      InGroup(n, g) ==
        LET rows == SelectSeq([m \in DOMAIN keys |-> m], LAMBDA m : keys[m] = order[g])
        IN  [m \in DOMAIN rows |-> arguments[n][rows[m]]]
      Output(n) ==
        Then(CollectAll([g \in DOMAIN order |->
                           AggregateScalars(specs[n].f, specs[n].distinct, InGroup(n, g))]),
             LAMBDA scalars : ScalarsToArray(scalars, schema[width + n].t))
      keyArrays == [i \in 1 .. width |->
                      Array(schema[i].t, [g \in DOMAIN order |-> order[g][i]])]
  IN  Then(CollectAll([n \in DOMAIN specs |-> Output(n)]),
           LAMBDA outputs : TryNew(schema, keyArrays \o outputs, Len(order)))

\* The keys must have the types the schema declares; results are converted to them.
HashAggregate(batches, groups, aggregates, schema) ==
  LET all == [fields |-> batches[1].fields, rows |-> RowsOf(batches)]
      specs == [n \in DOMAIN aggregates |-> Unalias(aggregates[n])]
      groupArrays == IF batches = << >> THEN Ok([n \in DOMAIN groups |-> Nulls(schema[n].t, 0)])
                     ELSE EvaluateAll(groups, all)
      arguments == CollectAll([n \in DOMAIN specs |->
                     IF batches = << >> THEN Ok(<< >>)
                     ELSE Then(ArgumentArray(specs[n].e, all), ScalarsOf)])
      Order(keys) == IF groups = << >> THEN <<<< >>>> ELSE SetToSortSeq(ToSet(keys), KeyBefore)
      Grouped(keys, args) == AggregateBatch(specs, args, keys, Order(keys), schema)
  IN  ThenBoth(groupArrays, arguments, LAMBDA arrays, args :
               IF \E n \in DOMAIN groups : arrays[n].t # schema[n].t THEN Err
               ELSE Grouped(KeysOf(arrays, Len(RowsOf(batches))), args))

\* A side of a join: the types of its keys, and the keys and scalars of its rows; the
\* build side reads no row whose key has a NULL.
JoinSide(batches, on, build) ==
  LET all == [fields |-> batches[1].fields, rows |-> RowsOf(batches)]
      Kept(keys) == SelectSeq([n \in DOMAIN keys |-> n],
                              LAMBDA n : build => Null \notin ToSet(keys[n]))
      Side(arrays, keys, kept) ==
        Then(CollectAll([i \in DOMAIN all.fields |->
               ScalarsOf(Array(all.fields[i].t,
                               [m \in DOMAIN kept |-> all.rows[kept[m]][i]]))]),
             LAMBDA columns :
               Ok([types |-> [i \in DOMAIN arrays |-> arrays[i].t],
                   keys |-> [m \in DOMAIN kept |-> keys[kept[m]]],
                   rows |-> [m \in DOMAIN kept |-> [i \in DOMAIN columns |-> columns[i][m]]]]))
      Keyed(arrays, keys) == Side(arrays, keys, Kept(keys))
  IN  IF batches = << >> THEN Ok([types |-> << >>, keys |-> << >>, rows |-> << >>])
      ELSE Then(EvaluateAll(on, all),
                LAMBDA arrays : Keyed(arrays, KeysOf(arrays, Len(all.rows))))

\* NULL keys match nothing; a LEFT JOIN fills up to width columns with NULLs.
JoinedRows(left, right, outer, width) ==
  LET Matches(n) == IF Null \in ToSet(left.keys[n]) THEN << >>
                    ELSE SelectSeq([m \in DOMAIN right.keys |-> m],
                                   LAMBDA m : right.keys[m] = left.keys[n])
      Joined(n, found) ==
        IF found # << >> THEN [m \in DOMAIN found |-> left.rows[n] \o right.rows[found[m]]]
        ELSE IF outer
        THEN <<left.rows[n] \o [i \in 1 .. width |-> [t |-> "Null", v |-> Null]]>>
        ELSE << >>
  IN  FlattenSeq([n \in DOMAIN left.keys |-> Joined(n, Matches(n))])

Panic == <<Err, Err>>

\* The output is built column by column under the schema of the plan: a row wider than
\* the schema is an index out of bounds, which ends the task without a message.
JoinBatch(rows, schema) ==
  LET Values(i) == LET with == SelectSeq(rows, LAMBDA row : i \in DOMAIN row)
                   IN  [n \in DOMAIN with |-> with[n][i]]
  IN  IF \E n \in DOMAIN rows : Len(rows[n]) > Len(schema) THEN Panic
      ELSE Then(CollectAll([i \in DOMAIN schema |-> ScalarsToArray(Values(i), schema[i].t)]),
                LAMBDA arrays : TryNew(schema, arrays, Len(rows)))

HashJoin(lefts, rights, outer, leftOn, rightOn, schema) ==
  LET width == IF rights # << >> THEN Len(rights[1].fields)
               ELSE Len(schema) - Len(lefts[1].fields)
  IN  ThenBoth(JoinSide(lefts, leftOn, FALSE), JoinSide(rights, rightOn, TRUE),
               LAMBDA left, right :
               IF lefts # << >> /\ rights # << >> /\ left.types # right.types THEN Err
               ELSE JoinBatch(JoinedRows(left, right, outer, width), schema))

-----------------------------------------------------------------------------
(* execute, and collect at the session.                                    *)

Collect(stream) == CollectAll(stream)

\* Batches are cut until the limit is reached; what follows, errors too, is not read.
LimitStream(stream, limit) ==
  FoldLeft(LAMBDA s, r :
             IF s.left = 0 THEN s
             ELSE IF r = Err THEN [left |-> 0, out |-> Append(s.out, Err)]
             ELSE LET take == Min({s.left, Len(r[1].rows)})
                  IN  [left |-> s.left - take,
                       out |-> IF take = 0 THEN s.out
                               ELSE Append(s.out, Ok([r[1] EXCEPT !.rows =
                                                        SubSeq(@, 1, take)]))],
           [left |-> limit, out |-> << >>], stream).out

\* part is the partition of a task, or Err for all of them.
RECURSIVE Execute(_, _)
Execute(plan, part) ==
  LET Input == Execute(plan.input, part)
      Each(stream, F(_)) == [n \in DOMAIN stream |-> Then(stream[n], F)]
      After(result) == IF result = Panic THEN << >> ELSE <<result>>
  IN  CASE plan.k = "scan" ->
             FlattenSeq([n \in 1 .. (IF part = Err THEN Len(plan.provider.parts) ELSE 1) |->
                           ScanStream(plan, IF part = Err THEN n ELSE part[1])])
        [] plan.k = "stage" -> plan.stream
        [] plan.k = "projection" ->
             Each(Input, LAMBDA batch : ProjectBatch(batch, plan.exprs, plan.schema))
        [] plan.k = "filter" -> Each(Input, LAMBDA batch : FilterBatch(batch, plan.predicate))
        [] plan.k = "limit" -> LimitStream(Input, plan.limit)
        [] plan.k \in {"sort", "topk"} ->
             After(Then(Collect(Input), LAMBDA batches :
                        SortBatches(batches, plan.keys,
                                    IF plan.k = "topk" THEN Ok(plan.limit) ELSE Err,
                                    plan.schema)))
        [] plan.k = "aggregate" ->
             After(Then(Collect(Input), LAMBDA batches :
                        HashAggregate(batches, plan.groups, plan.aggregates, plan.schema)))
        [] plan.k = "join" ->
             After(ThenBoth(Collect(Execute(plan.left, part)), Collect(Execute(plan.right, part)),
                            LAMBDA lefts, rights :
                              HashJoin(lefts, rights, plan.outer, plan.leftOn, plan.rightOn,
                                       plan.schema)))

\* The rows of the batches a session returns, or an error.
Answer(stream) == Then(Collect(stream), LAMBDA batches : Ok(RowsOf(batches)))
=============================================================================
