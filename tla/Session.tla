------------------------------ MODULE Session ------------------------------
(***************************************************************************)
(* A session (src/src/query/session.rs) runs one query while its tables    *)
(* may be registered again at any time: sql reads the catalog once for     *)
(* every table, create_physical_plan once more for every scan, and a task  *)
(* that decodes a plan fragment once more for each of its scans, from the  *)
(* session's catalog in the in-process cluster and from the worker's own   *)
(* in a remote one.                                                        *)
(***************************************************************************)
EXTENDS PlanCodec

CONSTANTS
  Queries,           \* what the SQL parser (external) may return
  Modes,             \* of "native", "cluster", "remote"
  Tables,            \* table -> the providers it may be registered with
  Catalogs,          \* the session's catalog at first
  WorkerCatalogs,    \* the catalogs a worker may have been started with
  MaxRegistrations   \* registrations during the query, in any catalog

ASSUME SessionAssumption ==
  /\ Modes \subseteq {"native", "cluster", "remote"}
  /\ MaxRegistrations \in Nat
  /\ \A c \in Catalogs \cup WorkerCatalogs : DOMAIN c \subseteq DOMAIN Tables

-----------------------------------------------------------------------------
(* SQL expressions.  Forms that are refused are one kind, "unsupported".   *)

SqlDataType(name) ==
  CASE name = "BOOLEAN" -> Ok("Boolean")
    [] name = "INT" -> Ok("Int32")
    [] name = "BIGINT" -> Ok("Int64")
    [] name = "INT UNSIGNED" -> Ok("UInt32")
    [] name = "BIGINT UNSIGNED" -> Ok("UInt64")
    [] name = "REAL" -> Ok("Float32")
    [] name = "DOUBLE" -> Ok("Float64")
    [] name = "TEXT" -> Ok("Utf8")
    [] OTHER -> Err

\* A number without a point must be an i64.
SqlValue(s) ==
  IF s.t = "Int64" /\ ~InRange("Int64", s.v[1]) THEN Err ELSE Ok(Literal(s.t, s.v))

AggregateNames == {"count", "sum", "min", "max", "avg"}

RECURSIVE SqlExpr(_)
SqlExpr(s) ==
  CASE s.k = "ident" -> Ok(Column(Id(s.q, s.n)))
    [] s.k = "value" -> SqlValue(s)
    [] s.k = "nested" -> SqlExpr(s.e)
    [] s.k = "isnull" -> Then(SqlExpr(s.e), LAMBDA e : Ok(IsNull(e, s.negated)))
    [] s.k = "cast" ->
         ThenBoth(SqlExpr(s.e), SqlDataType(s.t), LAMBDA e, t : Ok(Cast(e, t)))
    [] s.k = "op" ->
         IF s.op \notin Logical \cup Comparison \cup Arithmetic THEN Err
         ELSE ThenBoth(SqlExpr(s.l), SqlExpr(s.r), LAMBDA l, r : Ok(Binary(l, s.op, r)))
    [] s.k = "function" ->
         Then(IF s.e.k = "star" THEN Ok(Wildcard) ELSE SqlExpr(s.e), LAMBDA e :
              IF s.name \notin AggregateNames \/ (s.distinct /\ e = Wildcard) THEN Err
              ELSE Ok(Aggregate(s.name, e, s.distinct)))
    [] OTHER -> Err

SqlExprs(ss) == CollectAll([n \in DOMAIN ss |-> SqlExpr(ss[n])])

SelectItem(item) ==
  IF item.k = "star" THEN Ok(Wildcard)
  ELSE LET e == SqlExpr(item.e)
       IN  IF e = Err THEN Err ELSE Ok(IF item.alias = Null THEN e[1]
                                       ELSE Alias(e[1], item.alias[1]))

-----------------------------------------------------------------------------
(* From SQL to a logical plan, given the fields of the tables.             *)

QualifySchema(fields, qualifier) ==
  [i \in DOMAIN fields |-> [fields[i] EXCEPT !.name = Id(qualifier, @.n)]]

TableFactor(ref, fields) == Scan(ref.table, Err, << >>, QualifySchema(fields, ref.alias))

\* Conjuncts of an ON condition, as pairs of sides.
RECURSIVE ExtractJoinPairs(_)
ExtractJoinPairs(s) ==
  CASE s.k = "op" /\ s.op = "and" ->
         ThenBoth(ExtractJoinPairs(s.l), ExtractJoinPairs(s.r), LAMBDA l, r : Ok(l \o r))
    [] s.k = "op" /\ s.op = "=" ->
         ThenBoth(SqlExpr(s.l), SqlExpr(s.r), LAMBDA l, r : Ok(<<<<l, r>>>>))
    [] OTHER -> Err

\* An expression belongs to the one side that can type it.
JoinExpressionSide(e, left, right) ==
  LET sides == <<DataType(e, left) # Err, DataType(e, right) # Err>>
  IN  CASE sides = <<TRUE, FALSE>> -> Ok("left")
        [] sides = <<FALSE, TRUE>> -> Ok("right")
        [] OTHER -> Err

\* A pair of keys with that of the left input first.
OrderedPair(pair, left, right) ==
  ThenBoth(JoinExpressionSide(pair[1], left, right), JoinExpressionSide(pair[2], left, right),
           LAMBDA first, second : IF first = second THEN Err
                                  ELSE Ok(IF first = "left" THEN pair ELSE <<pair[2], pair[1]>>))

PlanFrom(q, fields) ==
  LET Joined(left, right) ==
        Then(Then(ExtractJoinPairs(q.join[1].on), LAMBDA pairs :
                  CollectAll([n \in DOMAIN pairs |->
                                OrderedPair(pairs[n], left.schema, right.schema)])),
             LAMBDA keys : Join(left, right, q.join[1].outer,
                                [n \in DOMAIN keys |-> keys[n][1]],
                                [n \in DOMAIN keys |-> keys[n][2]]))
  IN  CASE q.join = Null -> Ok(TableFactor(q.from, fields[1]))
        [] q.join # Null /\ q.from.alias = q.join[1].ref.alias -> Err
        [] OTHER -> Joined(TableFactor(q.from, fields[1]),
                           TableFactor(q.join[1].ref, fields[2]))

\* A filter that may be absent.
Filtered(plan, condition) ==
  IF condition = Null THEN plan
  ELSE ThenBoth(plan, SqlExpr(condition[1]), Filter)

\* With aggregates the select list becomes columns of the aggregate, by name; HAVING
\* without them is ignored.
PlanSelect(q, fields) ==
  LET Plain(e) == ~ContainsAggregate(e)
      Grouped(input, items, groups, aggregates) ==
        IF \E n \in DOMAIN aggregates : Unalias(aggregates[n]).k # "agg" THEN Err
        ELSE IF groups = << >> /\ aggregates = << >> THEN Project(input, items)
        ELSE Filtered(Then(AggregatePlan(input, groups, aggregates), LAMBDA table :
                             Project(table, [n \in DOMAIN items |->
                                               Column(NameOf(items[n]))])),
                      q.having)
  IN  ThenBoth(Filtered(PlanFrom(q, fields), q.where),
               CollectAll([n \in DOMAIN q.items |-> SelectItem(q.items[n])]),
               LAMBDA input, items :
                 Then(IF q.groupAll THEN Ok(SelectSeq(items, Plain)) ELSE SqlExprs(q.groupBy),
                      LAMBDA groups : Grouped(input, items, groups,
                                              SelectSeq(items, ContainsAggregate))))

\* NULLs come last in ascending order and first in descending order, unless told.
OrderKey(order) ==
  LET ascending == order.asc # <<FALSE>>
      nullsFirst == IF order.nullsFirst # Null THEN order.nullsFirst[1] ELSE ~ascending
  IN  Then(SqlExpr(order.e), LAMBDA e : Ok(SortKey(e, ascending, nullsFirst)))

PlanQuery(q, fields) ==
  LET Sorted(plan) ==
        IF q.orderBy = << >> THEN Ok(plan)
        ELSE Then(CollectAll([n \in DOMAIN q.orderBy |-> OrderKey(q.orderBy[n])]),
                  LAMBDA keys : Sort(plan, keys))
      Limited(plan) == Ok(IF q.limit = Null THEN plan ELSE Limit(plan, q.limit[1]))
  IN  IF q.unsupported THEN Err
      ELSE Then(Then(PlanSelect(q, fields), Sorted), Limited)

TablesOf(q) ==
  <<q.from.table>> \o (IF q.join = Null THEN << >> ELSE <<q.join[1].ref.table>>)

-----------------------------------------------------------------------------
(* How a physical plan is cut into stages.  Fragments are sent to tasks,   *)
(* one for each partition; the rest runs over what they return.  That      *)
(* partial aggregates merge into the whole one, and that rows with equal   *)
(* keys meet in a join, is the matter of Distributed.                      *)

RECURSIVE ContainsJoin(_)
ContainsJoin(plan) ==
  CASE plan.k = "join" -> TRUE
    [] plan.k = "scan" -> FALSE
    [] OTHER -> ContainsJoin(plan.input)

\* scan_partitions, for a plan without joins.
RECURSIVE ScanPartitions(_)
ScanPartitions(plan) ==
  IF plan.k = "scan" THEN Len(plan.provider.parts) ELSE ScanPartitions(plan.input)

RECURSIVE PartitionLocal(_)
PartitionLocal(plan) ==
  \/ plan.k = "scan"
  \/ plan.k \in {"projection", "filter"} /\ PartitionLocal(plan.input)

Fragment(plan) == [plan |-> plan, count |-> ScanPartitions(plan)]
Hole(n, schema) == [k |-> "stage", n |-> n, schema |-> schema]

Mergeable(plan) ==
  /\ plan.k = "aggregate" /\ ~ContainsJoin(plan.input)
  /\ \A n \in DOMAIN plan.aggregates : ~Unalias(plan.aggregates[n]).distinct

\* partial_aggregate_exprs: AVG is sent as SUM and COUNT, under names of their own.
AvgSum(n) == 100 + n
AvgCount(n) == 200 + n
PartialExprs(aggregates) ==
  FlattenSeq([n \in DOMAIN aggregates |->
    LET a == Unalias(aggregates[n])
    IN  IF a.f # "avg" THEN <<aggregates[n]>>
        ELSE <<Alias(Aggregate("sum", a.e, FALSE), AvgSum(n)),
               Alias(Aggregate("count", a.e, FALSE), AvgCount(n))>>])

\* plan_remote_join: below projections and filters, one join of local inputs by columns.
RECURSIVE JoinStages(_)
JoinStages(plan) ==
  CASE plan.k \in {"projection", "filter"} ->
         LET below == JoinStages(plan.input)
         IN  IF below = Err THEN Err
             ELSE Ok([below[1] EXCEPT !.rest = [plan EXCEPT !.input = below[1].rest]])
    [] plan.k = "join" ->
         IF /\ PartitionLocal(plan.left) /\ PartitionLocal(plan.right)
            /\ ScanPartitions(plan.left) > 0 /\ ScanPartitions(plan.right) > 0
            /\ \A n \in DOMAIN plan.leftOn : plan.leftOn[n].k = "col" /\ plan.rightOn[n].k = "col"
         THEN Ok([fragments |-> <<Fragment(plan.left), Fragment(plan.right)>>,
                  rest |-> [plan EXCEPT !.left = Hole(1, @.schema),
                                        !.right = Hole(2, @.schema)]])
         ELSE Err
    [] OTHER -> Err

\* The stages of execute_sql_remote; other shapes are refused.
RemoteStages(plan) ==
  CASE Mergeable(plan) /\ ScanPartitions(plan) > 0 ->
         LET partial == AggregatePlan(plan.input, plan.groups, PartialExprs(plan.aggregates))
         IN  IF partial = Err THEN Err
             ELSE Ok([fragments |-> <<Fragment(partial[1])>>,
                      rest |-> [plan EXCEPT !.input = Hole(1, @.schema)]])
    [] ContainsJoin(plan) -> JoinStages(plan)
    [] ~ContainsJoin(plan) /\ PartitionLocal(plan) ->
         Ok([fragments |-> <<Fragment(plan)>>, rest |-> Hole(1, plan.schema)])
    [] OTHER -> Err

\* LocalCluster::execute distributes only an aggregate over several partitions.
LocalStages(plan) ==
  Ok([fragments |-> <<Fragment(plan.input)>>, rest |-> [plan EXCEPT !.input = Hole(1, @.schema)]])

RunsLocally(plan) == Mergeable(plan) /\ ScanPartitions(plan) > 1

\* What a task contributes to the rest: the rows its fragment, or the input of its
\* partial aggregate, leaves of the partition.
TaskStream(plan, part) == Execute(IF plan.k = "aggregate" THEN plan.input ELSE plan, Ok(part))

RECURSIVE Fill(_, _)
Fill(plan, streams) ==
  CASE plan.k = "stage" -> [plan EXCEPT !.n = 0] @@ [stream |-> streams[plan.n]]
    [] plan.k = "join" -> [plan EXCEPT !.left = Fill(@, streams), !.right = Fill(@, streams)]
    [] OTHER -> [plan EXCEPT !.input = Fill(@, streams)]

-----------------------------------------------------------------------------
(* The query.                                                              *)

VARIABLES
  catalog,        \* the session's catalog: table -> provider
  workerCatalog,  \* the catalog of the remote workers
  registrations,  \* during the query
  query, mode,
  at,             \* "sql", "planned", "tasks", "ok" or "err"
  seen,           \* providers sql found
  logical,        \* the plan before the optimizer, or << >>
  optimized,      \* and after it
  bound,          \* providers create_physical_plan found
  wires,          \* fragments sent, with the number of their tasks
  rest,           \* what runs over the results of the tasks
  tasks,          \* fragment -> partition -> << >>, or what its task read and returned
  answer          \* the rows

catalogVars == <<catalog, workerCatalog, registrations>>
planVars == <<seen, logical, optimized, bound>>
stageVars == <<wires, rest, tasks>>
vars == <<catalogVars, query, mode, at, planVars, stageVars, answer>>

Init ==
  /\ catalog \in Catalogs /\ registrations = 0
  /\ query \in Queries /\ mode \in Modes
  /\ workerCatalog \in (IF mode = "remote" THEN WorkerCatalogs ELSE {<< >>})
  /\ at = "sql" /\ seen = << >> /\ logical = << >> /\ optimized = << >> /\ bound = << >>
  /\ wires = << >> /\ rest = << >> /\ tasks = << >> /\ answer = << >>

Over == at \in {"ok", "err"}
FieldsSeen == [n \in DOMAIN seen |-> seen[n].fields]
Scans == ScansOf(optimized[1])
Physical1 == Build(optimized[1], bound)

Fail == at' = "err"
Return(result) ==
  /\ at' = IF result = Err THEN "err" ELSE "ok"
  /\ answer' = result

\* register_table, by another thread of the program.
Register(t, provider) ==
  /\ ~Over /\ registrations < MaxRegistrations
  /\ catalog' = (t :> provider) @@ catalog
  /\ registrations' = registrations + 1
  /\ UNCHANGED <<workerCatalog, query, mode, at, planVars, stageVars, answer>>

\* The tasks that start from now on find another table at their worker.
RegisterAtWorker(t, provider) ==
  /\ mode = "remote" /\ at = "tasks" /\ registrations < MaxRegistrations
  /\ workerCatalog' = (t :> provider) @@ workerCatalog
  /\ registrations' = registrations + 1
  /\ UNCHANGED <<catalog, query, mode, at, planVars, stageVars, answer>>

\* sql: table_factor reads the catalog, one table after the other.
LookUp ==
  /\ at = "sql" /\ Len(seen) < Len(TablesOf(query))
  /\ LET t == TablesOf(query)[Len(seen) + 1]
     IN  \/ t \in DOMAIN catalog /\ seen' = Append(seen, catalog[t]) /\ UNCHANGED at
         \/ t \notin DOMAIN catalog /\ Fail /\ UNCHANGED seen
  /\ UNCHANGED <<catalogVars, query, mode, logical, optimized, bound, stageVars, answer>>

\* The rest of sql, and the optimizer.
PlanAndOptimize ==
  /\ at = "sql" /\ Len(seen) = Len(TablesOf(query))
  /\ \E plan \in {PlanQuery(query, FieldsSeen)} : \E best \in {Then(plan, Optimize)} :
       \/ /\ best # Err
          /\ at' = "planned" /\ logical' = plan /\ optimized' = best
       \/ best = Err /\ Fail /\ UNCHANGED <<logical, optimized>>
  /\ UNCHANGED <<catalogVars, query, mode, seen, bound, stageVars, answer>>

\* create_physical_plan: one scan after the other.
BindScan ==
  /\ at = "planned" /\ Len(bound) < Len(Scans)
  /\ LET scan == Scans[Len(bound) + 1]
     IN  \/ /\ scan.table \in DOMAIN catalog
            /\ ResolveProjection(scan, catalog[scan.table]) # Err
            /\ bound' = Append(bound, catalog[scan.table]) /\ UNCHANGED at
         \/ /\ scan.table \in DOMAIN catalog =>
                 ResolveProjection(scan, catalog[scan.table]) = Err
            /\ Fail /\ UNCHANGED bound
  /\ UNCHANGED <<catalogVars, query, mode, seen, logical, optimized, stageVars, answer>>

AllBound == at = "planned" /\ Len(bound) = Len(Scans)

\* execute, in this process.
RunNative ==
  /\ AllBound
  /\ mode = "native" \/ (mode = "cluster" /\ ~RunsLocally(Physical1))
  /\ Return(Answer(Execute(Physical1, Err)))
  /\ UNCHANGED <<catalogVars, query, mode, planVars, stageVars>>

\* StagePlan::from_physical_plan, and its validation on submission.
Stage(fragment) ==
  Then(Encode(fragment.plan), LAMBDA wire :
       IF fragment.count > 0 /\ ValidateFragment(wire)
       THEN Ok([plan |-> wire, count |-> fragment.count]) ELSE Err)

\* Every fragment becomes a stage, or the query fails.
Distribute ==
  /\ AllBound
  /\ mode = "remote" \/ (mode = "cluster" /\ RunsLocally(Physical1))
  /\ \E stages \in {IF mode = "remote" THEN RemoteStages(Physical1)
                    ELSE LocalStages(Physical1)} :
     \E sent \in {Then(stages, LAMBDA s : CollectAll([n \in DOMAIN s.fragments |->
                                                      Stage(s.fragments[n])]))} :
       \/ /\ sent # Err
          /\ at' = "tasks"
          /\ wires' = sent[1]
          /\ rest' = <<stages[1].rest>>
          /\ tasks' = [n \in DOMAIN sent[1] |-> [p \in 1 .. sent[1][n].count |-> << >>]]
       \/ sent = Err /\ Fail /\ UNCHANGED stageVars
  /\ UNCHANGED <<catalogVars, query, mode, planVars, answer>>

\* A task decodes its fragment against the catalog it finds now, and runs it.
RunTask(f, p) ==
  /\ at = "tasks" /\ tasks[f][p] = << >>
  /\ \E plan \in {Decode(wires[f].plan, IF mode = "remote" THEN workerCatalog ELSE catalog)} :
     \E batches \in {Then(plan, LAMBDA decoded : Collect(TaskStream(decoded, p)))} :
       \/ /\ batches # Err
          /\ tasks' = [tasks EXCEPT ![f][p] =
                         <<[read |-> ScansOf(plan[1])[1].provider, batches |-> batches[1]]>>]
          /\ UNCHANGED at
       \/ batches = Err /\ Fail /\ UNCHANGED tasks
  /\ UNCHANGED <<catalogVars, query, mode, planVars, wires, rest, answer>>

\* The in-process cluster waits for as many partial batches as there are partitions, and
\* the exchange delivers none for a partition without groups: it gives up.
PartialLost ==
  /\ mode = "cluster" /\ rest[1].groups # << >>
  /\ \E p \in DOMAIN tasks[1] : RowsOf(tasks[1][p][1].batches) = << >>

\* The last stages run over the outputs of all tasks, in the order of the partitions.
Finish ==
  /\ at = "tasks" /\ \A f \in DOMAIN tasks : \A p \in DOMAIN tasks[f] : tasks[f][p] # << >>
  /\ LET Stream(f) == FlattenSeq([p \in DOMAIN tasks[f] |->
                        LET batches == tasks[f][p][1].batches
                        IN  [n \in DOMAIN batches |-> Ok(batches[n])]])
         filled == Fill(rest[1], [f \in DOMAIN tasks |-> Stream(f)])
     IN  Return(IF PartialLost THEN Err ELSE Answer(Execute(filled, Err)))
  /\ UNCHANGED <<catalogVars, query, mode, planVars, stageVars>>

Next ==
  \/ \E t \in DOMAIN Tables : \E provider \in Tables[t] :
       Register(t, provider) \/ RegisterAtWorker(t, provider)
  \/ LookUp
  \/ PlanAndOptimize
  \/ BindScan
  \/ RunNative
  \/ Distribute
  \/ \E f \in DOMAIN tasks : \E p \in DOMAIN tasks[f] : RunTask(f, p)
  \/ Finish

Spec == Init /\ [][Next]_vars

-----------------------------------------------------------------------------
(* Properties.                                                             *)

\* A logical plan as it stands over given providers: columns go by their names, nothing
\* is pushed down, nothing pruned, and LIMIT comes after a whole sort.
RECURSIVE AsWritten(_, _)
AsWritten(plan, providers) ==
  CASE plan.k = "scan" ->
         LET columns == [i \in DOMAIN plan.schema |->
                           ResolveFieldIndex(providers[1].fields,
                                             Unqualified(plan.schema[i].name))]
         IN  [plan EXCEPT !.projection = Ok(FlattenSeq(columns))]
               @@ [provider |-> [providers[1] EXCEPT !.kind = "memory"]]
    [] plan.k = "join" -> [plan EXCEPT !.left = AsWritten(@, <<providers[1]>>),
                                       !.right = AsWritten(@, <<providers[2]>>)]
    [] OTHER -> [plan EXCEPT !.input = AsWritten(@, providers)]

Meaning(providers) == Answer(Execute(AsWritten(logical[1], providers), Err))

\* Column statistics are looked up ignoring case (column_statistics), columns of a batch
\* are not.  Where names of a Parquet table differ in case only, row groups are skipped
\* by the statistics of the wrong column: see PruningAsDocumented.
NoCaseTwins(provider) ==
  provider.kind = "parquet" => \A i, j \in DOMAIN provider.fields :
    i # j => Lower(provider.fields[i].name.n) # Lower(provider.fields[j].name.n)

RECURSIVE Flat(_)
Flat(plan) == CASE plan.k = "scan" -> TRUE
                [] plan.k \in {"join", "aggregate"} -> FALSE
                [] OTHER -> Flat(plan.input)

SameFields == \A n \in DOMAIN bound : bound[n].fields = seen[n].fields

\* An answer computed in this process is the one the query's plan has as written, over
\* the tables it read: constant folding, filters and projections in scans, dropped
\* projections, TopK and pruned row groups change nothing.  When a table changed its
\* columns between sql and create_physical_plan, this still holds of a query without
\* joins and aggregates.  Parquet tables have no columns that differ in case only.
NativeAnswerExact ==
  /\ at = "ok" /\ wires = << >>
  /\ SameFields \/ Flat(logical[1])
  /\ \A n \in DOMAIN bound : NoCaseTwins(bound[n])
  => Meaning(bound) \in {Err, answer}

\* No row of a row group that a scan skips passes its filters.
SkipsOnlyMisses(n) ==
  \A part \in DOMAIN bound[n].parts :
    LET rows == FilterAll(ScanPartition(bound[n], part, Err), Scans[n].filters)
    IN  ~PartitionMayMatch(bound[n], part, Scans[n].filters) =>
          rows = Err \/ rows[1].rows = << >>

\* partition_may_match is conservative, whatever statistics the file has and whatever
\* columns the table had when the query was planned, for a table without two columns
\* whose names differ in case only (partition_may_match, row_group_may_match).
PruningIsConservative ==
  AllBound => \A n \in DOMAIN bound : NoCaseTwins(bound[n]) => SkipsOnlyMisses(n)

\* What is documented of partition_may_match: it is conservative, for every table.
PruningAsDocumented == AllBound => \A n \in DOMAIN bound : SkipsOnlyMisses(n)

\* Rows in any order: a remote join returns them bucket by bucket.
SameRows(a, b) ==
  /\ ToSet(a) = ToSet(b)
  /\ \A row \in ToSet(a) : Len(SelectSeq(a, LAMBDA r : r = row))
                           = Len(SelectSeq(b, LAMBDA r : r = row))

TablesRead(f) == {tasks[f][p][1].read : p \in DOMAIN tasks[f]}

\* Every task of a fragment read the same version of its table, which has the partitions
\* the session counted.
ReadTogether ==
  \A f \in DOMAIN tasks :
    \E provider \in TablesRead(f) :
      /\ TablesRead(f) = {provider} /\ NoCaseTwins(provider)
      /\ Len(provider.parts) = wires[f].count

\* An answer computed by tasks is the one the query's plan has as written over the table
\* versions the tasks read, even when these are not the ones the session planned with:
\* a fragment whose columns do not mean the same to the worker is refused.
DistributedAnswerExact ==
  at = "ok" /\ wires # << >> /\ ReadTogether =>
    LET meaning == Meaning([f \in DOMAIN tasks |-> tasks[f][1][1].read])
    IN  meaning # Err => SameRows(meaning[1], answer[1])

\* The parts of an expression and the nodes of a plan, itself included.
RECURSIVE Parts(_)
Parts(e) ==
  {e} \cup CASE e.k = "bin" -> Parts(e.l) \cup Parts(e.r)
            [] e.k \in {"isnull", "cast", "alias", "agg"} -> Parts(e.e)
            [] OTHER -> {}

RECURSIVE Nodes(_)
Nodes(plan) ==
  {plan} \cup CASE plan.k = "scan" -> {}
               [] plan.k = "join" -> Nodes(plan.left) \cup Nodes(plan.right)
               [] OTHER -> Nodes(plan.input)

\* Some table, column or alias of the plan has a blank name.
HasBlankName(plan) ==
  \E node \in Nodes(plan) :
    \/ node.k = "scan" /\ node.table = BlankTable
    \/ \E e \in UNION {Parts(x) : x \in ToSet(ExprsOf(node))} :
         (e.k = "col" /\ e.name = Id("", Blank)) \/ (e.k = "alias" /\ e.n = Blank)

\* A physical plan survives the codec.  What Encode accepts and the coordinator finds
\* valid, a worker with the same tables decodes to the same plan, schemas and all; what
\* the coordinator refuses, no worker decodes.  It refuses what has blank names, and what
\* Protobuf does not read because it is nested too deeply; Encode notices neither
\* (PhysicalPlanCodec).
CodecRoundTrip ==
  /\ AllBound /\ SameFields
  /\ \A m, n \in DOMAIN bound : Scans[m].table = Scans[n].table => bound[m] = bound[n]
  => LET tables == [t \in {Scans[n].table : n \in DOMAIN bound} |->
                      bound[CHOOSE n \in DOMAIN bound : Scans[n].table = t]]
         wire == Encode(Physical1)
     IN  wire # Err =>
           /\ Decode(wire[1], tables) =
                IF ValidateFragment(wire[1]) THEN Ok(Physical1) ELSE Err
           /\ ValidateFragment(wire[1]) <=> Readable(wire[1]) /\ ~HasBlankName(Physical1)
=============================================================================
