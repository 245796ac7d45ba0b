------------------------------- MODULE Plans -------------------------------
(***************************************************************************)
(* Logical plans (src/src/query/logical.rs) and the optimizer              *)
(* (src/src/query/optimizer.rs).  A plan is a tree of records; every node  *)
(* carries the schema its constructor computed.                            *)
(***************************************************************************)
EXTENDS Expressions

Scan(table, projection, filters, schema) ==
  [k |-> "scan", table |-> table, projection |-> projection, filters |-> filters,
   schema |-> schema]

ExpandProjection(exprs, schema) ==
  FlattenSeq([n \in DOMAIN exprs |->
    IF exprs[n] = Wildcard THEN [i \in DOMAIN schema |-> Column(schema[i].name)]
    ELSE <<exprs[n]>>])

Project(input, exprs) ==
  LET expanded == ExpandProjection(exprs, input.schema)
      fields == FieldsOf(expanded, input.schema)
  IN  IF fields = Err THEN Err
      ELSE Ok([k |-> "projection", input |-> input, exprs |-> expanded, schema |-> fields[1]])

Filter(input, predicate) ==
  IF DataType(predicate, input.schema) = Ok("Boolean")
  THEN Ok([k |-> "filter", input |-> input, predicate |-> predicate, schema |-> input.schema])
  ELSE Err

AggregatePlan(input, groups, aggregates) ==
  LET fields == FieldsOf(groups \o aggregates, input.schema)
  IN  IF fields = Err THEN Err
      ELSE Ok([k |-> "aggregate", input |-> input, groups |-> groups,
               aggregates |-> aggregates, schema |-> fields[1]])

\* A sort key: its expression, ascending, and whether NULLs come first.
SortKey(e, ascending, nullsFirst) ==
  [e |-> e, ascending |-> ascending, nullsFirst |-> nullsFirst]
KeyExprs(keys) == [n \in DOMAIN keys |-> keys[n].e]

Sort(input, keys) ==
  IF \A n \in DOMAIN keys : DataType(keys[n].e, input.schema) # Err
  THEN Ok([k |-> "sort", input |-> input, keys |-> keys, schema |-> input.schema])
  ELSE Err

Limit(input, limit) ==
  [k |-> "limit", input |-> input, limit |-> limit, schema |-> input.schema]

\* The fields of a join: those of the right side are nullable in a LEFT JOIN, and a
\* name that is taken gets the prefix "right.".
JoinSchema(left, right, outer) ==
  FoldLeft(LAMBDA fields, field :
             LET name == IF \E i \in DOMAIN fields : fields[i].name = field.name
                         THEN Right(field.name) ELSE field.name
             IN  Append(fields, [field EXCEPT !.name = name,
                                              !.nullable = @ \/ outer]),
           left, right)

JoinKeysAgree(left, leftOn, right, rightOn) ==
  /\ leftOn # << >> /\ Len(leftOn) = Len(rightOn)
  /\ \A n \in DOMAIN leftOn :
       /\ DataType(leftOn[n], left) # Err
       /\ DataType(leftOn[n], left) = DataType(rightOn[n], right)

Join(left, right, outer, leftOn, rightOn) ==
  IF JoinKeysAgree(left.schema, leftOn, right.schema, rightOn)
  THEN Ok([k |-> "join", left |-> left, right |-> right, outer |-> outer,
           leftOn |-> leftOn, rightOn |-> rightOn,
           schema |-> JoinSchema(left.schema, right.schema, outer)])
  ELSE Err

-----------------------------------------------------------------------------
(* The optimizer.  Its passes run bottom-up, on each node after its        *)
(* children; every pass rebuilds the node with the constructors above.     *)

\* Rebuilds a node that is no scan over new inputs.
WithInput(plan, input) ==
  CASE plan.k = "projection" -> Project(input, plan.exprs)
    [] plan.k = "filter" -> Filter(input, plan.predicate)
    [] plan.k = "aggregate" -> AggregatePlan(input, plan.groups, plan.aggregates)
    [] plan.k = "sort" -> Sort(input, plan.keys)
    [] plan.k = "limit" -> Ok(Limit(input, plan.limit))

SimplifyExpressions(plan) ==
  LET All(exprs) == SimplifyAll(exprs, plan.input.schema) IN
  CASE plan.k = "scan" ->
         Then(SimplifyAll(plan.filters, plan.schema),
              LAMBDA filters : Ok([plan EXCEPT !.filters = filters]))
    [] plan.k = "projection" ->
         Then(All(plan.exprs), LAMBDA exprs : Project(plan.input, exprs))
    [] plan.k = "filter" ->
         Then(Simplify(plan.predicate, plan.input.schema),
              LAMBDA predicate : Filter(plan.input, predicate))
    [] plan.k = "aggregate" ->
         ThenBoth(All(plan.groups), All(plan.aggregates),
                  LAMBDA groups, aggregates : AggregatePlan(plan.input, groups, aggregates))
    [] plan.k = "sort" ->
         Then(All(KeyExprs(plan.keys)),
              LAMBDA exprs : Sort(plan.input, [n \in DOMAIN plan.keys |->
                                                 [plan.keys[n] EXCEPT !.e = exprs[n]]]))
    [] plan.k = "limit" -> Ok(plan)
    [] plan.k = "join" ->
         ThenBoth(SimplifyAll(plan.leftOn, plan.left.schema),
                  SimplifyAll(plan.rightOn, plan.right.schema),
                  LAMBDA leftOn, rightOn :
                    Join(plan.left, plan.right, plan.outer, leftOn, rightOn))

PushFilterIntoScan(plan) ==
  CASE plan.k = "filter" /\ plan.input.k = "scan" ->
         Ok([plan.input EXCEPT !.filters = Append(@, plan.predicate)])
    [] plan.k = "filter" /\ plan.input.k # "scan" -> Filter(plan.input, plan.predicate)
    [] OTHER -> Ok(plan)

\* A BTreeSet of bare names.
RequiredColumns(exprs, filters) ==
  UNION {Columns(e) : e \in ToSet(exprs) \cup ToSet(filters)}

\* Names in the order of their texts.
NameOrder(a, b) ==
  LET Rank(name) == IF name.k = "id" THEN name.n ELSE 0 IN Rank(a) < Rank(b)

ProjectionIndices(schema, required) ==
  LET names == SetToSortSeq(required, NameOrder)
  IN  CollectAll([n \in DOMAIN names |-> ResolveFieldIndex(schema, names[n])])

\* The scan of a projection reads only the columns the projection or the scan's own
\* filters need, in the order of their names; a scan always had every column before.
PushProjectionIntoScan(plan) ==
  IF plan.k # "projection" THEN Ok(plan)
  ELSE IF plan.input.k # "scan" THEN Project(plan.input, plan.exprs)
  ELSE LET scan == plan.input
           required == RequiredColumns(plan.exprs, scan.filters)
           indices == ProjectionIndices(scan.schema, required)
       IN  IF required = {} THEN Project(scan, plan.exprs)
           ELSE IF indices = Err THEN Err
           ELSE LET fields == [n \in DOMAIN indices[1] |-> scan.schema[indices[1][n]]]
                    names == [n \in DOMAIN fields |-> fields[n].name]
                IN  Project(Scan(scan.table, Ok(names), scan.filters, fields), plan.exprs)

IsIdentity(exprs, schema) ==
  /\ Len(exprs) = Len(schema)
  /\ \A n \in DOMAIN exprs :
       LET e == Unalias(exprs[n])
       IN  /\ e.k = "col"
           /\ NameOf(exprs[n]) = schema[n].name
           /\ Unqualified(e.name) = schema[n].name

EliminateIdentityProjection(plan) ==
  IF plan.k # "projection" THEN Ok(plan)
  ELSE IF IsIdentity(plan.exprs, plan.input.schema) THEN Ok(plan.input)
  ELSE Project(plan.input, plan.exprs)

\* The passes of optimize after optimize_children.
Passes(plan) ==
  Then(Then(Then(SimplifyExpressions(plan), PushFilterIntoScan),
            PushProjectionIntoScan),
       EliminateIdentityProjection)

RECURSIVE Optimize(_)
Optimize(plan) ==
  Then(CASE plan.k = "scan" -> Ok(plan)
         [] plan.k = "join" ->
              ThenBoth(Optimize(plan.left), Optimize(plan.right),
                       LAMBDA left, right :
                         Join(left, right, plan.outer, plan.leftOn, plan.rightOn))
         [] OTHER -> Then(Optimize(plan.input), LAMBDA input : WithInput(plan, input)),
       Passes)
=============================================================================
