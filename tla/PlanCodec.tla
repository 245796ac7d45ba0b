----------------------------- MODULE PlanCodec -----------------------------
(***************************************************************************)
(* The codec of plan fragments, src/src/cluster/plan_codec.rs.  A fragment *)
(* names its tables and carries the schema of every node; a worker decodes *)
(* it against its own catalog and checks every schema again.  The wire     *)
(* form is a tree of the same shape with numbers for the enumerations and  *)
(* no providers.  Protobuf (external) carries it unchanged, but does not   *)
(* read messages that are nested too deeply.                               *)
(***************************************************************************)
EXTENDS Physical

CONSTANTS
  MaxPlanDepth,     \* MAX_PLAN_DEPTH, scaled down
  MaxWireNesting    \* messages within messages that prost reads, 100, scaled down

ASSUME DepthAssumption == MaxPlanDepth \in Nat \ {0} /\ MaxWireNesting \in Nat

\* A table name that is_empty once trimmed.
BlankTable == " "

WireDataType == <<"Null", "Boolean", "Int32", "Int64", "UInt32", "UInt64", "Float32",
                  "Float64", "Utf8">>
WireOperator == <<"=", "!=", "<", "<=", ">", ">=", "and", "or", "+", "-", "*", "/">>
WireAggregateFunction == <<"count", "sum", "sum_u64", "min", "max", "avg">>

\* The number of an enumeration's value; a type the wire does not have is an error.
Code(values, value) ==
  LET codes == {n \in DOMAIN values : values[n] = value}
  IN  IF codes = {} THEN Err ELSE Ok(Min(codes))

Decoded(values, code) == IF code \in DOMAIN values THEN Ok(values[code]) ELSE Err

-----------------------------------------------------------------------------
(* Expressions and schemas.                                                *)

RECURSIVE EncodeExpr(_)
EncodeExpr(e) ==
  CASE e.k = "bin" ->
         ThenBoth(EncodeExpr(e.l), EncodeExpr(e.r), LAMBDA l, r :
                  Ok([e EXCEPT !.l = l, !.op = Code(WireOperator, @)[1], !.r = r]))
    [] e.k = "cast" ->
         ThenBoth(EncodeExpr(e.e), Code(WireDataType, e.t),
                  LAMBDA inner, t : Ok([e EXCEPT !.e = inner, !.t = t]))
    [] e.k = "agg" ->
         Then(EncodeExpr(e.e), LAMBDA inner :
              Ok([e EXCEPT !.e = inner, !.f = Code(WireAggregateFunction, @)[1]]))
    [] e.k \in {"isnull", "alias"} ->
         Then(EncodeExpr(e.e), LAMBDA inner : Ok([e EXCEPT !.e = inner]))
    [] OTHER -> Ok(e)

\* Column names and aliases must not be blank, which encode_expr does not look at.
RECURSIVE DecodeExpr(_)
DecodeExpr(w) ==
  CASE w.k = "col" -> IF w.name = Id("", Blank) THEN Err ELSE Ok(w)
    [] w.k = "alias" /\ w.n = Blank -> Err
    [] w.k = "bin" ->
         Then(Decoded(WireOperator, w.op), LAMBDA op :
              ThenBoth(DecodeExpr(w.l), DecodeExpr(w.r), LAMBDA l, r : Ok(Binary(l, op, r))))
    [] w.k = "cast" ->
         ThenBoth(DecodeExpr(w.e), Decoded(WireDataType, w.t),
                  LAMBDA inner, t : Ok(Cast(inner, t)))
    [] w.k = "agg" ->
         ThenBoth(DecodeExpr(w.e), Decoded(WireAggregateFunction, w.f),
                  LAMBDA inner, f : Ok(Aggregate(f, inner, w.distinct)))
    [] w.k = "isnull" \/ (w.k = "alias" /\ w.n # Blank) ->
         Then(DecodeExpr(w.e), LAMBDA inner : Ok([w EXCEPT !.e = inner]))
    [] OTHER -> Ok(w)

EncodeExprs(exprs) == CollectAll([n \in DOMAIN exprs |-> EncodeExpr(exprs[n])])
DecodeExprs(exprs) == CollectAll([n \in DOMAIN exprs |-> DecodeExpr(exprs[n])])

EncodeSchema(schema) ==
  CollectAll([i \in DOMAIN schema |->
    Then(Code(WireDataType, schema[i].t), LAMBDA t : Ok([schema[i] EXCEPT !.t = t]))])

DecodeSchema(schema) ==
  CollectAll([i \in DOMAIN schema |->
    Then(Decoded(WireDataType, schema[i].t), LAMBDA t : Ok([schema[i] EXCEPT !.t = t]))])

-----------------------------------------------------------------------------
(* Plans.                                                                  *)

\* The expressions of a node.
ExprsOf(node) ==
  CASE node.k = "scan" -> node.filters
    [] node.k = "projection" -> node.exprs
    [] node.k = "filter" -> <<node.predicate>>
    [] node.k = "aggregate" -> node.groups \o node.aggregates
    [] node.k \in {"sort", "topk"} -> KeyExprs(node.keys)
    [] node.k = "limit" -> << >>
    [] node.k = "join" -> node.leftOn \o node.rightOn

\* A node with the expressions es in the place of its own.
WithExprs(node, es) ==
  CASE node.k = "scan" -> [node EXCEPT !.filters = es]
    [] node.k = "projection" -> [node EXCEPT !.exprs = es]
    [] node.k = "filter" -> [node EXCEPT !.predicate = es[1]]
    [] node.k = "aggregate" ->
         [node EXCEPT !.groups = SubSeq(es, 1, Len(@)),
                      !.aggregates = SubSeq(es, Len(node.groups) + 1, Len(es))]
    [] node.k \in {"sort", "topk"} ->
         [node EXCEPT !.keys = [n \in DOMAIN @ |-> [@[n] EXCEPT !.e = es[n]]]]
    [] node.k = "limit" -> node
    [] node.k = "join" ->
         [node EXCEPT !.leftOn = SubSeq(es, 1, Len(@)),
                      !.rightOn = SubSeq(es, Len(node.leftOn) + 1, Len(es))]

\* A scan's provider is left behind.
RECURSIVE EncodePlan(_, _)
EncodePlan(plan, depth) ==
  LET Over(node) ==
        CASE plan.k = "scan" ->
               Ok([k |-> "scan", table |-> plan.table, projection |-> plan.projection,
                   filters |-> node.filters, schema |-> node.schema])
          [] plan.k = "join" ->
               ThenBoth(EncodePlan(plan.left, depth + 1), EncodePlan(plan.right, depth + 1),
                        LAMBDA left, right : Ok([node EXCEPT !.left = left, !.right = right]))
          [] OTHER -> Then(EncodePlan(plan.input, depth + 1),
                           LAMBDA input : Ok([node EXCEPT !.input = input]))
  IN  IF depth >= MaxPlanDepth THEN Err
      ELSE ThenBoth(EncodeSchema(plan.schema), EncodeExprs(ExprsOf(plan)), LAMBDA schema, es :
                    Over([WithExprs(plan, es) EXCEPT !.schema = schema]))

Encode(plan) == EncodePlan(plan, 0)

\* The depth of the messages of an expression and of a plan: every node is one message
\* with another for its kind, a literal holds a scalar, a sort key an expression, and a
\* schema its fields.
RECURSIVE ExprNesting(_)
ExprNesting(w) ==
  CASE w.k = "bin" -> 2 + Max({ExprNesting(w.l), ExprNesting(w.r)})
    [] w.k \in {"isnull", "cast", "alias", "agg"} -> 2 + ExprNesting(w.e)
    [] w.k = "lit" -> 2
    [] OTHER -> 1

RECURSIVE PlanNesting(_)
PlanNesting(wire) ==
  LET key == IF wire.k \in {"sort", "topk"} THEN 1 ELSE 0
      schema == IF wire.schema = << >> THEN 1 ELSE 2
      inputs == CASE wire.k = "scan" -> {}
                  [] wire.k = "join" -> {PlanNesting(wire.left), PlanNesting(wire.right)}
                  [] OTHER -> {PlanNesting(wire.input)}
  IN  2 + Max({schema} \cup inputs
                \cup {key + ExprNesting(e) : e \in ToSet(ExprsOf(wire))})

\* decode_envelope reads the fragment.
Readable(wire) == PlanNesting(wire) <= MaxWireNesting

\* What validate_fragment checks of a plan, without a catalog.
RECURSIVE ValidateWirePlan(_, _)
ValidateWirePlan(wire, depth) ==
  /\ depth < MaxPlanDepth
  /\ wire.k = "scan" => wire.table # BlankTable
  /\ DecodeSchema(wire.schema) # Err
  /\ DecodeExprs(ExprsOf(wire)) # Err
  /\ wire.k \in {"sort", "topk"} => wire.keys # << >>
  /\ wire.k = "join" => /\ Len(wire.leftOn) = Len(wire.rightOn)
                        /\ ValidateWirePlan(wire.left, depth + 1)
                        /\ ValidateWirePlan(wire.right, depth + 1)
  /\ wire.k \notin {"scan", "join"} => ValidateWirePlan(wire.input, depth + 1)

\* validate_fragment, which the coordinator runs on submission.
ValidateFragment(wire) == Readable(wire) /\ ValidateWirePlan(wire, 0)

\* Mutant: only the number of fields and their types are compared.
ScanSchemaTypesOnly(fields, projection, schema) ==
  LET actual == IF projection = Err THEN fields
                ELSE [n \in DOMAIN projection[1] |-> fields[projection[1][n]]]
  IN  /\ projection # Err => ToSet(projection[1]) \subseteq DOMAIN fields
      /\ Len(actual) = Len(schema)
      /\ \A i \in DOMAIN schema : schema[i].t = actual[i].t

\* validate_scan_schema: the fields the scan reads are the ones it was planned with.
ScanSchemaMatches(fields, projection, schema) ==
  LET actual == IF projection = Err THEN fields
                ELSE [n \in DOMAIN projection[1] |-> fields[projection[1][n]]]
  IN  /\ projection # Err => ToSet(projection[1]) \subseteq DOMAIN fields
      /\ Len(actual) = Len(schema)
      /\ \A i \in DOMAIN schema :
           /\ Unqualified(schema[i].name) = Unqualified(actual[i].name)
           /\ [schema[i] EXCEPT !.name = actual[i].name] = actual[i]

\* Mutant: the codec expects LEFT JOIN to keep the nullability of its right side.
CodecJoinSchemaInner(left, right, outer) == JoinSchema(left, right, FALSE)

\* join_schema, the codec's own copy of what LogicalPlan::join computes.
CodecJoinSchema(left, right, outer) ==
  FoldLeft(LAMBDA fields, field :
             Append(fields,
               [field EXCEPT !.nullable = @ \/ outer,
                             !.name = IF \E i \in DOMAIN fields : fields[i].name = @
                                      THEN Right(@) ELSE @]),
           left, right)

\* The schema a decoded node must have: what its expressions and inputs give.
ExpectedSchema(node) ==
  CASE node.k = "projection" -> FieldsOf(node.exprs, node.input.schema)
    [] node.k = "aggregate" -> FieldsOf(node.groups \o node.aggregates, node.input.schema)
    [] node.k = "join" -> Ok(CodecJoinSchema(node.left.schema, node.right.schema, node.outer))
    [] OTHER -> Ok(node.input.schema)

\* What else is checked of the expressions of a node.
ExpressionsFit(node) ==
  CASE node.k = "filter" -> DataType(node.predicate, node.input.schema) = Ok("Boolean")
    [] node.k \in {"sort", "topk"} ->
         /\ node.keys # << >>
         /\ \A n \in DOMAIN node.keys : DataType(node.keys[n].e, node.input.schema) # Err
    [] node.k = "join" -> JoinKeysAgree(node.left.schema, node.leftOn,
                                        node.right.schema, node.rightOn)
    [] OTHER -> TRUE

\* decode_plan against a catalog: a function from the names of the tables it has to
\* their providers.
RECURSIVE DecodePlan(_, _, _)
DecodePlan(wire, catalog, depth) ==
  LET Checked(decoded) ==
        IF ExpressionsFit(decoded) /\ ExpectedSchema(decoded) = Ok(decoded.schema)
        THEN Ok(decoded) ELSE Err
      Over(node) ==
        CASE wire.k = "scan" ->
               IF /\ wire.table # BlankTable /\ wire.table \in DOMAIN catalog
                  /\ ScanSchemaMatches(catalog[wire.table].fields, wire.projection, node.schema)
               THEN Ok(node @@ [provider |-> catalog[wire.table]])
               ELSE Err
          [] wire.k = "join" ->
               ThenBoth(DecodePlan(wire.left, catalog, depth + 1),
                        DecodePlan(wire.right, catalog, depth + 1),
                        LAMBDA left, right : Ok([node EXCEPT !.left = left, !.right = right]))
          [] OTHER -> Then(DecodePlan(wire.input, catalog, depth + 1),
                           LAMBDA input : Ok([node EXCEPT !.input = input]))
      Decoding(schema, es) == Over([WithExprs(wire, es) EXCEPT !.schema = schema])
      decoded == ThenBoth(DecodeSchema(wire.schema), DecodeExprs(ExprsOf(wire)), Decoding)
  IN  IF depth >= MaxPlanDepth THEN Err
      ELSE IF wire.k = "scan" THEN decoded ELSE Then(decoded, Checked)

Decode(wire, catalog) == IF Readable(wire) THEN DecodePlan(wire, catalog, 0) ELSE Err
=============================================================================
