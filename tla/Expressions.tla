---------------------------- MODULE Expressions ----------------------------
(***************************************************************************)
(* Expressions of src/src/query/expr.rs: name resolution, type inference,  *)
(* simplification and evaluation over Arrow batches.                       *)
(*                                                                         *)
(* A Result is a sequence: << >> is an error, <<x>> is Ok(x).  An Arrow    *)
(* cell is a sequence too: << >> is NULL, <<n>> a value.  Every value is   *)
(* an integer: Boolean 0 and 1, Utf8 the rank of the text, Float64 the     *)
(* number of twelfths (so that a mean of up to four numbers is exact).     *)
(* A column name without a qualifier is an integer in the order of the     *)
(* names; the upper-case form of name n is n - 10, and 10 is a blank.      *)
(***************************************************************************)
EXTENDS Integers, Sequences, FiniteSets, SequencesExt, FiniteSetsExt

CONSTANTS
  Int32Max,      \* scaled-down widths of the integer types
  Int64Max

ASSUME WidthAssumption == Int32Max \in Nat /\ Int64Max \in Nat /\ Int32Max <= Int64Max

Err == << >>
Ok(x) == <<x>>
Null == << >>
Twelfths == 12

\* The ? operator: the function goes on with a value, or returns the error.
Then(result, F(_)) == IF result = Err THEN Err ELSE F(result[1])
ThenBoth(a, b, F(_, _)) == IF a = Err \/ b = Err THEN Err ELSE F(a[1], b[1])

\* Collecting an iterator of Results into a Result.
CollectAll(results) ==
  IF \A n \in DOMAIN results : results[n] # Err
  THEN Ok([n \in DOMAIN results |-> results[n][1]])
  ELSE Err

-----------------------------------------------------------------------------
(* Names.  Id("q", n) is the text q.n, Id("", n) the text n.  Text(e) is   *)
(* what Display prints for an expression e; it has no dot as long as e     *)
(* holds neither a qualified column nor a float.  Right(name) is the text  *)
(* right.name a join gives to a colliding name of its right input.         *)

Blank == 10

Id(qualifier, n) == [k |-> "id", q |-> qualifier, n |-> n]
Text(e) == [k |-> "text", e |-> e]
Right(name) == [k |-> "right", of |-> name]

HasDot(name) == name.k = "right" \/ (name.k = "id" /\ name.q # "")

RECURSIVE Unqualified(_)
Unqualified(name) ==
  CASE name.k = "id" -> Id("", name.n)
    [] name.k = "right" -> Unqualified(name.of)
    [] OTHER -> name

\* A field: its name, type, whether it may be NULL, and its metadata.
Field(name, t, nullable) == [name |-> name, t |-> t, nullable |-> nullable, meta |-> 0]

\* The exact name, or else the bare name unless both sides are qualified; two
\* fields that match are an error.
ResolveFieldIndex(schema, name) ==
  LET exact == {i \in DOMAIN schema : schema[i].name = name}
      short == {i \in DOMAIN schema : Unqualified(schema[i].name) = Unqualified(name)}
      bothQualified == HasDot(name) /\ \E i \in DOMAIN schema : HasDot(schema[i].name)
      found == IF exact # {} THEN exact ELSE IF bothQualified THEN {} ELSE short
  IN  IF Cardinality(found) = 1 THEN Ok(Min(found)) ELSE Err

-----------------------------------------------------------------------------
(* Expr.                                                                   *)

Column(name) == [k |-> "col", name |-> name]
Literal(t, v) == [k |-> "lit", t |-> t, v |-> v]
Binary(l, op, r) == [k |-> "bin", l |-> l, op |-> op, r |-> r]
IsNull(e, negated) == [k |-> "isnull", e |-> e, negated |-> negated]
Cast(e, t) == [k |-> "cast", e |-> e, t |-> t]
Alias(e, n) == [k |-> "alias", e |-> e, n |-> n]
Aggregate(f, e, distinct) == [k |-> "agg", f |-> f, e |-> e, distinct |-> distinct]
Wildcard == [k |-> "wild"]

Unalias(e) == IF e.k = "alias" THEN e.e ELSE e

\* The name of an aggregate does not tell DISTINCT.
NameOf(e) ==
  CASE e.k = "col" -> Unqualified(e.name)
    [] e.k = "alias" -> Id("", e.n)
    [] e.k = "agg" -> Text(Aggregate(e.f, e.e, FALSE))
    [] OTHER -> Text(e)

RECURSIVE Columns(_)
Columns(e) ==
  CASE e.k = "col" -> {Unqualified(e.name)}
    [] e.k = "bin" -> Columns(e.l) \cup Columns(e.r)
    [] e.k \in {"isnull", "cast", "alias", "agg"} -> Columns(e.e)
    [] OTHER -> {}

RECURSIVE ContainsAggregate(_)
ContainsAggregate(e) ==
  CASE e.k = "agg" -> TRUE
    [] e.k = "bin" -> ContainsAggregate(e.l) \/ ContainsAggregate(e.r)
    [] e.k \in {"isnull", "cast", "alias"} -> ContainsAggregate(e.e)
    [] OTHER -> FALSE

-----------------------------------------------------------------------------
(* Types.                                                                  *)

Signed == {"Int32", "Int64"}
Unsigned == {"UInt32", "UInt64"}
Floating == {"Float32", "Float64"}
Numeric == Signed \cup Unsigned \cup Floating
Logical == {"and", "or"}
Comparison == {"=", "!=", "<", "<=", ">", ">="}
Arithmetic == {"+", "-", "*", "/"}

NormalizedNumericType(t) ==
  CASE t \in Signed -> Ok("Int64")
    [] t \in Unsigned -> Ok("UInt64")
    [] t \in Floating -> Ok("Float64")
    [] OTHER -> Err

\* NULL takes the type of the other side; signed and unsigned do not mix.
CommonNumericType(l, r) ==
  CASE l = "Null" -> NormalizedNumericType(r)
    [] r = "Null" -> NormalizedNumericType(l)
    [] {l, r} \subseteq Numeric /\ {l, r} \cap Floating # {} -> Ok("Float64")
    [] {l, r} \subseteq Signed -> Ok("Int64")
    [] {l, r} \subseteq Unsigned -> Ok("UInt64")
    [] OTHER -> Err

\* The type of a binary expression from the types of its sides.
BinaryType(op, l, r) ==
  CASE op \in Logical ->
         IF {l, r} \subseteq {"Boolean", "Null"} THEN Ok("Boolean") ELSE Err
    [] op \in Comparison ->
         IF l = r \/ "Null" \in {l, r} \/ CommonNumericType(l, r) # Err
         THEN Ok("Boolean") ELSE Err
    [] OTHER -> CommonNumericType(l, r)

\* The type of an aggregate from the type of its argument.
AggregateType(f, t) ==
  CASE f = "sum_u64" -> IF t = "UInt64" THEN Ok(t) ELSE Err
    [] f \in {"sum", "avg"} -> IF t \in Numeric THEN Ok("Float64") ELSE Err
    [] OTHER -> Ok(t)

\* IS NULL and CAST do not look at their operand here, and COUNT not at its argument.
RECURSIVE DataType(_, _)
DataType(expr, schema) ==
  LET e == Unalias(expr) IN
  CASE e.k = "col" ->
         Then(ResolveFieldIndex(schema, e.name), LAMBDA i : Ok(schema[i].t))
    [] e.k = "lit" -> Ok(e.t)
    [] e.k = "bin" ->
         ThenBoth(DataType(e.l, schema), DataType(e.r, schema),
                  LAMBDA l, r : BinaryType(e.op, l, r))
    [] e.k = "isnull" -> Ok("Boolean")
    [] e.k = "cast" -> Ok(e.t)
    [] e.k = "agg" /\ e.f = "count" -> Ok("UInt64")
    [] e.k = "agg" /\ e.f # "count" ->
         Then(DataType(e.e, schema), LAMBDA t : AggregateType(e.f, t))
    [] OTHER -> Err

FieldOf(e, schema) ==
  Then(DataType(e, schema), LAMBDA t : Ok(Field(NameOf(e), t, TRUE)))

FieldsOf(exprs, schema) == CollectAll([n \in DOMAIN exprs |-> FieldOf(exprs[n], schema)])

-----------------------------------------------------------------------------
(* Arrow's kernels (external), on the columns of a batch.  A batch has     *)
(* fields and rows; an array a type and cells.                             *)

Array(t, cells) == [t |-> t, cells |-> cells]
Nulls(t, count) == Array(t, [n \in 1 .. count |-> Null])

InRange(t, n) ==
  CASE t = "Int32" -> n \in -(Int32Max + 1) .. Int32Max
    [] t = "Int64" -> n \in -(Int64Max + 1) .. Int64Max
    [] t = "UInt32" -> n \in 0 .. (2 * Int32Max + 1)
    [] t = "UInt64" -> n \in 0 .. (2 * Int64Max + 1)
    [] OTHER -> TRUE

Quotient(a, b) ==    \* truncated
  LET q == (IF a < 0 THEN -a ELSE a) \div (IF b < 0 THEN -b ELSE b)
  IN  IF (a < 0) = (b < 0) THEN q ELSE -q

\* cast is safe: a value the target cannot hold becomes NULL.
CastCell(from, to, n) ==
  LET m == CASE from \notin Floating /\ to \in Floating -> n * Twelfths
             [] from \in Floating /\ to \notin Floating -> Quotient(n, Twelfths)
             [] OTHER -> n
  IN  CASE to = "Boolean" -> <<IF n = 0 THEN 0 ELSE 1>>
        [] OTHER -> IF InRange(to, m) THEN <<m>> ELSE Null

\* Casts to and from text are not among the inputs.
CastArray(array, to) ==
  CASE array.t = to -> Ok(array)
    [] array.t = "Null" -> Ok(Nulls(to, Len(array.cells)))
    [] {array.t, to} \subseteq Numeric \cup {"Boolean"} ->
         Ok(Array(to, [n \in DOMAIN array.cells |->
                         IF array.cells[n] = Null THEN Null
                         ELSE CastCell(array.t, to, array.cells[n][1])]))
    [] OTHER -> Err

Bool(b) == <<IF b THEN 1 ELSE 0>>

Compared(op, a, b) ==
  Bool(CASE op = "=" -> a = b
         [] op = "!=" -> a # b
         [] op = "<" -> a < b
         [] op = "<=" -> a <= b
         [] op = ">" -> a > b
         [] op = ">=" -> a >= b)

\* A float divided by zero; no input goes on computing with the quotient.  Arrow orders
\* floats totally, and sorts NaN beyond the infinity its sign tells.
Infinity == 1000000
NaN == Infinity + 1
OverZero(a) == IF a = 0 THEN NaN ELSE IF a > 0 THEN Infinity ELSE -Infinity

\* Overflow and a zero divisor are errors for integers.
Computed(op, t, a, b) ==
  LET unit == IF t \in Floating THEN Twelfths ELSE 1
      Checked(n) == IF InRange(t, n) THEN Ok(<<n>>) ELSE Err
  IN  CASE op = "+" -> Checked(a + b)
        [] op = "-" -> Checked(a - b)
        [] op = "*" -> Checked(Quotient(a * b, unit))
        [] op = "/" /\ b # 0 -> Checked(Quotient(a * unit, b))
        [] op = "/" /\ b = 0 -> IF t \in Floating THEN Ok(<<OverZero(a)>>) ELSE Err

\* and_kleene and or_kleene: the absorbing value wins over NULL.
Kleene(absorbing, a, b) ==
  IF absorbing \in {a, b} THEN absorbing ELSE IF Null \in {a, b} THEN Null ELSE a

Cell(op, t, a, b) ==
  CASE op = "and" -> Ok(Kleene(<<0>>, a, b))
    [] op = "or" -> Ok(Kleene(<<1>>, a, b))
    [] op \notin Logical /\ Null \in {a, b} -> Ok(Null)
    [] op \in Comparison /\ Null \notin {a, b} -> Ok(Compared(op, a[1], b[1]))
    [] OTHER -> Computed(op, t, a[1], b[1])

Kernel(op, t, l, r) ==
  LET typed == CASE op \in Logical -> t = "Boolean"
                 [] op \in Arithmetic -> t \in Numeric
                 [] OTHER -> TRUE
  IN  IF ~typed THEN Err
      ELSE Then(CollectAll([n \in DOMAIN l |-> Cell(op, t, l[n], r[n])]), LAMBDA cells :
                Ok(Array(IF op \in Arithmetic THEN t ELSE "Boolean", cells)))

-----------------------------------------------------------------------------
(* evaluate.                                                               *)

ColumnOf(batch, i) == Array(batch.fields[i].t, [n \in DOMAIN batch.rows |-> batch.rows[n][i]])

\* The type both sides of a binary expression are cast to.
OperandType(op, l, r) ==
  CASE l = r -> Ok(l)
    [] op \notin Arithmetic /\ l # r /\ l = "Null" -> Ok(r)
    [] op \notin Arithmetic /\ l # r /\ r = "Null" -> Ok(l)
    [] OTHER -> CommonNumericType(l, r)

EvaluateBinary(op, l, r) ==
  IF l.t = "Null" /\ r.t = "Null"
  THEN IF op \in Arithmetic THEN Err ELSE Ok(Nulls("Boolean", Len(l.cells)))
  ELSE Then(OperandType(op, l.t, r.t), LAMBDA t :
            ThenBoth(CastArray(l, t), CastArray(r, t),
                     LAMBDA lc, rc : Kernel(op, t, lc.cells, rc.cells)))

RECURSIVE Evaluate(_, _)
Evaluate(expr, batch) ==
  LET e == Unalias(expr) IN
  CASE e.k = "col" ->
         Then(ResolveFieldIndex(batch.fields, e.name), LAMBDA i : Ok(ColumnOf(batch, i)))
    [] e.k = "lit" -> Ok(Array(e.t, [n \in DOMAIN batch.rows |-> e.v]))
    [] e.k = "bin" ->
         ThenBoth(Evaluate(e.l, batch), Evaluate(e.r, batch),
                  LAMBDA l, r : EvaluateBinary(e.op, l, r))
    [] e.k = "cast" ->
         Then(Evaluate(e.e, batch), LAMBDA a : CastArray(a, e.t))
    [] e.k = "isnull" ->
         Then(Evaluate(e.e, batch), LAMBDA a :
              Ok(Array("Boolean", [n \in DOMAIN a.cells |->
                                     Bool((a.cells[n] = Null) # e.negated)])))
    [] OTHER -> Err

EvaluateAll(exprs, batch) == CollectAll([n \in DOMAIN exprs |-> Evaluate(exprs[n], batch)])

-----------------------------------------------------------------------------
(* Scalars: what hash tables hold between an array and the next.           *)

\* value_at widens: the scalar types are the 64-bit ones.  A type without a scalar
\* is an error as soon as there is a value.
ScalarTypes == {"Null", "Boolean", "Utf8"} \cup Numeric
ScalarType(t) == IF t \in Numeric THEN NormalizedNumericType(t)[1] ELSE t

Scalar(t, cell) == [t |-> IF cell = Null THEN "Null" ELSE ScalarType(t), v |-> cell]

ScalarsOf(array) ==
  IF array.t \notin ScalarTypes /\ \E n \in DOMAIN array.cells : array.cells[n] # Null
  THEN Err
  ELSE Ok([n \in DOMAIN array.cells |-> Scalar(array.t, array.cells[n])])

\* as i32 and as u32 wrap.
Wrapped(t, n) ==
  LET size == 2 * (Int32Max + 1)
  IN  CASE t = "Int32" -> ((n + Int32Max + 1) % size) - (Int32Max + 1)
        [] t = "UInt32" -> n % size
        [] OTHER -> n

\* scalars_to_array: a scalar of another type becomes NULL without an error.
ScalarsToArray(scalars, t) ==
  LET Convert(s) ==
        CASE s.t = "Null" -> Null
          [] s.t = ScalarType(t) -> <<Wrapped(t, s.v[1])>>
          [] t \in Floating /\ s.t \in {"Int64", "UInt64"} -> <<s.v[1] * Twelfths>>
          [] OTHER -> Null
  IN  IF t \notin ScalarTypes \ {"Null"} THEN Err
      ELSE Ok(Array(t, [n \in DOMAIN scalars |-> Convert(scalars[n])]))

-----------------------------------------------------------------------------
(* simplify: constant folding and the Boolean identities.                  *)

TypedLiteral(t, v, target) ==
  IF t = target THEN Literal(t, v) ELSE Cast(Literal(t, v), target)

RECURSIVE IsNullExpression(_)
IsNullExpression(expr) ==
  LET e == Unalias(expr)
  IN  \/ e.k = "lit" /\ e.t = "Null"
      \/ e.k = "cast" /\ IsNullExpression(e.e)

IsBoolean(expr, b) == LET e == Unalias(expr) IN e.k = "lit" /\ e.t = "Boolean" /\ e.v = Bool(b)

OneRow == [fields |-> << >>, rows |-> <<<< >>>>]

\* Mutant: AND with NULL is folded to NULL.
SimplifyNodeEagerNull(e, schema) ==
  IF e.k = "bin" /\ Columns(e) # {} /\ (IsNullExpression(e.l) \/ IsNullExpression(e.r))
  THEN Ok(TypedLiteral("Null", Null, DataType(e, schema)[1]))
  ELSE Ok(e)

\* The value of a constant, as a literal.
Folded(e) ==
  Then(Evaluate(e, OneRow), LAMBDA a :
       LET s == Scalar(a.t, a.cells[1]) IN Ok(TypedLiteral(s.t, s.v, a.t)))

SimplifyNode(e, schema) ==
  LET neutral == e.op = "and"
      Rewritten(t) ==
        CASE e.k # "bin" -> Ok(e)
          [] e.k = "bin" /\ e.op \notin Logical ->
               Ok(IF IsNullExpression(e.l) \/ IsNullExpression(e.r)
                  THEN TypedLiteral("Null", Null, t) ELSE e)
          [] OTHER ->
               Ok(CASE IsBoolean(e.l, neutral) -> e.r
                    [] IsBoolean(e.r, neutral) /\ ~IsBoolean(e.l, neutral) -> e.l
                    [] OTHER -> IF IsBoolean(e.l, ~neutral) \/ IsBoolean(e.r, ~neutral)
                                THEN Literal("Boolean", Bool(~neutral)) ELSE e)
  IN  Then(DataType(e, schema), LAMBDA t :
           IF Columns(e) = {} /\ ~ContainsAggregate(e) THEN Folded(e) ELSE Rewritten(t))

RECURSIVE Simplify(_, _)
Simplify(e, schema) ==
  CASE e.k \in {"alias", "agg"} ->
         Then(Simplify(e.e, schema), LAMBDA inner : Ok([e EXCEPT !.e = inner]))
    [] e.k \in {"isnull", "cast"} ->
         Then(Simplify(e.e, schema),
              LAMBDA inner : SimplifyNode([e EXCEPT !.e = inner], schema))
    [] e.k = "bin" ->
         ThenBoth(Simplify(e.l, schema), Simplify(e.r, schema),
                  LAMBDA l, r : SimplifyNode(Binary(l, e.op, r), schema))
    [] e.k = "wild" -> Ok(e)
    [] OTHER -> SimplifyNode(e, schema)

SimplifyAll(exprs, schema) == CollectAll([n \in DOMAIN exprs |-> Simplify(exprs[n], schema)])
=============================================================================
