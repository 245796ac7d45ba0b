----------------------------- MODULE MCSession -----------------------------
(* Tables and a pool of queries for TLC.  Columns: 11 is a, 12 is b and 13 is c; 1 is   *)
(* A.  One table has a blank name.                                                      *)
EXTENDS Session

C(n, t, nullable) == Field(Id("", n), t, nullable)

\* Table t: two Int64 columns a and b, and a nullable text c, in three row groups.
ABC == <<C(11, "Int64", TRUE), C(12, "Int64", FALSE), C(13, "Utf8", TRUE)>>
Rows == <<<<<<<<1>>, <<4>>, <<1>>>>, <<<<2>>, <<1>>, Null>>>>,
          <<<<Null, <<2>>, <<2>>>>>>,
          <<<<<<4>>, <<5>>, <<1>>>>, <<<<5>>, <<0>>, <<3>>>>>>>>
Swap(rows) == [p \in DOMAIN rows |-> [n \in DOMAIN rows[p] |->
                <<rows[p][n][2], rows[p][n][1], rows[p][n][3]>>]]

Base == Provider("parquet", ABC, Rows, "full")
Deprecated == Provider("parquet", ABC, Rows, "deprecated")
Bare == Provider("memory", ABC, Rows, "none")
Newer == Provider("parquet", ABC, <<<<<<<<3>>, <<3>>, <<2>>>>>>, << >>, Rows[3]>>, "full")
Longer == Provider("parquet", ABC, Append(Rows, Rows[1]), "full")
Reordered == Provider("parquet", <<ABC[2], ABC[1], ABC[3]>>, Swap(Rows), "truncated")
Renamed == Provider("parquet", <<[ABC[1] EXCEPT !.nullable = FALSE, !.name = Id("", 12)],
                                 [ABC[2] EXCEPT !.nullable = TRUE, !.name = Id("", 11)],
                                 ABC[3]>>, Swap(Rows), "full")
Retyped == Provider("parquet", <<[ABC[1] EXCEPT !.t = "Utf8"], ABC[2], ABC[3]>>, Rows, "full")
Narrow == Provider("memory", <<[ABC[1] EXCEPT !.t = "Int32"], ABC[2]>>,
                   <<<<<<<<1>>, <<4>>>>>>>>, "none")
Twins == Provider("memory", <<ABC[1], C(1, "Int64", TRUE), ABC[2]>>,
                  <<<<<<<<1>>, <<9>>, <<4>>>>>>>>, "none")
Empty == Provider("memory", ABC, << >>, "none")

\* Table u: a key and a text, both not NULL, in two partitions.
UFields == <<C(11, "Int64", FALSE), C(13, "Utf8", FALSE)>>
U == Provider("memory", UFields, <<<<<<<<1>>, <<7>>>>, <<<<5>>, <<8>>>>>>, <<<<<<1>>, <<9>>>>>>>>, "none")
Wide == Provider("memory", UFields \o <<C(14, "Int64", TRUE)>>, <<<<<<<<1>>, <<7>>, <<7>>>>>>>>, "none")
Dated == Provider("memory", <<UFields[1], C(13, "Date32", FALSE)>>, <<<<<<<<1>>, <<7>>>>>>>>, "none")

MCTables == ("t" :> {Base, Newer, Reordered, Renamed, Retyped, Narrow, Twins})
              @@ ("u" :> {U, Wide}) @@ (BlankTable :> {})
MCCatalogs == {("t" :> t) @@ ("u" :> U) : t \in {Base, Deprecated}}
                \cup {("t" :> Bare) @@ ("u" :> Dated) @@ (BlankTable :> Base), ("t" :> Empty)}
MCWorkerCatalogs == {("t" :> t) @@ ("u" :> U) : t \in {Base, Newer, Longer, Renamed, Reordered}}

-----------------------------------------------------------------------------
(* SQL.                                                                                 *)

Ident(n) == [k |-> "ident", q |-> "", n |-> n]
Of(q, n) == [k |-> "ident", q |-> q, n |-> n]
Value(t, v) == [k |-> "value", t |-> t, v |-> v]
Num(n) == Value("Int64", <<n>>)
Txt(n) == Value("Utf8", <<n>>)
NullValue == Value("Null", Null)
True == Value("Boolean", <<1>>)
Op(l, op, r) == [k |-> "op", l |-> l, op |-> op, r |-> r]
Nul(e, negated) == [k |-> "isnull", e |-> e, negated |-> negated]
CastTo(e, t) == [k |-> "cast", e |-> e, t |-> t]
Fn(name, e, distinct) == [k |-> "function", name |-> name, e |-> e, distinct |-> distinct]
Star == [k |-> "star"]
Item(e) == [k |-> "item", e |-> e, alias |-> Null]
As(e, n) == [k |-> "item", e |-> e, alias |-> <<n>>]
By(e, asc, nullsFirst) == [e |-> e, asc |-> asc, nullsFirst |-> nullsFirst]

a == Ident(11)
b == Ident(12)
c == Ident(13)
CountAll == Fn("count", Star, FALSE)

Select(items) ==
  [from |-> [table |-> "t", alias |-> "t"], join |-> Null, where |-> Null, items |-> items,
   groupAll |-> FALSE, groupBy |-> << >>, having |-> Null, orderBy |-> << >>,
   limit |-> Null, unsupported |-> FALSE]
Where(q, e) == [q EXCEPT !.where = <<e>>]
JoinU(items, outer, on) ==
  [Select(items) EXCEPT !.join = <<[ref |-> [table |-> "u", alias |-> "u"],
                                    outer |-> outer, on |-> on]>>]

Predicates ==
  { Op(a, "<", Num(3)), Op(Num(3), "<", a), Op(a, "!=", Num(4)), Op(a, "=", Num(4)),
    Op(Num(2), ">=", b),
    Op(Op(b, ">", Num(3)), "and", Op(a, "<=", Num(2))),
    Op(Op(b, ">", Num(4)), "or", Nul(a, FALSE)),
    Op(Op(Nul(a, TRUE), "and", True), "and", Op(c, "!=", Txt(1))),
    Op(Op(a, "=", NullValue), "or", Op(b, "=", Num(5))),
    Op(Op(a, "<", Num(3)), "or", NullValue),
    Op(CastTo(a, "INT"), ">", Num(3)),
    Op(Op(CastTo(a, "DOUBLE"), "/", b), "<", Value("Float64", <<18>>)),
    Op(a, "<", Value("Float64", <<30>>)),
    Op(Op(Num(8), "/", b), ">", Num(1)),
    Op(Num(1), "=", Op(Num(1), "/", Num(0))),
    a }

Scanning == {Where(Select(<<Item(a), Item(b)>>), e) : e \in Predicates}

Projecting ==
  { Select(<<Star>>), Select(<<Item(b), Item(a)>>), Select(<<As(b, 11), As(a, 12)>>),
    Select(<<As(Op(a, "+", b), 14), As(Num(1), 15)>>),
    Select(<<As(Op(Op(a, "<", Num(3)), "and", NullValue), 14), Item(a)>>),
    Select(<<As(Op(Num(1), "/", Num(0)), 14)>>),
    Select(<<As(Op(a, "*", Num(60)), 14)>>),
    Select(<<As(CastTo(c, "TIMESTAMP"), 14)>>),
    Select(<<As(a, Blank)>>),
    [Select(<<Item(a)>>) EXCEPT !.from.table = BlankTable],
    [Select(<<Star>>) EXCEPT !.unsupported = TRUE],
    [Select(<<Star>>) EXCEPT !.from.table = "missing"] }

Ordering ==
  { [Select(<<Item(b), Item(a)>>) EXCEPT !.orderBy = <<By(a, <<asc>>, nf)>>, !.limit = <<l>>] :
      asc \in BOOLEAN, nf \in {Null, <<TRUE>>}, l \in {0, 2} }
  \cup { [Select(<<Item(b)>>) EXCEPT !.orderBy = <<By(b, Null, Null)>>],
         [Select(<<Item(a)>>) EXCEPT !.limit = <<2>>],
         [Select(<<Item(a)>>) EXCEPT !.orderBy = <<By(b, Null, Null)>>] }

Aggregating ==
  { Select(<<Item(CountAll)>>),
    Where(Select(<<Item(CountAll), As(Fn("sum", b, FALSE), 14)>>), Op(a, ">", Num(9))),
    [Select(<<As(Fn("avg", a, FALSE), 14), Item(c), As(Fn("count", a, FALSE), 15)>>)
       EXCEPT !.groupBy = <<c>>],
    [Select(<<Item(c), As(Fn("min", b, FALSE), 14)>>) EXCEPT
       !.groupBy = <<c>>, !.having = <<Op(Ident(14), ">", Num(0))>>],
    [Select(<<Item(c), As(Fn("min", b, FALSE), 14)>>) EXCEPT !.groupBy = <<c>>,
       !.having = <<Op(Ident(14), ">", Num(0))>>, !.orderBy = <<By(c, Null, Null)>>],
    [Select(<<Item(c), As(Fn("max", a, FALSE), 14)>>) EXCEPT !.groupAll = TRUE],
    Select(<<As(Fn("count", c, TRUE), 14)>>),
    Select(<<As(Fn("sum", c, FALSE), 14)>>),
    Select(<<As(Op(Fn("sum", a, FALSE), "+", Num(1)), 14)>>) }

Keys(l, r) == Op(l, "=", r)
Joining ==
  { JoinU(<<Item(b), Item(Of("u", 13))>>, outer, Keys(Of("u", 11), Of("t", 11))) : outer \in BOOLEAN }
  \cup
  { JoinU(<<Star>>, TRUE, Op(Keys(Of("t", 11), Of("u", 11)), "and", Keys(Of("t", 13), Of("u", 13)))),
    JoinU(<<Star>>, FALSE, Keys(Op(Of("t", 11), "+", Num(0)), Of("u", 11))),
    JoinU(<<Star>>, FALSE, Keys(a, Of("u", 11))),
    JoinU(<<Star>>, FALSE, Op(Of("t", 11), "<", Of("u", 11))),
    Where(JoinU(<<As(CountAll, 14)>>, TRUE, Keys(Of("t", 11), Of("u", 11))), Op(b, ">", Num(0))),
    Where(JoinU(<<Item(b)>>, TRUE, Keys(Of("t", 11), Of("u", 11))), Nul(Of("u", 11), FALSE)),
    [JoinU(<<Item(Of("t", 12)), Item(Of("u", 11))>>, FALSE, Keys(Of("t", 12), Of("u", 12)))
       EXCEPT !.join[1].ref.table = "t"],
    [JoinU(<<Star>>, FALSE, Keys(a, a)) EXCEPT !.join[1].ref.alias = "t"] }

\* A Parquet table with columns a and A, and a query for the second.
CaseTwins == Provider("parquet", <<ABC[1], C(1, "Int64", TRUE)>>,
                      <<<<<<<<1>>, <<9>>>>>>, <<<<<<9>>, <<1>>>>>>>>, "full")
MCTwinTables == "t" :> {Base, CaseTwins}
MCTwinCatalogs == {"t" :> CaseTwins}
MCTwinQueries == {Where(Select(<<Item(Ident(1))>>), Op(Ident(1), ">", Num(5)))}

MCQueries == Scanning \cup Projecting \cup Ordering \cup Aggregating \cup Joining
=============================================================================
