----------------------------- MODULE MCPipeline -----------------------------
(* Plans for model checking the executor.                                  *)
EXTENDS Pipeline

AllKeys == 0 .. 3

Op(kind, inputs) ==
  [kind |-> kind, inputs |-> inputs, parts |-> << >>, pruned |-> {},
   unreadable |-> {}, missing |-> {}, keys |-> AllKeys, bad |-> {}, limit |-> 0,
   outer |-> FALSE]

ScanOf(parts) == [Op("scan", << >>) EXCEPT !.parts = parts]

Session(ops) == [ops |-> ops, inTask |-> FALSE]
InTask(ops) == [ops |-> ops, inTask |-> TRUE]

r1 == <<1, 1>>
r2 == <<2, 2>>
r3 == <<3, Null>>
rn == <<Null, 3>>

\* LIMIT over two partitions, one of them with an empty batch.
LimitPlan ==
  Session(<<[Op("limit", <<2>>) EXCEPT !.limit = 2],
            ScanOf(<< << <<r1>>, << >>, <<r2>> >>, << <<r3, rn>> >> >>)>>)

\* A filter that fails on one row of three batches.
FilterPlan ==
  Session(<<[Op("filter", <<2>>) EXCEPT !.keys = {1, 2, 3}],
            [ScanOf(<< << <<r1>>, <<r2>>, <<rn, r3>> >> >>) EXCEPT !.keys = {0, 1, 3}]>>)

FailingFilterPlan ==
  Session(<<[Op("filter", <<2>>) EXCEPT !.bad = {2}],
            ScanOf(<< << <<r1>>, <<r2>>, <<r3>> >> >>)>>)

\* A left join in a worker's task.
JoinPlan ==
  InTask(<<[Op("join", <<2, 3>>) EXCEPT !.outer = TRUE],
           ScanOf(<< << <<rn, r1>> >> >>), ScanOf(<< << <<rn>>, <<r1>> >> >>)>>)

\* A join whose budget suffices only if the sort is over before the other input
\* has been collected.
TightPlan ==
  Session(<<Op("join", <<2, 5>>), [Op("filter", <<3>>) EXCEPT !.keys = {1}],
            Op("sort", <<4>>), ScanOf(<< << <<r3, r2, r1>> >> >>),
            ScanOf(<< << <<r1>>, <<rn, r1>> >> >>)>>)

\* A task for a partition its table does not have.
MissingPlan ==
  InTask(<<Op("projection", <<2>>),
           [ScanOf(<< << <<r1>> >> >>) EXCEPT !.missing = {1}]>>)

\* Grouping over partitions of which one is pruned.
GroupPlan ==
  InTask(<<Op("groupby", <<2>>),
           [ScanOf(<< << <<r1>> >>, << <<r2>> >>, << <<r1>> >> >>)
              EXCEPT !.keys = {1}, !.pruned = {2}]>>)

\* An unreadable partition below an aggregate.
BrokenPlan ==
  Session(<<Op("aggregate", <<2>>),
            [ScanOf(<< << <<r1>> >>, << <<r2>> >> >>) EXCEPT !.unreadable = {2}]>>)

TopKPlan ==
  Session(<<[Op("topk", <<2>>) EXCEPT !.limit = 2],
            ScanOf(<< << <<r3>>, <<r1>> >>, << <<r2>> >> >>)>>)

SortPlan ==
  InTask(<<Op("sort", <<2>>), Op("projection", <<3>>),
           ScanOf(<< << <<r3>> >>, << <<r1>> >> >>)>>)

MCPlans == {LimitPlan, FilterPlan, FailingFilterPlan, JoinPlan, TightPlan, GroupPlan,
            MissingPlan, BrokenPlan, TopKPlan, SortPlan}
=============================================================================
