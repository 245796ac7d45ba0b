----------------------------- MODULE Operators -----------------------------
(***************************************************************************)
(* What the operators of src/src/runtime/execution.rs compute from the     *)
(* batches they received, row by row in the code's order.  A batch is a    *)
(* sequence of rows, a row a sequence of column values; the first column   *)
(* of a row is the one keys, predicates and orders look at.                *)
(***************************************************************************)
EXTENDS Integers, Sequences, FiniteSets, SequencesExt

Null == 0           \* SQL NULL; other values are positive
Key(row) == row[1]

Concat(batches) == FlattenSeq(batches)

-----------------------------------------------------------------------------
(* Row-wise operators.                                                     *)

\* filter_batch: a predicate that is false or NULL drops the row.
FilterBatch(batch, keys) ==
  Concat([n \in DOMAIN batch |-> IF Key(batch[n]) \in keys THEN <<batch[n]>> ELSE << >>])

\* project_batch, here to the key column.
ProjectBatch(batch) == [n \in DOMAIN batch |-> <<Key(batch[n])>>]

Prefix(batch, count) == SubSeq(batch, 1, IF count < Len(batch) THEN count
                                         ELSE Len(batch))

-----------------------------------------------------------------------------
(* Sort and TopK: lexsort_to_indices and take, NULLs first.                *)

\* The n-th row is the one that n - 1 others come before.
Sorted(rows) ==
  LET Before(l, m) == \/ Key(rows[l]) < Key(rows[m])
                      \/ Key(rows[l]) = Key(rows[m]) /\ l < m
      Nth(n) == CHOOSE m \in DOMAIN rows :
                  Cardinality({l \in DOMAIN rows : Before(l, m)}) = n - 1
  IN  [n \in DOMAIN rows |-> rows[Nth(n)]]

TopK(rows, limit) == Prefix(Sorted(rows), limit)

-----------------------------------------------------------------------------
(* hash_aggregate over COUNT, SUM, MIN, MAX and AVG of the second column.  *)
(* An average is the pair of its sum and its count, NULL the pair of zeros.*)

\* AggregateState::new; MIN and MAX start without a value, SUM unseen.
NewState == [count |-> 0, sum |-> 0, seen |-> FALSE, min |-> Null, max |-> Null]

\* should_replace_extreme, for MIN and MAX.
Least(current, value) ==
  IF current = Null \/ (value # Null /\ value < current) THEN value ELSE current
Greatest(current, value) == IF value > current THEN value ELSE current

\* AggregateState::update, which ignores NULL.
UpdateState(state, value) ==
  IF value = Null THEN state
  ELSE [count |-> state.count + 1,
        sum |-> state.sum + value,
        seen |-> TRUE,
        min |-> Least(state.min, value),
        max |-> Greatest(state.max, value)]

SumValue(state) == IF state.seen THEN state.sum ELSE Null

\* AggregateState::finish.
Finished(state) ==
  <<state.count, SumValue(state), state.min, state.max, <<state.sum, state.count>>>>

RowsOf(rows, key) == FilterBatch(rows, {key})
Keys(rows) == {Key(row) : row \in ToSet(rows)}

\* The table of groups: a key's first row starts its state, the others update it.
GroupStates(rows, New, Update(_, _)) ==
  [k \in Keys(rows) |-> FoldLeft(Update, New, RowsOf(rows, k))]

InOrderOf(keys) ==
  [n \in 1 .. Cardinality(keys) |->
     CHOOSE k \in keys : Cardinality({j \in keys : j < k}) = n - 1]

\* The groups in the order of their keys; NULL is a key like any other.
InKeyOrder(groups, Finish(_)) ==
  LET keys == InOrderOf(DOMAIN groups)
  IN  [n \in DOMAIN keys |-> <<keys[n]>> \o Finish(groups[keys[n]])]

UpdateRow(state, row) == UpdateState(state, row[2])
StateOf(rows) == FoldLeft(UpdateRow, NewState, rows)

GroupBy(rows) == InKeyOrder(GroupStates(rows, NewState, UpdateRow), Finished)

\* Without GROUP BY there is exactly one group, also for no rows.
Aggregate(rows) == <<Finished(StateOf(rows))>>

-----------------------------------------------------------------------------
(* hash_join: the right input is built into a table of its rows by key,    *)
(* the left input probes it in order.  A NULL key matches nothing.         *)

Build(right) == [k \in Keys(right) \ {Null} |-> RowsOf(right, k)]

HashJoin(left, right, outer) ==
  LET table == Build(right)
      Probe(row) ==
        IF Key(row) # Null /\ Key(row) \in DOMAIN table
        THEN [n \in DOMAIN table[Key(row)] |-> row \o table[Key(row)][n]]
        ELSE IF outer THEN <<row \o <<Null, Null>>>>
        ELSE << >>
  IN  Concat([n \in DOMAIN left |-> Probe(left[n])])
=============================================================================
