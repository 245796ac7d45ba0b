--------------------------- MODULE MCLocalCluster ---------------------------
(* Inputs for model checking the in-process cluster.                       *)
EXTENDS LocalCluster

\* Keys and values with NULLs and repetitions.
Rows == {<<Null, 1>>, <<1, Null>>, <<1, 2>>, <<2, 1>>}

PartitionsUpTo(n) == UNION {[1 .. k -> Rows] : k \in 0 .. n}

\* A partition of at most two rows and one of at most one, and three partitions for
\* two workers.
MCTables == {<<first, second>> : first \in PartitionsUpTo(2), second \in PartitionsUpTo(1)}
MCThree == <<<<<<1, 2>>>>, <<<<Null, 1>>>>, <<<<1, Null>>, <<2, 1>>>>>>

MCInputs ==
  [table : MCTables \cup {MCThree}, grouped : BOOLEAN]
    \cup {[table |-> <<<<<<1, 2>>>>>>, grouped |-> TRUE]}

\* A partition whose rows were all filtered out.
MCEmptied ==
  {[table |-> <<<<<<1, 2>>>>, << >>, <<<<2, 1>>>>>>, grouped |-> TRUE]}
=============================================================================
