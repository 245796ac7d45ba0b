--------------------------- MODULE MCCoordinator ---------------------------
(* Plans and manifests for model checking the coordinator.                 *)
EXTENDS Coordinator

\* A hash exchange: one producer partition writes two destinations and two
\* consumer partitions read them.
MCExchangePlans ==
  {[query |-> 1, stage |-> 0, inputs |-> {}, partitions |-> 1,
    exchange |-> 2, partitioned |-> FALSE],
   [query |-> 1, stage |-> 1, inputs |-> {0}, partitions |-> 2,
    exchange |-> 0, partitioned |-> TRUE]}

\* A complete manifest, and two that miss a destination.
MCExchangeOutputs == {<<0, 1>>, <<0, 0>>, <<1>>}
=============================================================================
