----------------------------- MODULE MCCluster -----------------------------
(* Plans for model checking the cluster.                                   *)
EXTENDS Cluster

MCOneTask ==
  {[query |-> q, stage |-> 0, inputs |-> {}, partitions |-> 1,
    exchange |-> 0, partitioned |-> FALSE] : q \in QueryId}

MCOutputs == {<<0>>}
=============================================================================
