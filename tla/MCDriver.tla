------------------------------ MODULE MCDriver ------------------------------
(* Requests for model checking the driver.                                 *)
EXTENDS Driver

Stage(inputs, partitions) == [inputs |-> inputs, partitions |-> partitions]

\* One stage of two partitions, and a producer with its consumer.
MCRequests ==
  {[stages |-> <<Stage({}, 2)>>, final |-> 1, delete |-> FALSE],
   [stages |-> <<Stage({}, 1), Stage({1}, 1)>>, final |-> 2, delete |-> TRUE]}

MCOutputs == {<<0>>}
=============================================================================
