\* Aggregates over two and three partitions by two workers, with partial batches
\* that fit into one Flight message and some that do not.
CONSTANTS
  Inputs <- MCInputs
  Workers = 2
  MessageRows = 1
  MemoryLimit = 5
SPECIFICATION Spec
INVARIANTS DistributedMatchesNative ResultOfWholePartitions
  RemoteAggregateMatches RemoteJoinMatches
PROPERTIES NothingIsLeft
