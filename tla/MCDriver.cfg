\* A single stage and a producer with its consumer, recomputed at most once, with a
\* coordinator that restarts at most once and at most two partitions, at a time, with
\* blocks of a success after the cancellation.
CONSTANTS
  Requests <- MCRequests
  StageId = {1, 2}
  PartitionId = {0, 1}
  Outputs <- MCOutputs
  MaxQueryRetries = 1
  MaxRestarts = 1
  MaxUnlisted = 2
SPECIFICATION Spec
INVARIANTS ResultIsWhole CleanupIsComplete
PROPERTIES FatalIsFinal DriverReturns
