\* A GROUP BY over three partitions, one of them without rows.
CONSTANTS
  Inputs <- MCEmptied
  Workers = 2
  MessageRows = 9
  MemoryLimit = 9
SPECIFICATION Spec
INVARIANTS FailsOnlyForCause
