\* A worker that crashed is started again under its identity.
CONSTANTS
  WorkerId = {1}
  QueryId = {1}
  StageId = {0}
  PartitionId = {0}
  StagePlans <- MCOneTask
  SlotCounts = {1}
  Outputs <- MCOutputs
  LeaseDuration = 2
  HeartbeatTimeout = 1
  MaxTaskAttempts = 2
  MaxStagePartitions = 2
  TimeMax = 3
  MaxRestarts = 1
SPECIFICATION CSpec
INVARIANTS WorkerReadmitted
CHECK_DEADLOCK FALSE
