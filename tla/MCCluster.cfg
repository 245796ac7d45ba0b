\* One task, two attempts, two workers that crash, stop and are restarted.
CONSTANTS
  WorkerId = {1, 2}
  QueryId = {1}
  StageId = {0}
  PartitionId = {0}
  StagePlans <- MCOneTask
  SlotCounts = {1}
  Outputs <- MCOutputs
  LeaseDuration = 1
  HeartbeatTimeout = 1
  MaxTaskAttempts = 2
  MaxStagePartitions = 2
  TimeMax = 2
  MaxRestarts = 1
SPECIFICATION FairCSpec
INVARIANTS NoWorkerRefused NoOverbooking CommittedBlocksServed CancellationReaches
PROPERTIES ClusterIsReleased
CHECK_DEADLOCK FALSE
