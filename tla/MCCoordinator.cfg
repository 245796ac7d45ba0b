\* Hash exchange between two stages, one worker with two slots.
CONSTANTS
  WorkerId = {1}
  QueryId = {1}
  StageId = {0, 1}
  PartitionId = {0, 1}
  StagePlans <- MCExchangePlans
  SlotCounts = {2}
  Outputs <- MCExchangeOutputs
  LeaseDuration = 1
  HeartbeatTimeout = 1
  MaxTaskAttempts = 2
  MaxStagePartitions = 2
  TimeMax = 2
SPECIFICATION Spec
INVARIANTS TypeOK DependencyGate InputsExactlyOnce SlotAccounting CancellationFence
PROPERTIES CommittedOutputIsFinal LifecycleProgress StatusIsStable ImplementsOutputCommit
