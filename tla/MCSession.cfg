SPECIFICATION Spec
CONSTANTS
  Int32Max = 7
  Int64Max = 127
  MaxPlanDepth = 4
  MaxWireNesting = 10
  MaxRegistrations = 1
  Modes = {"native", "cluster", "remote"}
  Queries <- MCQueries
  Tables <- MCTables
  Catalogs <- MCCatalogs
  WorkerCatalogs <- MCWorkerCatalogs
INVARIANTS
  NativeAnswerExact
  PruningIsConservative
  DistributedAnswerExact
  CodecRoundTrip
CHECK_DEADLOCK FALSE
