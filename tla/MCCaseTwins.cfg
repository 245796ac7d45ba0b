\* A Parquet table with two columns whose names differ in case only.
SPECIFICATION Spec
CONSTANTS
  Int32Max = 7
  Int64Max = 127
  MaxPlanDepth = 4
  MaxWireNesting = 10
  MaxRegistrations = 1
  Modes = {"native"}
  Queries <- MCTwinQueries
  Tables <- MCTwinTables
  Catalogs <- MCTwinCatalogs
  WorkerCatalogs <- MCTwinCatalogs
INVARIANTS PruningAsDocumented
CHECK_DEADLOCK FALSE
