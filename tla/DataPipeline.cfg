\* Three requests through a circuit breaker; two passes and a rollup over two
\* days; ten conditions of rules over two rows and two hours.
SPECIFICATION PipelineSpec
CONSTANTS
  fetch1 = fetch1
  fetch2 = fetch2
  fetch3 = fetch3
  vault = vault
  Requests <- MCRequests
  AdapterCircuit <- MCAdapterCircuit
  Passes <- MCPasses
  Rollers <- MCRollers
  MorphoRoutes <- MCMorphoRoutes
  OndoRoutes <- MCOndoRoutes
  Yields <- MCYields
  DayLength = 2
  RollupDays = 3
  MaxBuckets = 9
  PipeHorizon = 3
  MaxPasses = 2
  SignalConditions <- MCSignalConditions
  RowValues <- MCRowValues
  Lookback = 1
  AlertThreshold = 1
  MaxRows = 2
  SignalHorizon = 2
INVARIANTS
  PipelineTypeOK
  RecordsAreJustified
  
PROPERTIES
  CircuitKeepsCount
  CircuitRecovers
  HistoryConverges
  SilenceIsNoticed
CHECK_DEADLOCK FALSE
