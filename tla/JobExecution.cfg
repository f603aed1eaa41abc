\* One ingestion job, two slots, every kind of fault.
SPECIFICATION FairSpec
CONSTANTS
  feed = feed
  s1 = s1
  s2 = s2
  NoSlot = NoSlot
  NoJob = NoJob
  Jobs <- MCOneJob
  SourceJobs <- MCSourceJobs
  Slots <- MCSlots
  MaxAttempts = 2
  MaxStalledCount = 1
  Faults <- AllFaults
INVARIANTS
  AttemptsAreExclusive
  QueueAndTablesAgree
PROPERTIES
  ImplementsLedger
  EveryJobSettles
CHECK_DEADLOCK FALSE
