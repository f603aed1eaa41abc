\* One job whose worker crashes: the durable dead letter the documents promise.
SPECIFICATION Spec
CONSTANTS
  feed = feed
  s1 = s1
  s2 = s2
  NoSlot = NoSlot
  NoJob = NoJob
  Jobs <- MCOneJob
  SourceJobs <- MCSourceJobs
  Slots <- MCSlots
  MaxAttempts = 2
  MaxStalledCount = 1
  Faults <- CrashOnly
SYMMETRY SlotSymmetry
INVARIANTS
  FinalFailureIsDurable
CHECK_DEADLOCK FALSE
