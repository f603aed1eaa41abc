\* Two pumps, a job, a malformed payload and a job Redis refuses; every fault.
SPECIFICATION FairSpec
CONSTANTS
  resync = resync
  malformed = malformed
  refused = refused
  p1 = p1
  p2 = p2
  Rows <- MCRows
  ValidRows <- MCValidRows
  RefusedRows <- MCRefusedRows
  Pumps <- MCPumps
  BatchLimit = 2
  Faults <- AllFaults
INVARIANTS
  PublishedWasEnqueued
PROPERTIES
  PublishedIsFinal
  EveryRequestIsSettled
CHECK_DEADLOCK FALSE
