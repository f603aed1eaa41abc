\* One worker at a time, that crashes, and expiry: what it reads is not overtaken.
SPECIFICATION FairSpec
CONSTANTS
  ping = ping
  alert = alert
  mail = mail
  w1 = w1
  w2 = w2
  Nothing = Nothing
  Deliveries <- MCDeliveries
  TestDeliveries <- MCTests
  Destinations <- MCDestinations
  Target <- MCTarget
  Workers <- MCOneWorker
  MaxAttempts = 2
  Faults <- OneWorkerFaults

  
PROPERTIES
  RetriesAreBounded
  
CHECK_DEADLOCK FALSE
