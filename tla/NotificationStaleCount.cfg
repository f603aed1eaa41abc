\* Two workers, no fault: the attempt count is written from a stale read.
SPECIFICATION Spec
CONSTANTS
  ping = ping
  alert = alert
  mail = mail
  w1 = w1
  w2 = w2
  Nothing = Nothing
  Deliveries <- MCOneDelivery
  TestDeliveries <- MCTests
  Destinations <- MCDestinations
  Target <- MCTarget
  Workers <- MCWorkers
  MaxAttempts = 2
  Faults <- NoFaults
PROPERTIES
  RetriesAreBounded
CHECK_DEADLOCK FALSE
