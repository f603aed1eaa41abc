\* A test message and an alert, two workers that crash, one destination.
SPECIFICATION Spec
CONSTANTS
  ping = ping
  alert = alert
  mail = mail
  w1 = w1
  w2 = w2
  Nothing = Nothing
  Deliveries <- MCDeliveries
  TestDeliveries <- MCTests
  Destinations <- MCDestinations
  Target <- MCTarget
  Workers <- MCWorkers
  MaxAttempts = 2
  Faults <- CrashAndConfiguration
SYMMETRY WorkerSymmetry
INVARIANTS
  OneAttemptAtATime
  OrdinaryAfterTest
PROPERTIES
  DeliveredIsFinal
CHECK_DEADLOCK FALSE
