\* One evaluator at a time, which crashes, and events that grow old.
SPECIFICATION FairSpec
CONSTANTS
  apy = apy
  mail = mail
  e1 = e1
  Nobody = Nobody
  Evaluators <- MCEvaluator
  Rules <- MCOneRule
  Destinations <- MCDestination
  Attached <- MCAttached
  Cooldown = 2
  Lifetime = 3
  Horizon = 3
  LastKey = 2
  Leftovers <- NoLeftovers
  Crashes = TRUE

  
PROPERTIES
  OnlyOldEventsStopRules
CHECK_DEADLOCK FALSE
