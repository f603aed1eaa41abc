\* One evaluator, no fault, a rule that stays triggered by one observation for longer than a delivery lives.
SPECIFICATION FairSpec
CONSTANTS
  apy = apy
  mail = mail
  e1 = e1
  Nobody = Nobody
  Evaluators <- MCEvaluator
  Rules <- MCOneRule
  Destinations <- MCDestination
  Attached <- MCAttached
  Cooldown = 1
  Lifetime = 2
  Horizon = 3
  LastKey = 1
  Leftovers <- NoLeftovers
  Crashes = FALSE
PROPERTIES
  RulesKeepBeingEvaluated
CHECK_DEADLOCK FALSE
