\* Two evaluators, requests or tabs at a time.  An older release left the first
\* event of the rule half stored; one route and two sources are read; two users
\* share an address.
SPECIFICATION UserDataSpec
CONSTANTS
  apy = apy
  mail = mail
  e1 = e1
  e2 = e2
  vault = vault
  fund = fund
  bundle = bundle
  issuer = issuer
  user = user
  other = other
  Nobody = Nobody
  Evaluators <- MCActors
  Rules <- MCOneRule
  Destinations <- MCDestination
  Attached <- MCAttached
  Cooldown = 1
  Lifetime = 1
  Horizon = 1
  LastKey = 2
  Leftovers <- OneLeftover
  Crashes = TRUE
  PageRequests <- MCActors
  Slugs <- MCSlugs
  BundledSlugs <- MCSlugs
  EvidenceSources <- MCSources
  InitialYields <- MCInitialYields
  InitialRisks <- MCInitialRisks
  CacheLifetime = 1
  FailureLifetime = 1
  YieldFreshFor = 1
  ReadHorizon = 2
  MaxDbChanges = 1
  Researchers <- MCUser
  Offered <- MCOffered
  MaxPublications = 2
  MaxSimulations = 1
  Tabs <- MCActors
  Savable <- MCSavable
  Lists <- MCLists
  MaxSaveRequests = 3
  Watchers <- MCActors
  MaxRouteVersion = 2
  Subscribers <- MCUsers
  Sessions <- MCActors
  Addresses <- MCDestination
  MaxDestinations = 3
  MaxRules = 2
SYMMETRY ActorSymmetry
INVARIANTS
  UserDataTypeOK
  OneEventPerObservation
  TriggeredIsDelivered
  ShownIsSupported
  
  SavedListsAreWhole
  RulesReachTheirOwner
PROPERTIES
  StoppedRuleIsQuiet
CHECK_DEADLOCK FALSE
