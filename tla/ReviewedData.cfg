\* Two administrators or callers at a time, one recalculation; two versions of
\* what they review, small sets of amounts, days and routes.
SPECIFICATION ReviewedSpec
CONSTANTS
  one = one
  two = two
  s1 = s1
  s2 = s2
  importer = importer
  recalculation = recalculation
  m1 = m1
  m2 = m2
  f1 = f1
  r1 = r1
  WatchedFactors <- MCWatchedFactors
  FactorMetrics <- MCFactorMetrics
  Administrators <- MCActors
  NoOne = NoOne
  EditSessions <- MCSessions
  Versions <- MCVersions
  Contents <- MCContents
  EffectiveTimes <- MCEffectiveTimes
  MethodologyHorizon = 1
  Curators <- MCActors
  MaxVersion = 3
  Editors <- MCActors
  NoEditor = NoEditor
  MaxRevisions = 2
  CatalogueEditors <- MCActors
  Importer = importer
  Payloads <- MCPayloads
  MaxEntryVersion = 2
  CatalogueHorizon = 1
  RiskJobs <- MCRiskJobs
  Releases <- MCVersions
  Supported <- MCVersions
  RiskRoutes <- MCRiskRoutes
  Factors <- MCFactors
  FreshFor = 0
  MaxSnapshots = 2
  RiskHorizon = 1
  Callers <- MCActors
  Methodologies <- MCVersions
  LiveCircuit <- MCLiveCircuit
  BucketCapacity = 2
  EvidenceLifetime = 1
  ProviderBackoff = 1
  RequestTime = 1
  LiveHorizon = 2
  Requests <- MCRequests
  GridStep = 10
  SolverErrors <- MCSolverErrors
  Tolerance = 3
  FirstYear = 2027
  Components <- MCComponents
  Fees <- MCFees
  Costs = {"gas"}
  Statuses = {"CURRENT", "UNKNOWN"}
  Figures <- MCFigures
  Days = {364, 365, 366, 731, 732}
  Capital = 100
SYMMETRY ActorSymmetry
INVARIANTS
  ReviewedTypeOK
  AuditIsFaithful
  CatalogueIsCoherent
  
  
PROPERTIES
  PublicationIsOrderly
  
  LiveEvidenceIsSound
  RiskFollowsEvidence
  YieldsAreMonotone
CHECK_DEADLOCK FALSE
