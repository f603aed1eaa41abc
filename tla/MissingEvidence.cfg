\* Four factors whose metrics come and go; every category of products.
SPECIFICATION RiskSpec
CONSTANTS
  WatchedFactors <- MCWatchedFactors
  FactorMetrics <- MCFactorMetrics
PROPERTIES
  MissingEvidenceCannotImproveRisk
