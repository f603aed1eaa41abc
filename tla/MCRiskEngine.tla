---------------------------- MODULE MCRiskEngine ----------------------------
(* Instances of RiskEngine for TLC: four factors, of every kind of penalty, *)
(* each with one of five sets of metrics.                                  *)
EXTENDS RiskEngine, TLC

MCWatchedFactors ==
  {"LIQUIDITY", "REDEMPTION", "LEGAL_AND_ELIGIBILITY_UNCERTAINTY", "STABLECOIN_OR_DEPEG"}

Metric(score, weight, required) == [score |-> score, weight |-> weight, required |-> required]

MCFactorMetrics ==
  {{Metric(20, 60, TRUE), Metric(20, 40, FALSE)},
   {Metric(70, 60, TRUE), Metric(-1, 20, FALSE), Metric(66, 20, FALSE)},
   {Metric(10, 60, TRUE), Metric(-1, 40, FALSE)},
   {Metric(-1, 20, TRUE), Metric(0, 80, FALSE)},
   {Metric(100, 1, FALSE)}}
=============================================================================
