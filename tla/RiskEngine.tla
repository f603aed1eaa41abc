------------------------------ MODULE RiskEngine ------------------------------
(***************************************************************************)
(* packages/risk-engine/src/index.ts: factor scores, the composite score,  *)
(* its band, and the penalties that turn a net yield into a comparative    *)
(* risk-adjusted one.                                                      *)
(*                                                                         *)
(* Scores, weights and coverages are whole percentages.  A composite is    *)
(* kept in hundredths of a percent, which is exact and what the code       *)
(* rounds to; a penalty in millionths of the annual budget, rounded down.  *)
(*                                                                         *)
(* The state is the evidence about one route, which arrives and is lost    *)
(* factor by factor, so that results before and after can be compared.     *)
(***************************************************************************)
EXTENDS Integers, Sequences, FiniteSetsExt

RiskFactors ==
  <<"LIQUIDITY", "REDEMPTION", "ISSUER_OR_COUNTERPARTY", "CUSTODY", "SMART_CONTRACT", "ORACLE",
    "CHAIN", "STABLECOIN_OR_DEPEG", "MARKET_PRICE", "CONCENTRATION", "YIELD_INSTABILITY",
    "INCENTIVE_DEPENDENCY", "GOVERNANCE_AND_UPGRADEABILITY", "OPERATIONAL",
    "LEGAL_AND_ELIGIBILITY_UNCERTAINTY", "DATA_QUALITY">>

(* A factor is known by its place in that order.                           *)
FactorSet == DOMAIN RiskFactors
Factor(name) == CHOOSE i \in FactorSet : RiskFactors[i] = name

Categories == {"TOKENIZED_TBILL", "STABLECOIN_VAULT", "DEFI_LENDING", "MONEY_MARKET_TOKEN",
               "GOLD_BACKED_TOKEN", "CASH_EQUIVALENT"}

CategoryWeightsV1 ==
  [TOKENIZED_TBILL    |-> <<15, 15, 18, 15,  5,  1, 2,  0,  7,  5,  1, 0, 1, 1, 10, 4>>,
   STABLECOIN_VAULT   |-> <<14,  1,  2,  2, 18,  2, 2, 12,  3, 10, 10, 8, 6, 6,  1, 3>>,
   DEFI_LENDING       |-> <<14,  2,  8,  2, 17, 10, 5,  8,  6,  6,  5, 3, 6, 2,  1, 5>>,
   MONEY_MARKET_TOKEN |-> <<14, 15, 16, 14,  6,  1, 2,  2,  5,  5,  3, 0, 1, 4,  8, 4>>,
   GOLD_BACKED_TOKEN  |-> <<14, 12, 14, 16,  5,  4, 3,  0, 10,  4,  2, 1, 2, 4,  6, 3>>,
   CASH_EQUIVALENT    |-> <<15, 10, 12,  8, 10,  4, 5, 10,  3,  5,  5, 3, 3, 3,  2, 2>>]

Percentages == 0 .. 100

CompleteWeights(weights) ==
  /\ DOMAIN weights = FactorSet
  /\ \A f \in FactorSet : weights[f] \in Percentages
  /\ SumFunction([f \in FactorSet |-> weights[f]]) = 100

(* What a calculation may be made with, as riskMethodologySchema demands.  *)
ValidMethodology(m) ==
  /\ m.status \in {"DRAFT", "REVIEWED", "PUBLISHED", "SUPERSEDED"}
  /\ {m.unknownRiskProxy, m.minimumCoverage} \subseteq Percentages
  /\ DOMAIN m.weights = Categories /\ \A c \in Categories : CompleteWeights(m.weights[c])
  /\ m.status = "PUBLISHED" => m.reviewed /\ m.dated

MethodologyV1 ==
  [status |-> "PUBLISHED", reviewed |-> TRUE, dated |-> TRUE, unknownRiskProxy |-> 75,
   minimumCoverage |-> 70, weights |-> CategoryWeightsV1]

-----------------------------------------------------------------------------
(* scoreRiskFactor, of metrics with a weight and a score or -1.            *)

MetricWeight(metrics) == SumFunction([x \in metrics |-> x.weight])

Measured(metrics) == {x \in metrics : x.score # -1}

NoFactor == [status |-> "UNAVAILABLE", score |-> -1, coverage |-> 0]

(* A bug: required metrics are like the others.                            *)
ScoreFactorLenient(metrics, minimumCoverage) ==
  LET coverage == (100 * MetricWeight(Measured(metrics))) \div MetricWeight(metrics) IN
  IF coverage < minimumCoverage THEN [NoFactor EXCEPT !.coverage = coverage]
  ELSE [status   |-> "AVAILABLE",
        score    |-> SumFunction([x \in Measured(metrics) |-> x.score * x.weight])
                       \div MetricWeight(Measured(metrics)),
        coverage |-> coverage]

ScoreFactor(metrics, minimumCoverage) ==
  LET coverage == (100 * MetricWeight(Measured(metrics))) \div MetricWeight(metrics) IN
  IF \/ \E x \in metrics : x.required /\ x.score = -1
     \/ 100 * MetricWeight(Measured(metrics)) < minimumCoverage * MetricWeight(metrics)
  THEN [NoFactor EXCEPT !.coverage = coverage]
  ELSE [status   |-> "AVAILABLE",
        score    |-> SumFunction([x \in Measured(metrics) |-> x.score * x.weight])
                       \div MetricWeight(Measured(metrics)),
        coverage |-> coverage]

-----------------------------------------------------------------------------
(* calculateCompositeRisk.  `factors' holds the results supplied, at most  *)
(* one a factor; a factor left out has none.                               *)

Supplied(factors, f) == IF f \in DOMAIN factors THEN factors[f] ELSE NoFactor

Weighted(m, category) == {f \in FactorSet : m.weights[category][f] > 0}

Usable(m, result) == result.status = "AVAILABLE" /\ result.coverage >= m.minimumCoverage

EffectiveScore(m, result) == IF Usable(m, result) THEN result.score ELSE m.unknownRiskProxy

RiskBands == <<[maximum |-> 20, code |-> "LOW"], [maximum |-> 40, code |-> "LOW_TO_MODERATE"],
               [maximum |-> 60, code |-> "MODERATE"], [maximum |-> 80, code |-> "HIGH"],
               [maximum |-> 100, code |-> "VERY_HIGH"]>>

(* The first band that reaches a score, given in hundredths.               *)
BandOf(score) == RiskBands[Min({i \in DOMAIN RiskBands : score <= 100 * RiskBands[i].maximum})].code

BandNumber(code) == CHOOSE i \in DOMAIN RiskBands : RiskBands[i].code = code

(* A bug: the weights of missing factors are spread over the others.       *)
CompositeRenormalized(m, category, factors) ==
  LET weights == m.weights[category]
      known   == {f \in Weighted(m, category) : Usable(m, Supplied(factors, f))}
      unknown == Weighted(m, category) \ known
      total   == SumFunction([f \in known |-> weights[f]])
      score   == IF total = 0 THEN 100 * m.unknownRiskProxy
                 ELSE (100 * SumFunction([f \in known |-> weights[f] * factors[f].score])) \div total
  IN [status |-> IF unknown = {} THEN "VERIFIED" ELSE "PROVISIONAL", score |-> score,
      band |-> BandOf(score), unavailable |-> unknown,
      coverage |-> SumFunction([f \in known |-> weights[f] * factors[f].coverage])]

Composite(m, category, factors) ==
  LET weights == m.weights[category]
      unknown == {f \in Weighted(m, category) : ~Usable(m, Supplied(factors, f))}
      score   == SumFunction([f \in Weighted(m, category) |->
                                weights[f] * EffectiveScore(m, Supplied(factors, f))])
  IN [status      |-> IF unknown = {} THEN "VERIFIED" ELSE "PROVISIONAL",
      score       |-> score,
      band        |-> BandOf(score),
      unavailable |-> unknown,
      coverage    |-> SumFunction([f \in Weighted(m, category) \ unknown |->
                                     weights[f] * factors[f].coverage])]

-----------------------------------------------------------------------------
(* calculateRiskAdjustedApy.                                               *)

(* A bug: a factor belongs to no group.                                    *)
PenaltyGroupsShort ==
  {{Factor(name) : name \in group} : group \in
   {{"LIQUIDITY"}, {"REDEMPTION", "LEGAL_AND_ELIGIBILITY_UNCERTAINTY"},
    {"ISSUER_OR_COUNTERPARTY"}, {"CUSTODY"},
    {"SMART_CONTRACT", "ORACLE", "CHAIN", "GOVERNANCE_AND_UPGRADEABILITY"}, {"CONCENTRATION"},
    {"YIELD_INSTABILITY"}, {"INCENTIVE_DEPENDENCY"}, {"MARKET_PRICE", "STABLECOIN_OR_DEPEG"},
    {"DATA_QUALITY"}}}

PenaltyGroups ==
  {{Factor(name) : name \in group} : group \in
   {{"LIQUIDITY"}, {"REDEMPTION", "LEGAL_AND_ELIGIBILITY_UNCERTAINTY"},
    {"ISSUER_OR_COUNTERPARTY", "OPERATIONAL"}, {"CUSTODY"},
    {"SMART_CONTRACT", "ORACLE", "CHAIN", "GOVERNANCE_AND_UPGRADEABILITY"}, {"CONCENTRATION"},
    {"YIELD_INSTABILITY"}, {"INCENTIVE_DEPENDENCY"}, {"MARKET_PRICE", "STABLECOIN_OR_DEPEG"},
    {"DATA_QUALITY"}}}

(* The weight share of a group times the square of its severity, which is  *)
(* the weighted mean of its factors' effective scores.                     *)
Penalty(m, category, factors, group) ==
  LET weights  == m.weights[category]
      share    == SumFunction([f \in group |-> weights[f]])
      severity == SumFunction([f \in group |-> weights[f] * EffectiveScore(m, Supplied(factors, f))])
  IN IF share = 0 THEN 0 ELSE (severity * severity) \div share

TotalPenalty(m, category, factors) ==
  SumFunction([g \in PenaltyGroups |-> Penalty(m, category, factors, g)])

-----------------------------------------------------------------------------
(* The evidence about a route.                                             *)

CONSTANTS
  WatchedFactors,   \* names of factors whose evidence changes; the others have a score of 60
  FactorMetrics     \* sets of metrics a factor may have

ASSUME RiskConstants ==
  /\ \A name \in WatchedFactors : Factor(name) \in FactorSet
  /\ \A metrics \in FactorMetrics :
       /\ IsFiniteSet(metrics) /\ metrics # {}
       /\ metrics \subseteq [score : {-1} \cup Percentages, weight : Percentages \ {0}, required : BOOLEAN]
ASSUME SeededMethodology == ValidMethodology(MethodologyV1)

VARIABLES
  category,
  factorMetrics,   \* of each watched factor
  composite,       \* what is calculated from them: the composite,
  penalty          \* and the total penalty

riskVars == <<category, factorMetrics, composite, penalty>>

Watched == {Factor(name) : name \in WatchedFactors}

Calculate(of, known) ==
  LET factors == [f \in FactorSet |->
                    IF f \in Watched THEN ScoreFactor(known[f], MethodologyV1.minimumCoverage)
                    ELSE [status |-> "AVAILABLE", score |-> 60, coverage |-> 100]]
  IN [composite |-> Composite(MethodologyV1, of, factors),
      penalty   |-> TotalPenalty(MethodologyV1, of, factors)]

RiskTypeOK ==
  /\ category \in Categories
  /\ factorMetrics \in [Watched -> FactorMetrics]
  /\ composite.score \in 0 .. 100 * 100 /\ composite.coverage \in 0 .. 100 * 100
  /\ composite.unavailable \subseteq FactorSet
  /\ penalty \in 0 .. 100 * (100 * 100)

RiskInit ==
  /\ category \in Categories
  /\ factorMetrics \in [Watched -> FactorMetrics]
  /\ LET calculated == Calculate(category, factorMetrics) IN
       composite = calculated.composite /\ penalty = calculated.penalty

FactorChanges(f) ==
  /\ \E known \in FactorMetrics \ {factorMetrics[f]} :
       LET changed    == [factorMetrics EXCEPT ![f] = known]
           calculated == Calculate(category, changed)
       IN /\ factorMetrics' = changed
          /\ composite' = calculated.composite /\ penalty' = calculated.penalty
  /\ UNCHANGED category

RiskNext == \E f \in Watched : FactorChanges(f)

RiskSpec == RiskInit /\ [][RiskNext]_riskVars

-----------------------------------------------------------------------------
(* Properties.                                                             *)

EffectiveOf(known) ==
  EffectiveScore(MethodologyV1, ScoreFactor(known, MethodologyV1.minimumCoverage))

(* Evidence that makes no factor look better never improves the score, its *)
(* band or the penalties (ARCHITECTURE.md:186).                            *)
WorseEvidenceScoresWorse ==
  /\ factorMetrics' # factorMetrics
  /\ \A f \in Watched : EffectiveOf(factorMetrics[f]) <= EffectiveOf(factorMetrics'[f])
  => /\ composite.score <= composite'.score /\ penalty <= penalty'
     /\ BandNumber(composite.band) <= BandNumber(composite'.band)

(* A factor's evidence moves the composite by exactly its weight times the *)
(* change of its score: no weight moves to another factor                  *)
(* (RISK_METHODOLOGY.md:85).                                               *)
WeightsStayPut ==
  \A f \in Watched :
    factorMetrics'[f] # factorMetrics[f] =>
      composite'.score - composite.score =
        CategoryWeightsV1[category][f] *
          (EffectiveOf(factorMetrics'[f]) - EffectiveOf(factorMetrics[f]))

(* "Missing evidence cannot improve risk" (ARCHITECTURE.md:186): a route   *)
(* that loses the evidence of a factor does not get a better score.        *)
MissingEvidenceCannotImproveRisk ==
  [][composite.unavailable \subseteq composite'.unavailable
     /\ composite'.unavailable # composite.unavailable =>
       composite.score <= composite'.score]_riskVars

(* The penalties together lie between what one group of all factors would  *)
(* cost and the composite's share of the budget: every factor is charged   *)
(* once (RISK_METHODOLOGY.md:205), up to rounding in each group.           *)
PenaltiesAreBounded ==
  /\ penalty <= 100 * composite.score
  /\ composite.score * composite.score <= 100 * (penalty + Cardinality(PenaltyGroups))

(* A composite is verified only if all required evidence of each factor    *)
(* that has a weight is there, and enough of the other                     *)
(* (RISK_METHODOLOGY.md:151).                                              *)
VerifiedHasEvidence ==
  composite.status = "VERIFIED" =>
    /\ composite.coverage >= 100 * MethodologyV1.minimumCoverage
    /\ \A f \in Watched : CategoryWeightsV1[category][f] > 0 =>
         \A x \in factorMetrics[f] : x.required => x.score # -1

(* The published risk of a route follows from the evidence there is.       *)
RiskFollowsEvidence ==
  [][/\ WorseEvidenceScoresWorse /\ WeightsStayPut
     /\ PenaltiesAreBounded' /\ VerifiedHasEvidence']_riskVars
=============================================================================
