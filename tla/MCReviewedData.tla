--------------------------- MODULE MCReviewedData ---------------------------
(* What administrators review and publish, and what is calculated from it, *)
(* for TLC: nine modules that share no variable, of which "part" says which *)
(* one runs while the others stay as they began.                           *)
EXTENDS MCRiskEngine, RiskMethodologies, SourcePublication, AdminRevisions, Catalogue,
        RiskRecalculation, LiveEvidence, PortfolioOptimizer, YieldEngine

CONSTANTS one, two, s1, s2, importer, recalculation, m1, m2, f1, r1

VARIABLE part

-----------------------------------------------------------------------------
(* Values of the constants.                                                *)

(* Two administrators, or two callers; two requests of theirs.             *)
MCActors      == {one, two}
MCSessions    == {s1, s2}
ActorSymmetry == Permutations(MCActors) \cup Permutations(MCSessions)

MCVersions       == {m1, m2}
MCContents       == {1}
MCEffectiveTimes == {0, 1}

MCPayloads == {[content |-> 1, verifiedAt |-> 0, gated |-> FALSE],
               [content |-> 2, verifiedAt |-> 1, gated |-> TRUE]}

MCRiskJobs   == {recalculation}
MCRiskRoutes == {r1}
MCFactors    == {f1}

MCLiveCircuit == [failureThreshold |-> 2, successThreshold |-> 1, recoveryTimeout |-> 1]

MCComponents ==
  [base   |-> [incentive |-> FALSE, from |-> Always, until |-> Always, feeEligible |-> TRUE,
               variable |-> FALSE, short |-> FALSE],
   reward |-> [incentive |-> TRUE, from |-> 364, until |-> 366, feeEligible |-> TRUE,
               variable |-> TRUE, short |-> FALSE]]
MCFees       == [carry |-> "PERFORMANCE", upkeep |-> "RECURRING"]
MCFigures    == {-2, 1, 3}

(* Three routes on two chains, one without a protocol.                     *)
MCCandidate ==
  [lifecycle |-> "PUBLISHED", dataStatus |-> "VERIFIED", verified |-> TRUE,
   eligibility |-> "ELIGIBLE", jurisdictions |-> {"*"}, investors |-> {"retail"},
   kyc |-> "NOT_REQUIRED", confidence |-> "DIRECT_API", scale |-> 5, available |-> 1000,
   incentive |-> 0, product |-> "p1", protocol |-> "q1", issuer |-> "i1", chain |-> "base",
   category |-> "DEFI_LENDING", asset |-> "usdc", flags |-> {"defi"}, methodology |-> 1, at |-> 0,
   costsKnown |-> TRUE, defaultCost |-> 0, costs |-> {}, gross |-> 6, comparativeYield |-> 6,
   risk |-> 40, liquid |-> [immediate |-> 50, day |-> 100, week |-> 100]]
MCSecond ==
  [MCCandidate EXCEPT !.product = "p2", !.protocol = "none", !.issuer = "i2", !.flags = {"rwa"},
     !.chain = "eth", !.comparativeYield = 4, !.category = "TOKENIZED_TBILL", !.risk = 20,
     !.liquid = [immediate |-> 0, day |-> 50, week |-> 100]]
MCThird ==
  [MCSecond EXCEPT !.product = "p3", !.asset = "usdt", !.flags = {"rwa", "stablecoin"},
     !.confidence = "ISSUER_REPORTED"]

MCCosts == {[asset |-> "usdc", chain |-> "none", cost |-> 2],
            [asset |-> "none", chain |-> "base", cost |-> 1],
            [asset |-> "usdc", chain |-> "base", cost |-> 3]}

MCPools ==
  {<<MCCandidate, MCSecond, MCThird>>,
   <<MCCandidate, [MCSecond EXCEPT !.comparativeYield = 6],
     [MCThird EXCEPT !.comparativeYield = 9, !.available = 30]>>,
   <<[MCCandidate EXCEPT !.costs = MCCosts], [MCSecond EXCEPT !.eligibility = "CONDITIONAL"],
     MCThird>>,
   <<[MCCandidate EXCEPT !.costsKnown = FALSE], MCSecond>>,
   <<[MCCandidate EXCEPT !.dataStatus = "STALE"], [MCSecond EXCEPT !.kyc = "REQUIRED"]>>}

MCInputs ==
  [profile : {"CONSERVATIVE", "YIELD_SEEKING"},
   overrides : {<<>>,
     [PRODUCT_CAP |-> 50, CHAIN_CAP |-> 100, RWA_CAP |-> 60, IMMEDIATE_LIQUIDITY_MINIMUM |-> 0],
     [PROTOCOL_CAP |-> 20, CATEGORY_CAP |-> 100, CHAIN_CAP |-> 100, RWA_CAP |-> 100,
      ISSUER_CAP |-> 100, WEIGHTED_RISK_MAXIMUM |-> 30]},
   advanced : BOOLEAN, kycAcceptable : BOOLEAN, preferred : {{}, {"eth", "usdt"}},
   jurisdiction : {"us"}, investor : {"retail"}, minimumConfidence : {"ESTIMATED"},
   minimumScale : {0}, minimumAvailable : {0}, incentiveAcceptable : {TRUE}, excluded : {{}},
   methodology : {1}, asOf : {1}, asset : {"usdc"}, chain : {"base"}, periodsAYear : {1},
   capital : {100}]

MCRequests     == [input : MCInputs, candidates : MCPools]
MCSolverErrors == {-7, 1}

-----------------------------------------------------------------------------
(* The parts.                                                              *)

adminVars    == <<methodologyVars, publicationVars, revisionVars, catalogueVars>>
analysisVars == <<recalculationVars, liveVars, riskVars, yieldVars>>
reviewedVars == <<part, adminVars, analysisVars, optimizerVars>>

Parts == {"methodologies", "publication", "revisions", "catalogue", "recalculation", "live",
          "risk", "yield", "optimizer"}

(* One of the initial states of three modules that have many.              *)
MCRiskCase ==
  /\ category = "DEFI_LENDING"
  /\ factorMetrics = [f \in Watched |-> {Metric(100, 1, FALSE)}]
  /\ LET calculated == Calculate(category, factorMetrics) IN
       composite = calculated.composite /\ penalty = calculated.penalty
MCYieldCase ==
  /\ metric = [id \in Ids |-> [status |-> "UNKNOWN"]]
  /\ horizon = [from |-> 364, until |-> 365]
  /\ convention = "ACTUAL_365_FIXED"
MCOptimizerCase ==
  /\ request = [input |-> CHOOSE i \in MCInputs : TRUE,
                candidates |-> CHOOSE p \in MCPools : TRUE]
  /\ stage = "prepared" /\ optimum = <<>> /\ portfolio = NoResult

ReviewedInit ==
  /\ part \in Parts
  /\ MethodologyInit /\ RevisionsInit /\ CatalogueInit /\ RecalculationInit
  /\ IF part = "publication" THEN PublicationInit
     ELSE PublicationInit /\ table = "SOURCE"
  /\ LiveInit /\ (part # "live" => effective = m1)
  /\ IF part = "risk" THEN RiskInit ELSE MCRiskCase
  /\ IF part = "yield" THEN YieldInit ELSE MCYieldCase
  /\ IF part = "optimizer" THEN OptimizerInit ELSE MCOptimizerCase

ReviewedNext ==
  \/ /\ part = "methodologies" /\ MethodologyNext
     /\ UNCHANGED <<part, publicationVars, revisionVars, catalogueVars, analysisVars, optimizerVars>>
  \/ /\ part = "publication" /\ PublicationNext
     /\ UNCHANGED <<part, methodologyVars, revisionVars, catalogueVars, analysisVars, optimizerVars>>
  \/ /\ part = "revisions" /\ RevisionsNext
     /\ UNCHANGED <<part, methodologyVars, publicationVars, catalogueVars, analysisVars, optimizerVars>>
  \/ /\ part = "catalogue" /\ CatalogueNext
     /\ UNCHANGED <<part, methodologyVars, publicationVars, revisionVars, analysisVars, optimizerVars>>
  \/ /\ part = "recalculation" /\ RecalculationNext
     /\ UNCHANGED <<part, adminVars, liveVars, riskVars, yieldVars, optimizerVars>>
  \/ /\ part = "live" /\ LiveNext
     /\ UNCHANGED <<part, adminVars, recalculationVars, riskVars, yieldVars, optimizerVars>>
  \/ /\ part = "risk" /\ RiskNext
     /\ UNCHANGED <<part, adminVars, recalculationVars, liveVars, yieldVars, optimizerVars>>
  \/ /\ part = "yield" /\ YieldNext
     /\ UNCHANGED <<part, adminVars, recalculationVars, liveVars, riskVars, optimizerVars>>
  \/ /\ part = "optimizer" /\ OptimizerNext
     /\ UNCHANGED <<part, adminVars, analysisVars>>

ReviewedSpec == ReviewedInit /\ [][ReviewedNext]_reviewedVars

(* The variables of the part that runs have their types; those of the      *)
(* others never change.                                                    *)
ReviewedTypeOK ==
  CASE part = "methodologies" -> MethodologyTypeOK
    [] part = "publication"   -> PublicationTypeOK
    [] part = "revisions"     -> RevisionsTypeOK
    [] part = "catalogue"     -> CatalogueTypeOK
    [] part = "recalculation" -> RecalculationTypeOK
    [] part = "live"          -> LiveTypeOK
    [] part = "risk"          -> RiskTypeOK
    [] part = "yield"         -> YieldTypeOK
    [] part = "optimizer"     -> OptimizerTypeOK
=============================================================================
