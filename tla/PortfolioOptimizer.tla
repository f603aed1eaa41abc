-------------------------- MODULE PortfolioOptimizer --------------------------
(***************************************************************************)
(* packages/routing-engine: one call of optimizePortfolio, from the        *)
(* request to a feasible, infeasible or unavailable result.                *)
(*                                                                         *)
(* Shares are whole percentages: an allocation unit, 1E-10 of a percent in *)
(* the code, is one percent here, and Tolerance stands for the code's      *)
(* 1E-6.  The linear solver is external: it finds an optimum among the     *)
(* portfolios in steps of GridStep percent, where the requests are made to *)
(* have theirs, and returns it with an error in SolverErrors for each      *)
(* route.  A yield is a whole number, and so is an annual cost.            *)
(***************************************************************************)
EXTENDS Integers, Sequences, FiniteSetsExt

CONSTANTS Requests,      \* requests that the schemas accept
          GridStep, SolverErrors, Tolerance

VARIABLES request,     \* what the caller asked for
          stage,       \* where the call stands
          optimum,     \* the solution taken so far
          portfolio    \* the result

optimizerVars == <<request, stage, optimum, portfolio>>

NoneOf == "none"
NoResult == [status |-> "NONE"]

GroupCap == [product |-> "PRODUCT_CAP", issuer |-> "ISSUER_CAP", protocol |-> "PROTOCOL_CAP",
             chain |-> "CHAIN_CAP", category |-> "CATEGORY_CAP"]
FlagCap == [stablecoin |-> "STABLECOIN_CAP", defi |-> "DEFI_CAP", rwa |-> "RWA_CAP",
            gold |-> "GOLD_CAP"]
Windows == [immediate |-> "IMMEDIATE_LIQUIDITY_MINIMUM", day |-> "TWENTY_FOUR_HOUR_LIQUIDITY_MINIMUM",
            week |-> "SEVEN_DAY_LIQUIDITY_MINIMUM"]

PolicyCodes ==
  <<"PRODUCT_CAP", "ISSUER_CAP", "PROTOCOL_CAP", "CHAIN_CAP", "CATEGORY_CAP", "STABLECOIN_CAP",
    "DEFI_CAP", "RWA_CAP", "GOLD_CAP", "IMMEDIATE_LIQUIDITY_MINIMUM",
    "TWENTY_FOUR_HOUR_LIQUIDITY_MINIMUM", "SEVEN_DAY_LIQUIDITY_MINIMUM", "WEIGHTED_RISK_MAXIMUM">>

ProfileConstraints ==
  [CAPITAL_PRESERVATION |-> <<25, 35, 20, 50, 50, 40, 20, 80, 20, 40, 70, 90, 40>>,
   CONSERVATIVE         |-> <<30, 40, 30, 60, 60, 50, 35, 80, 25, 30, 60, 85, 50>>,
   BALANCED             |-> <<40, 50, 40, 70, 70, 60, 60, 80, 30, 20, 50, 75, 65>>,
   YIELD_SEEKING        |-> <<60, 70, 65, 80, 85, 80, 85, 90, 50, 10, 25, 50, 85>>,
   CUSTOM               |-> <<100, 100, 100, 100, 100, 100, 100, 100, 100, 0, 0, 0, 100>>]

(* expandProfileConstraints: the profile's limits, some of them overridden. *)
PolicyOf(input) ==
  [code \in {PolicyCodes[k] : k \in DOMAIN PolicyCodes} |->
     IF code \in DOMAIN input.overrides THEN input.overrides[code]
     ELSE ProfileConstraints[input.profile][CHOOSE k \in DOMAIN PolicyCodes : PolicyCodes[k] = code]]

(* What the schemas demand of a request beyond the shape of its fields.    *)
Acceptable(r) ==
  LET p == PolicyOf(r.input) IN
  /\ p[Windows.immediate] <= p[Windows.day] /\ p[Windows.day] <= p[Windows.week]
  /\ \A id \in DOMAIN r.candidates : LET c == r.candidates[id] IN
       /\ c.liquid.immediate <= c.liquid.day /\ c.liquid.day <= c.liquid.week
       /\ c.category = "GOLD_BACKED_TOKEN" => "gold" \in c.flags
       /\ ~c.costsKnown => c.defaultCost = 0 /\ c.costs = {}
       /\ \A a, b \in c.costs : a.asset = b.asset /\ a.chain = b.chain => a = b
       /\ \A a \in c.costs : {a.asset, a.chain} # {NoneOf}

(* The shape of the fields that are reckoned with.                         *)
ASSUME OptimizerAssumption ==
  /\ GridStep \in 1 .. 100 /\ Tolerance \in 0 .. 99
  /\ SolverErrors \subseteq Int /\ SolverErrors # {}
  /\ \A r \in Requests :
       /\ r.input.profile \in DOMAIN ProfileConstraints
       /\ \A code \in DOMAIN r.input.overrides : r.input.overrides[code] \in 0 .. 100
       /\ r.input.capital \in Nat \ {0} /\ r.input.periodsAYear \in Nat
       /\ IsFiniteSet(DOMAIN r.candidates) /\ DOMAIN r.candidates \subseteq Nat
       /\ \A id \in DOMAIN r.candidates : LET c == r.candidates[id] IN
            /\ c.available \in Nat /\ c.comparativeYield \in Int /\ c.risk \in 0 .. 100
            /\ \A w \in DOMAIN Windows : c.liquid[w] \in 0 .. 100
            /\ c.defaultCost \in Nat /\ \A o \in c.costs : o.cost \in Nat

(* The solver keeps its values within the bounds and constraints up to     *)
(* 1E-9, a thousandth of the tolerance, of which all routes together are   *)
(* far less than the capital.                                              *)
SolverIsAccurate ==
  \E error \in Nat :
    /\ SolverErrors \subseteq -error .. error /\ 2 * error < Tolerance
    /\ \A r \in Requests : 2 * error * Cardinality(DOMAIN r.candidates) <= 100

-----------------------------------------------------------------------------
(* evaluateCandidate: why a route may not be used for this request.        *)
ConfidenceRank ==
  [UNAVAILABLE |-> 0, STALE |-> 1, ESTIMATED |-> 2, THIRD_PARTY |-> 3, ISSUER_REPORTED |-> 4,
   MANUALLY_VERIFIED |-> 5, DIRECT_API |-> 6, ONCHAIN_DERIVED |-> 7, VERIFIED_OFFICIAL |-> 8]

Exclusions(c, input) ==
  LET assumed == input.advanced /\ input.kycAcceptable
      applies == [
        LIFECYCLE_NOT_PUBLISHED     |-> c.lifecycle # "PUBLISHED",
        DATA_STALE                  |-> c.dataStatus = "STALE",
        DATA_UNAVAILABLE            |-> c.dataStatus \in {"UNKNOWN", "UNAVAILABLE", "AWAITING_VERIFICATION"},
        ROUTE_UNVERIFIED            |-> ~c.verified,
        JURISDICTION_INELIGIBLE     |-> \/ c.eligibility = "INELIGIBLE"
                                        \/ c.eligibility = "ELIGIBLE" /\ {"*", input.jurisdiction} \cap c.jurisdictions = {},
        INVESTOR_CLASS_INELIGIBLE   |-> c.eligibility = "ELIGIBLE" /\ input.investor \notin c.investors,
        ELIGIBILITY_UNKNOWN         |-> c.eligibility \in {"UNKNOWN", "AWAITING_VERIFICATION"} /\ ~assumed,
        ELIGIBILITY_CONDITIONAL     |-> c.eligibility = "CONDITIONAL" /\ ~assumed,
        KYC_NOT_ACCEPTED            |-> c.kyc = "REQUIRED" /\ ~input.kycAcceptable,
        KYC_UNKNOWN                 |-> c.kyc = "UNKNOWN" /\ ~assumed,
        CONFIDENCE_BELOW_MINIMUM    |-> ConfidenceRank[c.confidence] < ConfidenceRank[input.minimumConfidence],
        SCALE_BELOW_MINIMUM         |-> c.scale < input.minimumScale,
        LIQUIDITY_BELOW_MINIMUM     |-> c.available < input.minimumAvailable,
        INCENTIVE_NOT_ACCEPTED      |-> c.incentive # 0 /\ ~input.incentiveAcceptable,
        PRODUCT_EXCLUDED            |-> c.product \in input.excluded,
        PROTOCOL_EXCLUDED           |-> c.protocol # NoneOf /\ c.protocol \in input.excluded,
        ISSUER_EXCLUDED             |-> c.issuer \in input.excluded,
        CHAIN_EXCLUDED              |-> c.chain \in input.excluded,
        METHODOLOGY_VERSION_MISMATCH |-> c.methodology # input.methodology,
        DATA_TIMESTAMP_IN_FUTURE    |-> c.at > input.asOf,
        TRANSACTION_COSTS_UNAVAILABLE |-> ~c.costsKnown /\ ~input.advanced]
  IN {code \in DOMAIN applies : applies[code]}

Included(r) == {id \in DOMAIN r.candidates : Exclusions(r.candidates[id], r.input) = {}}

(* selectCostModel: the most specific override for the caller's position.  *)
CostOf(c, input) ==
  LET fits == {o \in c.costs : o.asset \in {NoneOf, input.asset} /\ o.chain \in {NoneOf, input.chain}}
      Rank(o) == (IF o.asset # NoneOf THEN 1 ELSE 0) + (IF o.chain # NoneOf THEN 1 ELSE 0)
      best == {o \in fits : \A p \in fits : Rank(o) >= Rank(p)}
  IN IF fits = {} THEN c.defaultCost
     ELSE (CHOOSE o \in best : o.asset = NoneOf \/ \A p \in best : p.asset # NoneOf).cost

(* prepareCandidate: the cost of going in, spread over the holding period. *)
AnnualCost(c, input) == CostOf(c, input) * input.periodsAYear

AdjustedYield(c, input) == c.comparativeYield - AnnualCost(c, input)

-----------------------------------------------------------------------------
(* buildConstraints.  A constraint bounds the sum of weight times share,   *)
(* both in percent.                                                        *)

Constraint(code, of, weight, sense, limit) ==
  [code |-> code, of |-> of, weight |-> weight, sense |-> sense, limit |-> limit]

All(set, routes) == [id \in routes |-> IF id \in set THEN 100 ELSE 0]

(* A bug: the routes without a protocol are taken for one protocol.        *)
GroupNamesWithNone(cs, routes, kind) == {cs[id][kind] : id \in routes}

GroupNames(cs, routes, kind) == {cs[id][kind] : id \in routes} \ {NoneOf}

GroupConstraints(cs, routes, policy) ==
  UNION {{Constraint(GroupCap[kind], name, All({id \in routes : cs[id][kind] = name}, routes),
                     "<=", policy[GroupCap[kind]]) : name \in GroupNames(cs, routes, kind)}
          : kind \in DOMAIN GroupCap}

Constraints(r) ==
  LET cs == r.candidates
      routes == Included(r)
      policy == PolicyOf(r.input)
      Flagged(flag) == {id \in routes : flag \in cs[id].flags}
  IN   {Constraint("ROUTE_LIQUIDITY_CAPACITY", id, All({id}, routes), "<=",
                   Min({100, (100 * cs[id].available) \div r.input.capital})) : id \in routes}
  \cup GroupConstraints(cs, routes, policy)
  \cup {Constraint(FlagCap[flag], flag, All(Flagged(flag), routes), "<=", policy[FlagCap[flag]])
          : flag \in {g \in DOMAIN FlagCap : Flagged(g) # {}}}
  \cup {Constraint(Windows[w], w, [id \in routes |-> cs[id].liquid[w]], ">=", policy[Windows[w]])
          : w \in DOMAIN Windows}
  \cup {Constraint("WEIGHTED_RISK_MAXIMUM", "risk", [id \in routes |-> cs[id].risk], "<=",
                   policy["WEIGHTED_RISK_MAXIMUM"])}

Load(weight, x) == SumFunction([id \in DOMAIN x |-> weight[id] * x[id]])

(* By how much a constraint is missed, in hundredths of a percent.         *)
Excess(k, x) == IF k.sense = "<=" THEN Load(k.weight, x) - 100 * k.limit
                ELSE 100 * k.limit - Load(k.weight, x)

Share(x, set) == SumFunctionOnSet(x, set)

(* The portfolios the solver chooses from.                                 *)
Portfolios(routes) ==
  {x \in [routes -> {GridStep * k : k \in 0 .. 100 \div GridStep}] : Share(x, routes) = 100}

Feasible(r) == {x \in Portfolios(Included(r)) : \A k \in Constraints(r) : Excess(k, x) <= 0}

-----------------------------------------------------------------------------
(* The two objectives.                                                     *)

Objective(r, x) ==
  SumFunction([id \in DOMAIN x |-> AdjustedYield(r.candidates[id], r.input) * x[id]])

(* preferenceObjective: chains before assets, then the order of the routes, *)
(* whose identifiers are numbers.                                          *)
Preference(r, x) ==
  LET n == Cardinality(DOMAIN x)
      Place(id) == Cardinality({other \in DOMAIN x : other < id})
      Worth(id) ==
        1000 * (n + 1) * ((IF r.candidates[id].chain \in r.input.preferred THEN 2 ELSE 0)
                          + (IF r.candidates[id].asset \in r.input.preferred THEN 1 ELSE 0))
          + n - Place(id)
  IN SumFunction([id \in DOMAIN x |-> Worth(id) * x[id]])

(* The arguments at which value is greatest.                               *)
Best(value) == LET top == Max(Range(value)) IN {x \in DOMAIN value : value[x] = top}

(* A bug: the second objective is maximised without the floor on the first. *)
TiesUnbounded(r, x) == Feasible(r)

Ties(r, x) == {y \in Feasible(r) : Objective(r, y) >= Objective(r, x)}

-----------------------------------------------------------------------------
(* quantizeAllocations and revalidateAllocation.                           *)

(* A bug: the shares are rounded down and the rest is left.                *)
QuantizedDown(raw) ==
  LET kept  == [id \in DOMAIN raw |-> IF raw[id] < 0 /\ -raw[id] <= Tolerance THEN 0 ELSE raw[id]]
      total == Share(kept, DOMAIN raw)
  IN IF total <= 0 THEN kept ELSE [id \in DOMAIN raw |-> (100 * kept[id]) \div total]

Quantized(raw) ==
  LET kept  == [id \in DOMAIN raw |-> IF raw[id] < 0 /\ -raw[id] <= Tolerance THEN 0 ELSE raw[id]]
      total == Share(kept, DOMAIN raw)
      floors == [id \in DOMAIN raw |-> (100 * kept[id]) \div total]
      Residual(id) == (100 * kept[id]) % total
      Before(id) == {o \in DOMAIN raw : \/ Residual(o) > Residual(id)
                                        \/ Residual(o) = Residual(id) /\ o < id}
      left  == 100 - Share(floors, DOMAIN raw)
  IN IF total <= 0 THEN kept
     ELSE [id \in DOMAIN raw |-> floors[id] + (IF Cardinality(Before(id)) < left THEN 1 ELSE 0)]

(* A bug: only the constraints on groups are checked again.                *)
ViolationsOfGroups(x, constraints) ==
  {k \in constraints : k.code \in {GroupCap[g] : g \in DOMAIN GroupCap} /\ Excess(k, x) > 100 * Tolerance}

Violations(x, constraints) ==
       {k \in constraints : Excess(k, x) > 100 * Tolerance}
  \cup {Constraint("ALLOCATION_TOTAL", "total", All({}, DOMAIN x), "<=", 100) :
          t \in {Share(x, DOMAIN x)} \ ((100 - Tolerance) .. (100 + Tolerance))}
  \cup {Constraint("NEGATIVE_ALLOCATION", id, All({id}, DOMAIN x), ">=", 0) :
          id \in {o \in DOMAIN x : x[o] < -Tolerance}}

-----------------------------------------------------------------------------
(* buildAllocations and buildMetrics.                                      *)

(* aggregateBy is called for these.                                        *)
Reported == DOMAIN GroupCap \ {"product"}

CostsKnown(r, x) == \A id \in DOMAIN x : x[id] = 0 \/ r.candidates[id].costsKnown

Metrics(r, x) ==
  LET cs == r.candidates
      Sum(Value(_)) == SumFunction([id \in DOMAIN x |-> Value(cs[id]) * x[id]])
  IN [gross      |-> Sum(LAMBDA c : c.gross),
      net        |-> IF CostsKnown(r, x) THEN Sum(LAMBDA c : AdjustedYield(c, r.input)) ELSE NoneOf,
      risk       |-> Sum(LAMBDA c : c.risk),
      liquid     |-> [w \in DOMAIN Windows |-> Sum(LAMBDA c : c.liquid[w])],
      flagged    |-> [f \in DOMAIN FlagCap |-> Share(x, {id \in DOMAIN x : f \in cs[id].flags})],
      by         |-> [kind \in Reported |->
                        [name \in {cs[id][kind] : id \in {o \in DOMAIN x : x[o] > 0}} \ {NoneOf} |->
                           Share(x, {id \in DOMAIN x : x[id] > 0 /\ cs[id][kind] = name})]],
      incentives |-> Share(x, {id \in DOMAIN x : cs[id].incentive # 0}),
      confidence |-> Sum(LAMBDA c : ConfidenceRank[c.confidence])]

(* diagnoseInfeasibility: the least total slack that admits a portfolio,   *)
(* told as the limits to change.                                           *)
Slack(constraints, x) ==
  [k \in constraints |-> IF Excess(k, x) > 0 THEN Excess(k, x) ELSE 0]

SlackTotal(constraints, x) == SumFunction(Slack(constraints, x))

(* A bug: a minimum is raised where it should be lowered.                  *)
SuggestionsUp(constraints, x) ==
  {[code |-> k.code, of |-> k.of, limit |-> 100 * k.limit + Slack(constraints, x)[k]] :
     k \in {c \in constraints : Slack(constraints, x)[c] > 100 * Tolerance}}

Suggestions(constraints, x) ==
  {[code |-> k.code, of |-> k.of,
    limit |-> IF k.sense = "<=" THEN 100 * k.limit + Slack(constraints, x)[k]
              ELSE Max({0, 100 * k.limit - Slack(constraints, x)[k]})] :
     k \in {c \in constraints : Slack(constraints, x)[c] > 100 * Tolerance}}

-----------------------------------------------------------------------------
OptimizerInit ==
  /\ request \in {r \in Requests : Acceptable(r)}
  /\ stage = "prepared" /\ optimum = <<>> /\ portfolio = NoResult

Give(result) == stage' = "done" /\ portfolio' = result /\ UNCHANGED <<request, optimum>>

(* No route is admitted: the reasons are the diagnosis.                    *)
ReportExclusions ==
  /\ stage = "prepared" /\ Included(request) = {}
  /\ Give([status |-> "INFEASIBLE", conflicts |-> {},
           reasons |-> UNION {Exclusions(request.candidates[id], request.input) : id \in DOMAIN request.candidates}])

(* The first solution: any best portfolio, no solution, or an exception.   *)
SolvePrimary ==
  /\ stage = "prepared" /\ Included(request) # {}
  /\ LET feasible == Feasible(request) IN
     IF feasible = {} THEN stage' = "infeasible" /\ UNCHANGED optimum
     ELSE /\ optimum' \in Best([x \in feasible |-> Objective(request, x)])
          /\ stage' = "solved"
  /\ UNCHANGED <<request, portfolio>>

SolverUnavailable ==
  /\ stage = "prepared" /\ Included(request) # {}
  /\ Give([status |-> "UNAVAILABLE", reason |-> "SOLVER_UNAVAILABLE"])

(* The relaxed program gives the conflicts.                                *)
Diagnose ==
  /\ stage = "infeasible"
  /\ LET constraints == Constraints(request) IN
     \E x \in Best([y \in Portfolios(Included(request)) |-> -SlackTotal(constraints, y)]) :
       Give([status |-> "INFEASIBLE", reasons |-> {}, conflicts |-> Suggestions(constraints, x)])

(* The relaxed program is not solved: no change is suggested.              *)
DiagnoseNothing ==
  /\ stage = "infeasible"
  /\ Give([status |-> "INFEASIBLE", reasons |-> {"NUMERICAL_INFEASIBILITY"}, conflicts |-> {}])

(* Nothing catches an exception of the solver here: the call is rejected.  *)
DiagnosisFails ==
  /\ stage = "infeasible"
  /\ stage' = "rejected" /\ UNCHANGED <<request, optimum, portfolio>>

(* Among equal yields, the preferred chains and assets; if that fails the  *)
(* first solution stands.                                                  *)
BreakTie ==
  /\ stage = "solved"
  /\ \/ optimum' \in Best([x \in Ties(request, optimum) |-> Preference(request, x)])
     \/ UNCHANGED optimum
  /\ stage' = "chosen" /\ UNCHANGED <<request, portfolio>>

(* The solution is read with the solver's error, quantised, checked again  *)
(* against every constraint, and only then given out.                      *)
Publish ==
  /\ stage = "chosen"
  /\ \E error \in [DOMAIN optimum -> SolverErrors] :
       LET x == Quantized([id \in DOMAIN optimum |-> optimum[id] + error[id]]) IN
       IF Violations(x, Constraints(request)) = {}
       THEN Give([status |-> "FEASIBLE", shares |-> x, metrics |-> Metrics(request, x)])
       ELSE Give([status |-> "UNAVAILABLE", reason |-> "SOLVER_OUTPUT_INVALID"])

OptimizerDone == stage \in {"done", "rejected"} /\ UNCHANGED optimizerVars

OptimizerNext ==
  \/ ReportExclusions \/ SolvePrimary \/ SolverUnavailable \/ Diagnose \/ DiagnoseNothing
  \/ DiagnosisFails
  \/ BreakTie \/ Publish \/ OptimizerDone

OptimizerSpec == OptimizerInit /\ [][OptimizerNext]_optimizerVars

-----------------------------------------------------------------------------
(* Properties.                                                             *)

OptimizerTypeOK ==
  /\ request \in Requests
  /\ stage \in {"prepared", "infeasible", "solved", "chosen", "done", "rejected"}
  /\ stage \in {"solved", "chosen"} => optimum \in Portfolios(Included(request))
  /\ portfolio.status \in {"NONE", "FEASIBLE", "INFEASIBLE", "UNAVAILABLE"}
  /\ (stage = "done") <=> (portfolio.status # "NONE")

Requested(r, code, of) ==
  IF code = "ROUTE_LIQUIDITY_CAPACITY" THEN (10000 * r.candidates[of].available) \div r.input.capital
  ELSE 100 * PolicyOf(r.input)[code]

(* The bound on a named group, in hundredths of a percent, after changes.  *)
LimitOf(r, changes, code, of) ==
  LET changed == {s \in changes : s.code = code /\ s.of = of} IN
  IF changed = {} THEN Requested(r, code, of) ELSE (CHOOSE s \in changed : TRUE).limit

(* A policy, read from the request route by route and not through the      *)
(* constraints built from it.                                              *)
Meets(x, r, changes, slack) ==
  LET cs == r.candidates
      Limit(code, of) == LimitOf(r, changes, code, of)
      Together(set) == 100 * Share(x, set)
  IN
  /\ \A id \in DOMAIN x :
       /\ 100 * x[id] <= Limit("ROUTE_LIQUIDITY_CAPACITY", id) + 100 * slack
       /\ \A kind \in DOMAIN GroupCap : cs[id][kind] # NoneOf =>
            Together({o \in DOMAIN x : cs[o][kind] = cs[id][kind]})
              <= Limit(GroupCap[kind], cs[id][kind]) + 100 * slack
  /\ \A f \in DOMAIN FlagCap :
       Together({o \in DOMAIN x : f \in cs[o].flags}) <= Limit(FlagCap[f], f) + 100 * slack
  /\ \A w \in DOMAIN Windows :
       Load([id \in DOMAIN x |-> cs[id].liquid[w]], x) >= Limit(Windows[w], w) - 100 * slack
  /\ Load([id \in DOMAIN x |-> cs[id].risk], x) <= Limit("WEIGHTED_RISK_MAXIMUM", "risk") + 100 * slack

(* A feasible result shares out exactly the whole capital, whatever error  *)
(* the solver made ("Results are quantized and revalidated",               *)
(* ARCHITECTURE.md:201).                                                   *)
WholeCapitalIsAllocated ==
  portfolio.status = "FEASIBLE" => Share(portfolio.shares, DOMAIN portfolio.shares) = 100

(* No share of it is negative.                                             *)
NoShareIsNegative ==
  portfolio.status = "FEASIBLE" => \A id \in DOMAIN portfolio.shares : portfolio.shares[id] >= 0

(* A feasible result keeps within the limits asked for, and what it        *)
(* reports of its flags, liquidity and risk does, up to the tolerance.     *)
LimitsAreKept ==
  portfolio.status = "FEASIBLE" =>
    LET m == portfolio.metrics
        policy == PolicyOf(request.input)
    IN /\ Meets(portfolio.shares, request, {}, Tolerance)
       /\ \A f \in DOMAIN FlagCap : m.flagged[f] <= policy[FlagCap[f]] + Tolerance
       /\ \A w \in DOMAIN Windows : m.liquid[w] >= 100 * (policy[Windows[w]] - Tolerance)
       /\ m.risk <= 100 * (policy["WEIGHTED_RISK_MAXIMUM"] + Tolerance)

(* The exposures it reports to issuers, protocols, chains and categories   *)
(* do as well, although only what is above zero is counted there.          *)
ExposuresAreWithinLimits ==
  portfolio.status = "FEASIBLE" =>
    LET by == portfolio.metrics.by IN
    \A kind \in Reported : \A name \in DOMAIN by[kind] :
      by[kind][name] <= PolicyOf(request.input)[GroupCap[kind]] + Tolerance

(* A request is called infeasible only when no portfolio of the admitted   *)
(* routes meets its policy.                                                *)
InfeasibleMeansNone ==
  portfolio.status = "INFEASIBLE" =>
    ~\E x \in Portfolios(Included(request)) : Meets(x, request, {}, 0)

(* The changes suggested for an infeasible request, made together, leave it *)
(* with a portfolio: they are "smallest feasible changes"                  *)
(* (ARCHITECTURE.md:203).                                                  *)
SuggestionsSuffice ==
  portfolio.status = "INFEASIBLE" /\ portfolio.conflicts # {} =>
    \E x \in Portfolios(Included(request)) : Meets(x, request, portfolio.conflicts, Tolerance)

(* Preferring chains and assets costs no yield: what is given out earns as *)
(* much as the best portfolio, up to what an error moves.                  *)
PreferenceCostsNothing ==
  portfolio.status = "FEASIBLE" =>
    LET yields == {AdjustedYield(request.candidates[id], request.input) : id \in Included(request)}
        spread == Max(yields) - Min(yields)
    IN \A x \in Feasible(request) :
         Objective(request, portfolio.shares)
           >= Objective(request, x) - spread * Tolerance * Cardinality(Included(request))

(* An answer of the optimizer, feasible or not, holds for the request as   *)
(* it was made, and not only for what was passed to the solver.            *)
PortfolioIsSound ==
  /\ WholeCapitalIsAllocated /\ NoShareIsNegative /\ LimitsAreKept /\ ExposuresAreWithinLimits
  /\ PreferenceCostsNothing /\ InfeasibleMeansNone /\ SuggestionsSuffice
=============================================================================
