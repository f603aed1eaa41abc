------------------------------ MODULE YieldEngine ------------------------------
(***************************************************************************)
(* packages/yield-engine/src/index.ts: the net yield of a route over a     *)
(* horizon, from its components, fees and transaction costs, each of which *)
(* may be unknown.                                                         *)
(*                                                                         *)
(* Time is a number of days since the 1st of January of FirstYear, and a   *)
(* fraction of a year a number of parts in 365 * 366.  A yield is a whole  *)
(* number of percentage points.  Results are exact except the cost, which  *)
(* is rounded down.  Yields that are not simple annual ones, which make the *)
(* result unavailable at once, are left out.                               *)
(*                                                                         *)
(* The state is one input of the calculation, which its caller may amend   *)
(* figure by figure, so that two results can be compared.                  *)
(***************************************************************************)
EXTENDS Integers, FiniteSetsExt

CONSTANTS FirstYear,
          Components,     \* id |-> [incentive, from, until, feeEligible, variable, short]
          Fees,           \* id |-> "RECURRING" or "PERFORMANCE"
          Costs,          \* transaction costs
          Statuses,       \* what a figure's status may be
          Figures, Days, Capital

Ids == DOMAIN Components \cup DOMAIN Fees \cup Costs
Always == -1            \* an incentive with no start, or no end
Observed == {"CURRENT", "ESTIMATED", "STALE"}

ASSUME YieldAssumption ==
  /\ FirstYear \in Nat /\ Capital \in Nat \ {0} /\ Days \subseteq Nat /\ Figures \subseteq Int
  /\ IsFiniteSet(Ids)
  /\ DOMAIN Components \cap (DOMAIN Fees \cup Costs) = {} /\ DOMAIN Fees \cap Costs = {}
  /\ \A id \in DOMAIN Components :
       /\ Components[id].incentive \in BOOLEAN /\ Components[id].feeEligible \in BOOLEAN
       /\ Components[id].from \in Nat \cup {Always} /\ Components[id].until \in Nat \cup {Always}
  /\ "UNKNOWN" \in Statuses
  /\ Statuses \subseteq Observed \cup {"UNKNOWN", "UNAVAILABLE", "AWAITING_VERIFICATION"}

VARIABLES metric,         \* what is known of each input
          horizon,        \* [from, until]
          convention      \* of counting days

yieldVars == <<metric, horizon, convention>>

HasValue(m) == m.status \in Observed

(* A performance fee is a part of the yield; no fee or cost is negative.   *)
Plausible(id, value) ==
  /\ id \notin DOMAIN Components => value >= 0
  /\ id \in DOMAIN Fees => (Fees[id] = "PERFORMANCE" => value <= 100)

MetricInputs(id) ==
  {[status |-> s, value |-> v] : s \in Statuses \cap Observed, v \in {f \in Figures : Plausible(id, f)}}
  \cup {[status |-> s] : s \in Statuses \ Observed}

-----------------------------------------------------------------------------
(* calculateYearFraction.                                                  *)

IsLeapYear(year) == year % 4 = 0 /\ (year % 100 # 0 \/ year % 400 = 0)

LengthOf(year) == IF IsLeapYear(year) THEN 366 ELSE 365

YearStart(year) == SumFunction([y \in FirstYear .. year - 1 |-> LengthOf(y)])

YearOf(day) == CHOOSE y \in FirstYear .. FirstYear + day : YearStart(y) <= day /\ day < YearStart(y + 1)

Least(a, b) == IF a < b THEN a ELSE b
Greatest(a, b) == IF a > b THEN a ELSE b

(* A bug: every day counts as one of the year the horizon begins in.       *)
YearFractionOfStart(from, until, conv) ==
  IF conv = "ACTUAL_365_FIXED" THEN 366 * (until - from)
  ELSE ((365 * 366) \div LengthOf(YearOf(from))) * (until - from)

YearFraction(from, until, conv) ==
  IF conv = "ACTUAL_365_FIXED" THEN 366 * (until - from)
  ELSE SumFunction([y \in YearOf(from) .. YearOf(until - 1) |->
                      ((365 * 366) \div LengthOf(y))
                        * (Least(until, YearStart(y + 1)) - Greatest(from, YearStart(y)))])

(* A bug: a cost is multiplied by the years it is spread over.             *)
AnnualizedInverted(cost, fraction) == (cost * 100 * fraction) \div (Capital * 365 * 366)

(* annualizeTransactionCostRate, of a cost in the units of the capital.    *)
Annualized(cost, fraction) ==
  (cost * 100 * 365 * 366) \div (Capital * fraction)

-----------------------------------------------------------------------------
(* incentiveRatio, as the number of active days of the horizon.            *)

ActiveDays(c, from, until) ==
  LET start == IF c.from = Always THEN from ELSE Greatest(from, c.from)
      end   == IF c.until = Always THEN until ELSE Least(until, c.until)
  IN IF ~c.incentive THEN until - from ELSE IF end <= start THEN 0 ELSE end - start

(* calculateNetApy.  Yields are multiplied by the days of the horizon.     *)
Known(m, set) == {id \in set : HasValue(m[id])}

FeeEligible(m) == {id \in Known(m, DOMAIN Components) : Components[id].feeEligible}

KnownFees(m, kind) == {id \in Known(m, DOMAIN Fees) : Fees[id] = kind}

Effective(m, id, h) == m[id].value * ActiveDays(Components[id], h.from, h.until)

(* A bug: a loss lowers the yield on which a performance fee is due.       *)
FeeBaseNet(m, h) ==
  SumFunction([id \in FeeEligible(m) |-> Effective(m, id, h)])

FeeBase(m, h) ==
  SumFunction([id \in FeeEligible(m) |-> Greatest(0, Effective(m, id, h))])

Gross(m, h) == SumFunction([id \in Known(m, DOMAIN Components) |-> Effective(m, id, h)])

TotalOf(m, ids) == SumFunction([id \in ids |-> m[id].value])

RecurringFees(m) == TotalOf(m, KnownFees(m, "RECURRING"))

PerformanceRate(m) == TotalOf(m, KnownFees(m, "PERFORMANCE"))

KnownCost(m) == TotalOf(m, Known(m, Costs))

CostRate(m, h, conv) == Annualized(KnownCost(m), YearFraction(h.from, h.until, conv))

(* Times 100 and the days of the horizon.                                  *)
KnownNet(m, h, conv) ==
  LET days == h.until - h.from IN
  100 * Gross(m, h) - 100 * days * RecurringFees(m) - PerformanceRate(m) * FeeBase(m, h)
    - 100 * days * CostRate(m, h, conv)

Warnings(m, h) ==
  LET known == Known(m, DOMAIN Components)
      Active(id) == ActiveDays(Components[id], h.from, h.until)
      incentives == {id \in known : Components[id].incentive}
      raised == [
        ESTIMATED_INPUT          |-> \E id \in Ids : m[id].status = "ESTIMATED",
        STALE_INPUT              |-> \E id \in Ids : m[id].status = "STALE",
        UNKNOWN_YIELD_COMPONENT  |-> known # DOMAIN Components,
        UNKNOWN_FEE              |-> Known(m, DOMAIN Fees) # DOMAIN Fees,
        UNKNOWN_TRANSACTION_COST |-> Known(m, Costs) # Costs,
        VARIABLE_YIELD           |-> \E id \in known : Components[id].variable,
        SHORT_OBSERVATION_WINDOW |-> \E id \in known : Components[id].short,
        INCENTIVE_EXPIRED        |-> \E id \in incentives : Active(id) = 0,
        INCENTIVE_ENDS_DURING_HORIZON |-> \E id \in incentives : Active(id) \in 1 .. h.until - h.from - 1,
        INCENTIVE_END_UNKNOWN    |-> \E id \in incentives :
                                       Active(id) = h.until - h.from /\ Components[id].until = Always]
  IN {w \in DOMAIN raised : raised[w]}

Result(m, h, conv) ==
  LET missing == {id \in Ids : ~HasValue(m[id])} IN
  IF Known(m, DOMAIN Components) = {} THEN [status |-> "UNAVAILABLE"]
  ELSE [status  |-> IF missing # {} THEN "PARTIAL"
                    ELSE IF Warnings(m, h) = {} THEN "COMPLETE" ELSE "QUALIFIED",
        known   |-> KnownNet(m, h, conv),
        missing |-> missing]

-----------------------------------------------------------------------------
Horizons == {h \in [from : Days, until : Days] : h.from < h.until}

YieldInit ==
  /\ metric = [id \in Ids |-> [status |-> "UNKNOWN"]]
  /\ horizon \in Horizons
  /\ convention \in {"ACTUAL_365_FIXED", "ACTUAL_ACTUAL_ISDA"}

(* One figure is observed, amended or lost.                                *)
Amend(id) ==
  /\ \E m \in MetricInputs(id) : metric' = [metric EXCEPT ![id] = m]
  /\ UNCHANGED <<horizon, convention>>

Reschedule ==
  /\ horizon' \in Horizons \ {horizon} /\ horizon'.from = horizon.from
  /\ UNCHANGED <<metric, convention>>

YieldNext == Reschedule \/ \E id \in Ids : Amend(id)

YieldSpec == YieldInit /\ [][YieldNext]_yieldVars

-----------------------------------------------------------------------------
(* Properties.                                                             *)

YieldTypeOK ==
  /\ \A id \in Ids : metric[id] \in MetricInputs(id)
  /\ horizon \in Horizons /\ convention \in {"ACTUAL_365_FIXED", "ACTUAL_ACTUAL_ISDA"}

(* Cutting the horizon in two, at a new year too, changes neither its      *)
(* length in years nor what its components earn: no day is lost, counted   *)
(* twice or given to the wrong year, and no incentive is.                  *)
HorizonsAdd ==
  \A cut \in Days \cap (horizon.from + 1 .. horizon.until - 1) :
    LET first  == [horizon EXCEPT !.until = cut]
        second == [horizon EXCEPT !.from = cut]
    IN /\ YearFraction(horizon.from, horizon.until, convention)
            = YearFraction(first.from, cut, convention) + YearFraction(cut, second.until, convention)
       /\ Gross(metric, horizon) = Gross(metric, first) + Gross(metric, second)

(* "Increasing a known cost cannot improve net APY" (TEST_PLAN.md:95), and *)
(* neither can learning of a fee or a cost: what is known while some are   *)
(* missing is never too low.                                               *)
FeesAndCostsOnlyLower ==
  \A id \in DOMAIN Fees \cup Costs :
    /\ metric'[id] # metric[id] /\ HasValue(metric'[id])
    /\ HasValue(metric[id]) => metric[id].value <= metric'[id].value
    /\ \A other \in Ids \ {id} : metric'[other] = metric[other]
    /\ horizon' = horizon
    => LET before == Result(metric, horizon, convention)
           after  == Result(metric', horizon', convention')
       IN before.status # "UNAVAILABLE" =>
            after.known <= before.known /\ after.missing = before.missing \ {id}

(* "Extending a horizon cannot increase the annualized impact of fixed     *)
(* one-time cost" (TEST_PLAN.md:95), across leap years as well.            *)
LongerHorizonsDilute ==
  horizon.until < horizon'.until /\ horizon'.from = horizon.from /\ metric' = metric
  => CostRate(metric', horizon', convention') <= CostRate(metric, horizon, convention)

(* The net yield moves with its components, costs and horizon the way a    *)
(* reader of it expects.                                                   *)
YieldsAreMonotone == [][HorizonsAdd' /\ FeesAndCostsOnlyLower /\ LongerHorizonsDilute]_yieldVars
=============================================================================
