----------------------------- MODULE AlertSignals -----------------------------
(***************************************************************************)
(* The evidence an alert rule is evaluated on: loadAlertSignal in          *)
(* apps/worker/src/alert-signal-loader.ts, and the thresholds that         *)
(* evaluateAlertSignal in alert-evaluator.ts applies to it.                *)
(*                                                                         *)
(* One rule, of one of the conditions, watches one route.  Rows about the  *)
(* route arrive late and out of order, terms and warnings are withdrawn,   *)
(* the route's status is edited.  AlertEvaluation models what becomes of   *)
(* an alert afterwards; here it is remembered with the rows it rests on.   *)
(***************************************************************************)
EXTENDS Integers, FiniteSets, Sequences

CONSTANTS
  SignalConditions, \* the conditions a rule may have
  RowValues,        \* amounts, scores, ranks or versions
  Lookback,         \* lookbackHours
  AlertThreshold,   \* in percent, points, days or hours
  MaxRows,          \* bound on rows
  SignalHorizon     \* bound on the clock

ASSUME SignalConstants ==
  /\ SignalConditions \subseteq {"APY_ABOVE", "APY_BELOW", "APY_CHANGE", "CONFIDENCE_DOWNGRADE",
       "INCENTIVE_END", "TVL_AUM_DECLINE", "LIQUIDITY_DETERIORATION", "UTILIZATION_SPIKE",
       "NAV_DEVIATION", "RISK_SCORE_INCREASE", "STALE_DATA", "REDEMPTION_CHANGE",
       "ELIGIBILITY_CHANGE", "ISSUER_PROTOCOL_WARNING", "STABLECOIN_DEPEG",
       "VAULT_ALLOCATION_CHANGE", "PRODUCT_STATUS_CHANGE"}
  /\ RowValues \subseteq Nat
  /\ Lookback \in Nat \ {0} /\ AlertThreshold \in Nat
  /\ MaxRows \in Nat /\ SignalHorizon \in Nat \ {0}

VARIABLES
  rule,   \* its condition and the hour it was created
  hour,   \* evaluatedAt
  rows,   \* snapshots, observations, terms or warnings; an id is a place in it
  alerts  \* evaluations that triggered

signalVars == <<rule, hour, rows, alerts>>

Terms       == {"REDEMPTION_CHANGE", "ELIGIBILITY_CHANGE"}
Withdrawable == Terms \cup {"ISSUER_PROTOCOL_WARNING"}
Changes     == {"APY_CHANGE", "CONFIDENCE_DOWNGRADE", "TVL_AUM_DECLINE",
                "LIQUIDITY_DETERIORATION", "RISK_SCORE_INCREASE"}
NoAmount    == -1
RowHours    == 0 .. SignalHorizon

(* asOf, calculatedAt, observedAt, effectiveFrom or detectedAt; whether    *)
(* the status is AVAILABLE, the terms published or the warning open.       *)
Rows == [at : RowHours, ok : BOOLEAN, value : RowValues \cup (NoAmount .. 1),
         metric : {"AUM", "TVL", "none"}]

SignalsTypeOK ==
  /\ rule \in [condition : SignalConditions, createdAt : RowHours]
  /\ hour \in RowHours
  /\ rows \in Seq(Rows) /\ Len(rows) <= MaxRows + 2
  /\ alerts \subseteq [key : Seq(Int), rows : SUBSET (1 .. MaxRows + 2), latest : 0 .. MaxRows + 2,
                       baseline : 0 .. MaxRows + 2, at : RowHours, evaluatedAt : RowHours]

-----------------------------------------------------------------------------
(* ORDER BY ... DESC LIMIT 1: any of the rows that are newest.             *)
Newest(ids)   == {i \in ids : \A j \in ids : rows[j].at <= rows[i].at}
AllRows       == DOMAIN rows
InForceRows   == {i \in AllRows : rows[i].ok}
Current(i)    == rows[i].ok /\ rows[i].value # NoAmount

(* A bug: an amount under management is compared with a value locked.      *)
BaselinesOfAnyMetric(i) == Newest({j \in AllRows : rows[j].at <= hour - Lookback})

Baselines(i) ==
  Newest({j \in AllRows : rows[j].at <= hour - Lookback /\ rows[j].metric = rows[i].metric})

(* A bug: the key of a status leaves out when it was changed.              *)
StatusKeyUndated(at) == <<rows[1].value, rows[2].value>>

StatusKey(at) == <<rows[1].value, rows[2].value, at>>

Signal(holds, key, ids, i, j, at) ==
  [holds |-> holds, key |-> key, rows |-> ids, latest |-> i, baseline |-> j, at |-> at]

Percent(part, whole) == (100 * part) \div whole

-----------------------------------------------------------------------------
(* One set of signals for each way to load one.  A rule whose evidence is  *)
(* UNAVAILABLE has no signal.                                              *)

(* The newest row alone, against the threshold.                            *)
LevelHolds(value) ==
  CASE rule.condition = "APY_ABOVE" -> value > AlertThreshold
    [] rule.condition = "APY_BELOW" -> value < AlertThreshold
    [] OTHER -> value >= AlertThreshold

LevelSignals ==
  {Signal(LevelHolds(rows[i].value), <<i>>, {i}, i, 0, rows[i].at) :
     i \in {i \in Newest(AllRows) : Current(i)}}

(* Days until the promotion ends, a past or absent end being no signal.    *)
IncentiveSignals ==
  {Signal(rows[i].value >= hour /\ rows[i].value - hour <= AlertThreshold, <<i>>, {i}, i, 0, rows[i].at) :
     i \in {i \in Newest(AllRows) : rows[i].ok}}

ChangeHolds(current, previous) ==
  CASE rule.condition = "APY_CHANGE" ->
         current - previous >= AlertThreshold \/ previous - current >= AlertThreshold
    [] rule.condition \in {"RISK_SCORE_INCREASE", "CONFIDENCE_DOWNGRADE"} ->
         current - previous >= AlertThreshold
    [] OTHER -> previous > 0 /\ Percent(previous - current, previous) >= AlertThreshold

(* A row of the lookback's beginning or before it, whatever its status.    *)
ChangeSignals ==
  {Signal(ChangeHolds(rows[p[1]].value, rows[p[2]].value), <<p[1], p[2]>>, {p[1], p[2]},
          p[1], p[2], rows[p[1]].at) :
     p \in {p \in Newest(AllRows) \X AllRows :
              Current(p[1]) /\ p[2] \in Baselines(p[1]) /\ rows[p[2]].value # NoAmount}}

(* A bug: only an available observation can be too old.                    *)
AgeSignalsOfAvailable ==
  {Signal(hour - rows[i].at >= AlertThreshold, <<i, IF rows[i].ok THEN 1 ELSE 0>>, {i}, i, 0, rows[i].at) :
     i \in {i \in Newest(AllRows) : rows[i].ok}}

AgeSignals ==
  {Signal(hour - rows[i].at >= AlertThreshold, <<i, IF rows[i].ok THEN 1 ELSE 0>>, {i}, i, 0, rows[i].at) :
     i \in Newest(AllRows)}

TermsSignals ==
  {Signal(rows[i].value > 1 /\ rows[i].at >= rule.createdAt, <<i>>, {i}, i, 0, rows[i].at) :
     i \in Newest(InForceRows)}

WarningSignals ==
  {Signal(rows[i].at >= rule.createdAt, <<i>>, {i}, i, 0, rows[i].at) : i \in Newest(InForceRows)}

AllocationSignals ==
  {Signal(rows[p[1]].at >= rule.createdAt /\ rows[p[1]].value # rows[p[2]].value, <<p[1], p[2]>>,
          {p[1], p[2]}, p[1], p[2], rows[p[1]].at) :
     p \in {p \in InForceRows \X InForceRows :
              p[1] \in Newest(InForceRows) /\ p[2] \in Newest(InForceRows \ {p[1]})}}

(* Rows 1 and 2 are the product and the route; a value above 0 stands for  *)
(* PAUSED, CLOSED, UNAVAILABLE or ARCHIVED.                                *)
StatusSignals ==
  LET at == IF rows[1].at > rows[2].at THEN rows[1].at ELSE rows[2].at
  IN  {Signal(at >= rule.createdAt /\ (rows[1].value > 0 \/ rows[2].value > 0),
              StatusKey(at), {}, 0, 0, at)}

Signals ==
  CASE rule.condition \in Changes -> ChangeSignals
    [] rule.condition \in Terms -> TermsSignals
    [] rule.condition = "INCENTIVE_END" -> IncentiveSignals
    [] rule.condition = "STALE_DATA" -> AgeSignals
    [] rule.condition = "ISSUER_PROTOCOL_WARNING" -> WarningSignals
    [] rule.condition = "VAULT_ALLOCATION_CHANGE" -> AllocationSignals
    [] rule.condition = "PRODUCT_STATUS_CHANGE" -> StatusSignals
    [] OTHER -> LevelSignals

-----------------------------------------------------------------------------
SignalsInit ==
  /\ rule \in [condition : SignalConditions, createdAt : {0, 1}]
  /\ hour = 0
  /\ rows = IF rule.condition = "PRODUCT_STATUS_CHANGE"
            THEN [i \in 1 .. 2 |-> [at |-> 0, ok |-> TRUE, value |-> 0, metric |-> "none"]]
            ELSE <<>>
  /\ alerts = {}

MetricsOfRows == IF rule.condition = "TVL_AUM_DECLINE" THEN {"AUM", "TVL"} ELSE {"none"}

(* A row is stored, perhaps about an earlier hour than rows before it.     *)
(* Terms may take effect later, and are stored when published.             *)
StoreRow ==
  /\ rule.condition # "PRODUCT_STATUS_CHANGE"
  /\ Len(rows) < MaxRows
  /\ \E row \in [at : RowHours, ok : IF rule.condition \in Withdrawable THEN {TRUE} ELSE BOOLEAN,
                 value : RowValues \cup {NoAmount}, metric : MetricsOfRows] :
       /\ rule.condition \in Terms \/ row.at <= hour
       /\ rows' = Append(rows, row)
  /\ UNCHANGED <<rule, hour, alerts>>

(* Terms are archived or superseded, a warning is resolved.                *)
WithdrawRow ==
  /\ rule.condition \in Withdrawable
  /\ \E i \in InForceRows : rows' = [rows EXCEPT ![i].ok = FALSE]
  /\ UNCHANGED <<rule, hour, alerts>>

(* The product or the route is edited, its status or something else.       *)
EditStatus ==
  /\ rule.condition = "PRODUCT_STATUS_CHANGE"
  /\ \E i \in AllRows, v \in {0, 1} : rows' = [rows EXCEPT ![i].value = v, ![i].at = hour]
  /\ UNCHANGED <<rule, hour, alerts>>

SignalTick ==
  /\ hour < SignalHorizon
  /\ hour' = hour + 1
  /\ UNCHANGED <<rule, rows, alerts>>

EvaluateRule ==
  /\ \E s \in Signals :
       /\ hour >= rule.createdAt /\ s.holds
       /\ alerts' = alerts \cup {[key |-> s.key, rows |-> s.rows, latest |-> s.latest,
                                  baseline |-> s.baseline, at |-> s.at, evaluatedAt |-> hour]}
  /\ UNCHANGED <<rule, hour, rows>>

SignalsNext == StoreRow \/ WithdrawRow \/ EditStatus \/ SignalTick \/ EvaluateRule

SignalsSpec == SignalsInit /\ [][SignalsNext]_signalVars

SignalsFairness == WF_signalVars(SignalTick) /\ WF_signalVars(EvaluateRule)

-----------------------------------------------------------------------------
(* Two alerts with one key rest on the same rows: the event of a rule is   *)
(* created once for a key (ARCHITECTURE.md:217, "a deterministic           *)
(* deduplicated event"), so that a key that two pieces of evidence share   *)
(* would hide the later one.                                               *)
KeysNameTheirEvidence ==
  \A a, b \in alerts : a.key = b.key => a.rows = b.rows /\ a.at = b.at

(* An alert about a change compares two amounts of the same kind, the      *)
(* earlier at least a lookback old when it was evaluated and never newer   *)
(* than the later (ARCHITECTURE.md:219, "point-in-time baseline            *)
(* snapshots"), in whatever order the rows arrived.                        *)
ChangesSpanTheLookback ==
  rule.condition \in Changes =>
    \A a \in alerts :
      /\ rows[a.baseline].metric = rows[a.latest].metric
      /\ rows[a.baseline].at <= a.evaluatedAt - Lookback
      /\ rows[a.baseline].at <= rows[a.latest].at
      /\ rows[a.latest].at <= a.evaluatedAt

(* An alert can be traced to the observations that caused it.              *)
SignalsAreEvidence == KeysNameTheirEvidence /\ ChangesSpanTheLookback

(* When a route's newest observation has been too old long enough, its     *)
(* rule alerts, whatever the observation's status is (TEST_PLAN.md:148,    *)
(* "incentive, stale, depeg, lifecycle, eligibility, and redemption change *)
(* events").                                                               *)
SilenceIsNoticed ==
  (/\ rule.condition = "STALE_DATA" /\ hour = SignalHorizon
   /\ Len(rows) = MaxRows
   /\ \A i \in AllRows : SignalHorizon - rows[i].at >= AlertThreshold)
    ~> \E a \in alerts : a.latest \in Newest(AllRows)
=============================================================================
