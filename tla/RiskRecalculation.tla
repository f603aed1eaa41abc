--------------------------- MODULE RiskRecalculation ---------------------------
(***************************************************************************)
(* The job RECALCULATE_RISK (apps/worker/src/handlers.ts) and the evidence *)
(* it reads: the methodology in force at the cutoff, the latest snapshot   *)
(* of each factor at the cutoff, the observations behind it.  Releases,    *)
(* snapshots and sources change while the job runs: each of its queries is *)
(* a step.  The score itself is RiskEngine's; here a result is the set of  *)
(* factors that were admitted.  Time is a bounded clock.                   *)
(***************************************************************************)
EXTENDS Integers, FiniteSets, FiniteSetsExt

CONSTANTS
  RiskJobs,         \* runs of the job at a time
  Releases,         \* versions of the methodology
  Supported,        \* those the worker can parse
  RiskRoutes,       \* published routes that have not ended
  Factors,          \* the positively weighted factors
  FreshFor,         \* freshness threshold of the source
  MaxSnapshots,     \* bound on the snapshots of factors
  RiskHorizon       \* bound on the clock

ASSUME RecalculationConstants ==
  /\ IsFiniteSet(RiskJobs) /\ IsFiniteSet(Releases) /\ Supported \subseteq Releases
  /\ IsFiniteSet(RiskRoutes) /\ IsFiniteSet(Factors)
  /\ FreshFor \in Nat /\ MaxSnapshots \in Nat /\ RiskHorizon \in Nat

VARIABLES
  riskNow,
  releases,      \* risk_methodology_versions
  snapshots,     \* risk_factor_snapshots with risk_factor_evidence
  sourceActive,  \* the source is active and published
  calculations,  \* the runs
  results        \* composite_risk_snapshots

recalculationVars == <<riskNow, releases, snapshots, sourceActive, calculations, results>>

RiskTimes == 0 .. RiskHorizon
Open      == -1    \* effectiveTo is null

ReleaseRows ==
  [status : {"REVIEWED", "PUBLISHED", "SUPERSEDED"}, publishedAt : RiskTimes,
   from : RiskTimes, to : RiskTimes \cup {Open}]

SnapshotRows ==
  [id : 1 .. MaxSnapshots, route : RiskRoutes, factor : Factors, release : Releases,
   at : RiskTimes, available : BOOLEAN, evidence : SUBSET RiskTimes]

Calculations ==
  [phase : {"NONE", "FACTORS", "EVIDENCE"}, cutoff : RiskTimes,
   begunAt : RiskTimes, release : Releases, todo : SUBSET RiskRoutes, route : RiskRoutes,
   rows : SUBSET SnapshotRows]

ResultRows ==
  [route : RiskRoutes, release : Releases, cutoff : RiskTimes, begunAt : RiskTimes,
   admitted : SUBSET Factors, status : {"AVAILABLE", "PARTIAL", "UNAVAILABLE"}]

RecalculationTypeOK ==
  /\ riskNow \in RiskTimes /\ sourceActive \in BOOLEAN
  /\ \A m \in Releases : releases[m] \in ReleaseRows
  /\ \A s \in snapshots : s.id \in 1 .. MaxSnapshots /\ s.at <= riskNow /\ s.factor \in Factors
  /\ \A j \in RiskJobs :
       /\ calculations[j].phase \in {"NONE", "FACTORS", "EVIDENCE"}
       /\ calculations[j].todo \subseteq RiskRoutes /\ calculations[j].rows \subseteq snapshots
  /\ \A r \in results : r \in ResultRows

NoCalculation ==
  [phase |-> "NONE", cutoff |-> 0, begunAt |-> 0, release |-> CHOOSE m \in Releases : TRUE,
   todo |-> {}, route |-> CHOOSE r \in RiskRoutes : TRUE, rows |-> {}]

RecalculationInit ==
  /\ riskNow = 0 /\ snapshots = {} /\ sourceActive = TRUE
  /\ releases = [m \in Releases |-> [status |-> "REVIEWED", publishedAt |-> 0, from |-> 0, to |-> Open]]
  /\ calculations = [j \in RiskJobs |-> NoCalculation]
  /\ results = {}

-----------------------------------------------------------------------------
(* What changes meanwhile.                                                 *)

RiskTick ==
  /\ riskNow < RiskHorizon /\ riskNow' = riskNow + 1
  /\ UNCHANGED <<releases, snapshots, sourceActive, calculations, results>>

(* An administrator publishes a version that is in force from now on, and  *)
(* ends the published ones it saw (RiskMethodologies: it may miss one).    *)
PublishRelease(m, seen) ==
  /\ releases[m].status = "REVIEWED"
  /\ \A p \in seen : releases[p].status = "PUBLISHED" /\ releases[p].from < riskNow
  /\ releases' = [p \in Releases |->
       IF p = m THEN [status |-> "PUBLISHED", publishedAt |-> riskNow, from |-> riskNow, to |-> Open]
       ELSE IF p \in seen THEN [releases[p] EXCEPT !.status = "SUPERSEDED", !.to = riskNow]
       ELSE releases[p]]
  /\ UNCHANGED <<riskNow, snapshots, sourceActive, calculations, results>>

(* The factors of a route are scored, from observations of their source.   *)
(* The table is append-only; ids are random.                               *)
SnapshotFactor(r, f, m) ==
  /\ \E id \in (1 .. MaxSnapshots) \ {s.id : s \in snapshots}, available \in BOOLEAN,
        evidence \in SUBSET (0 .. riskNow) :
       /\ ~available => evidence = {}
       /\ snapshots' = snapshots \cup
         {[id |-> id, route |-> r, factor |-> f, release |-> m, at |-> riskNow,
           available |-> available, evidence |-> evidence]}
  /\ UNCHANGED <<riskNow, releases, sourceActive, calculations, results>>

(* The source is disabled or its publication withdrawn.                    *)
WithdrawSource ==
  /\ sourceActive /\ sourceActive' = FALSE
  /\ UNCHANGED <<riskNow, releases, snapshots, calculations, results>>

-----------------------------------------------------------------------------
(* RECALCULATE_RISK.                                                       *)

(* A bug: a version counts as soon as it is published, also at cutoffs     *)
(* before that.                                                            *)
InForceEver(cutoff) ==
  {m \in Releases :
     releases[m].status = "PUBLISHED" /\ (releases[m].to = Open \/ releases[m].to > cutoff)}

(* selectEffectivePublishedRiskMethodology: the versions in force at the   *)
(* cutoff.                                                                 *)
InForce(cutoff) ==
  {m \in Releases :
     /\ releases[m].status = "PUBLISHED"
     /\ releases[m].publishedAt <= cutoff /\ releases[m].from <= cutoff
     /\ releases[m].to = Open \/ releases[m].to > cutoff}

(* The version to calculate with: exactly one in force, and supported.     *)
Selected(cutoff) ==
  IF Cardinality(InForce(cutoff)) = 1 THEN InForce(cutoff) \cap Supported ELSE {}

(* The first queries.                                                      *)
StartCalculation(j, cutoff, routes) ==
  /\ calculations[j].phase = "NONE"
  /\ calculations' = [calculations EXCEPT ![j] =
       IF Selected(cutoff) = {} THEN NoCalculation
       ELSE [NoCalculation EXCEPT
              !.phase = "FACTORS", !.cutoff = cutoff, !.begunAt = riskNow, !.todo = routes,
              !.release = CHOOSE m \in Selected(cutoff) : TRUE]]
  /\ UNCHANGED <<riskNow, releases, snapshots, sourceActive, results>>

(* A job for one route calculates at the cutoff it was given, a job for    *)
(* all routes at the present.                                              *)
CalculateRoute(j) ==
  \E cutoff \in 0 .. riskNow, r \in RiskRoutes : StartCalculation(j, cutoff, {r})

CalculateAll(j) == StartCalculation(j, riskNow, RiskRoutes)

LaterRow(a, b) == a.at > b.at \/ (a.at = b.at /\ a.id > b.id)

(* The rows of the query before DISTINCT ON.                               *)
RowsAt(r, m, cutoff) ==
  {s \in snapshots : s.route = r /\ s.release = m /\ s.at <= cutoff}

(* SELECT DISTINCT ON the factor, latest first.                            *)
LatestRows(rows) ==
  {s \in rows : \A t \in rows : t.factor = s.factor => t = s \/ LaterRow(s, t)}

ReadFactors(j, r) ==
  LET c == calculations[j] IN
  /\ c.phase = "FACTORS" /\ r \in c.todo
  /\ calculations' = [calculations EXCEPT
       ![j].phase = "EVIDENCE", ![j].todo = @ \ {r}, ![j].route = r,
       ![j].rows = LatestRows(RowsAt(r, c.release, c.cutoff))]
  /\ UNCHANGED <<riskNow, releases, snapshots, sourceActive, results>>

(* classifyRiskEvidenceAtCutoff.                                           *)
Disposition(observedAt, cutoff) ==
  IF ~sourceActive \/ observedAt > cutoff THEN "INADMISSIBLE"
  ELSE IF cutoff - observedAt <= FreshFor THEN "CURRENT" ELSE "STALE"

(* A bug: one current observation is enough.                               *)
AdmissibleSome(s, cutoff) ==
  /\ s.available /\ \E o \in s.evidence : Disposition(o, cutoff) = "CURRENT"

(* normalizePersistedRiskFactor: a factor is admitted on evidence that is  *)
(* all current.                                                            *)
Admissible(s, cutoff) ==
  /\ s.available /\ s.at <= cutoff
  /\ s.evidence # {} /\ \A o \in s.evidence : Disposition(o, cutoff) = "CURRENT"

(* buildCompositeRiskPersistence: what is stored of the engine's answer.   *)
ResultStatus(admitted) ==
  CASE admitted = {}      -> "UNAVAILABLE"
    [] admitted = Factors -> "AVAILABLE"
    [] OTHER              -> "PARTIAL"

(* The evidence is read, the factors are normalised and the composite is   *)
(* stored.  The row is a new one every time: its unique key has a null.    *)
StoreResult(j) ==
  LET c        == calculations[j]
      admitted == {s.factor : s \in {t \in c.rows : Admissible(t, c.cutoff)}}
  IN
  /\ c.phase = "EVIDENCE"
  /\ results' = results \cup
       {[route |-> c.route, release |-> c.release, cutoff |-> c.cutoff, begunAt |-> c.begunAt,
         admitted |-> admitted, status |-> ResultStatus(admitted)]}
  /\ calculations' = [calculations EXCEPT
       ![j] = IF c.todo = {} THEN NoCalculation
              ELSE [c EXCEPT !.phase = "FACTORS", !.rows = {}]]
  /\ UNCHANGED <<riskNow, releases, snapshots, sourceActive>>

-----------------------------------------------------------------------------
RecalculationNext ==
  \/ RiskTick
  \/ \E m \in Releases, seen \in SUBSET Releases : PublishRelease(m, seen)
  \/ \E r \in RiskRoutes, f \in Factors, m \in Releases : SnapshotFactor(r, f, m)
  \/ WithdrawSource
  \/ \E j \in RiskJobs : CalculateRoute(j)
  \/ \E j \in RiskJobs : CalculateAll(j)
  \/ \E j \in RiskJobs, r \in RiskRoutes : ReadFactors(j, r)
  \/ \E j \in RiskJobs : StoreResult(j)

RecalculationSpec == RecalculationInit /\ [][RecalculationNext]_recalculationVars

-----------------------------------------------------------------------------
(* Properties.                                                             *)

(* Two calculations of a route at the same cutoff agree, on the version    *)
(* they use and on what they admit, whenever they run once the cutoff has  *)
(* passed and whatever was published or scored meanwhile, as long as the   *)
(* source was not withdrawn (RISK_METHODOLOGY.md:267).                     *)
ReplaysAgree ==
  sourceActive =>
    \A a, b \in results :
      a.route = b.route /\ a.cutoff = b.cutoff /\ a.begunAt > a.cutoff /\ b.begunAt > b.cutoff
      => a.release = b.release /\ a.admitted = b.admitted

(* A published result is one the methodology allows: no factor counts      *)
(* whose evidence was, at the cutoff, older than the source's threshold,   *)
(* observed after the cutoff, or overtaken by a later snapshot known then. *)
ResultsRestOnCurrentEvidence ==
  \A x \in results : \A f \in x.admitted :
    \E s \in snapshots :
      /\ s.route = x.route /\ s.factor = f /\ s.release = x.release /\ s.at <= x.cutoff
      /\ s.available /\ \A o \in s.evidence : o <= x.cutoff /\ x.cutoff - o <= FreshFor
      /\ x.begunAt > x.cutoff =>
           \A t \in snapshots :
             t.route = x.route /\ t.factor = f /\ t.release = x.release /\ t.at <= x.cutoff
             => s = t \/ LaterRow(s, t)

(* A risk result can be calculated again from what was known at its cutoff. *)
ResultsAreReproducible == ReplaysAgree /\ ResultsRestOnCurrentEvidence
=============================================================================
