---------------------------- MODULE PublicReadModel ----------------------------
(***************************************************************************)
(* What the public pages and the public API show: the catalogue with its   *)
(* metrics and risk scores as apps/web/src/lib/public-read-model.ts reads  *)
(* them from the database, merges them with the bundled research and keeps *)
(* them for some seconds (public-read-model-core.ts,                       *)
(* public-risk-provenance.ts).                                             *)
(*                                                                         *)
(* A load is a sequence of queries outside a transaction, each of which    *)
(* sees the database as administrators and workers have left it by then;   *)
(* requests load at the same time and share one cache.  Yield stands for   *)
(* the three metrics, whose queries and states have the same form.         *)
(***************************************************************************)
EXTENDS Integers, FiniteSets, FiniteSetsExt

CONSTANTS
  PageRequests,     \* requests that are answered at the same time
  Slugs,            \* route slugs
  InitialYields,    \* yield snapshots there are to begin with
  InitialRisks,     \* composite risk snapshots there are to begin with
  BundledSlugs,     \* those with a bundled record that is PUBLISHED
  EvidenceSources,  \* sources of publications, metrics and risk evidence
  CacheLifetime,    \* 15 s
  FailureLifetime,  \* 5 s: the cache after a failure
  YieldFreshFor,    \* freshness threshold of a metric
  ReadHorizon,      \* bound on the clock
  MaxDbChanges      \* bound on what others change

ASSUME ReadModelConstants ==
  /\ BundledSlugs \subseteq Slugs /\ IsFiniteSet(Slugs)
  /\ IsFiniteSet(EvidenceSources) /\ EvidenceSources # {}
  /\ {CacheLifetime, FailureLifetime, YieldFreshFor} \subseteq Nat \ {0}
  /\ FailureLifetime <= CacheLifetime
  /\ ReadHorizon \in Nat /\ MaxDbChanges \in Nat

VARIABLES
  readNow,
  dbChanges,      \* how much has changed
  listings,       \* the latest version of each route
  evidence,       \* state of each source
  yields,         \* yield snapshots
  composites,     \* composite risk snapshots
  inForce,        \* version of the methodology that is in force
  reads,          \* each request
  readCache,      \* readModelCache
  lastListed,     \* when a route was published last
  lastAdmissible  \* when a source could be shown last

databaseVars == <<readNow, dbChanges, listings, evidence, yields, composites, inForce,
                  lastListed, lastAdmissible>>
readVars == <<databaseVars, reads, readCache>>

ReadTimes  == 0 .. ReadHorizon
NotEver      == -1
NoneShown  == "NONE"
NotListed  == [status |-> "ABSENT", source |-> NoneShown]

PublishingSource == CHOOSE e \in EvidenceSources : TRUE   \* the one publications cite

YieldRows     == [slug : Slugs, at : ReadTimes, source : EvidenceSources]
CompositeRows == [slug : Slugs, at : ReadTimes, methodology : {1, 2}, sources : SUBSET EvidenceSources]

ASSUME InitialSnapshots == InitialYields \subseteq YieldRows /\ InitialRisks \subseteq CompositeRows

MetricStates == {"CURRENT", "STALE", "DEGRADED", "UNAVAILABLE"}

(* What is shown of a route: where its record comes from, the state of its *)
(* yield with its source and time, and its composite risk, if any.         *)
Records ==
  [slug : Slugs, source : EvidenceSources \cup {NoneShown}, state : MetricStates,
   yields : SUBSET YieldRows, risks : SUBSET CompositeRows]

NoModel == [state |-> "NONE", methodology |-> 0, catalog |-> {}]

NoRead ==
  [step |-> "IDLE", began |-> 0, methodology |-> 0, controlled |-> {}, listed |-> {}, admitted |-> {},
   yields |-> {}, risks |-> {}, explained |-> {}, answer |-> NoModel]

ReadModelTypeOK ==
  /\ readNow \in ReadTimes /\ dbChanges \in 0 .. MaxDbChanges /\ inForce \in 0 .. 2
  /\ \A s \in Slugs :
       /\ listings[s].status \in {"ABSENT", "DRAFT", "PUBLISHED", "ARCHIVED"}
       /\ listings[s].source \in EvidenceSources \cup {NoneShown}
       /\ lastListed[s] \in ReadTimes \cup {NotEver}
  /\ evidence \in [EvidenceSources -> {"ACTIVE", "DEGRADED", "WITHDRAWN"}]
  /\ lastAdmissible \in [EvidenceSources -> ReadTimes \cup {NotEver}]
  /\ yields \subseteq YieldRows /\ composites \subseteq CompositeRows
  /\ \A q \in PageRequests :
       /\ reads[q].step \in {"IDLE", "METHODOLOGY", "ROUTES", "SOURCES", "METRICS", "EVIDENCE",
                             "BUILD", "ANSWERED"}
       /\ reads[q].answer.state \in {"NONE", "HEALTHY", "UNAVAILABLE"}
       /\ reads[q].answer.catalog \subseteq Records
  /\ readCache.until \in 0 .. ReadHorizon + CacheLifetime
  /\ readCache.model.catalog \subseteq Records

ReadModelInit ==
  /\ readNow = 0 /\ dbChanges = 0 /\ inForce = 1
  /\ listings \in [Slugs -> {NotListed, [status |-> "PUBLISHED", source |-> PublishingSource]}]
  /\ evidence = [e \in EvidenceSources |-> "ACTIVE"]
  /\ yields = InitialYields /\ composites = InitialRisks
  /\ reads = [q \in PageRequests |-> NoRead]
  /\ readCache = [until |-> 0, model |-> NoModel]
  /\ lastListed = [s \in Slugs |->
       IF s \in BundledSlugs \/ listings[s] # NotListed THEN 0 ELSE NotEver]
  /\ lastAdmissible = [e \in EvidenceSources |-> 0]

-----------------------------------------------------------------------------
(* What others do to the database meanwhile.                               *)

PublishedSource(e) == evidence[e] \in {"ACTIVE", "DEGRADED"}

(* Bundled research that the database knows nothing of is listed, too.     *)
Witnessed(now, listing, state) ==
  /\ lastListed' = [s \in Slugs |->
       IF listing[s].status = "PUBLISHED" \/ (s \in BundledSlugs /\ listing[s] = NotListed)
         THEN now ELSE lastListed[s]]
  /\ lastAdmissible' = [e \in EvidenceSources |->
       IF state[e] \in {"ACTIVE", "DEGRADED"} THEN now ELSE lastAdmissible[e]]

(* Time passes, and what is listed and admissible now was so now.          *)
ReadTick ==
  /\ readNow < ReadHorizon /\ readNow' = readNow + 1
  /\ Witnessed(readNow', listings, evidence)
  /\ UNCHANGED <<dbChanges, listings, evidence, yields, composites, inForce, reads, readCache>>

DatabaseChanges ==
  /\ dbChanges < MaxDbChanges /\ dbChanges' = dbChanges + 1
  /\ \/ \E s \in Slugs :
          /\ listings' = [listings EXCEPT ![s] =
               CASE @.status \in {"ABSENT", "ARCHIVED"} -> [@ EXCEPT !.status = "DRAFT"]
                 [] @.status = "DRAFT" -> [status |-> "PUBLISHED", source |-> PublishingSource]
                 [] OTHER -> [@ EXCEPT !.status = "ARCHIVED"]]
          /\ UNCHANGED <<evidence, yields, composites, inForce>>
     \/ \E e \in EvidenceSources, state \in {"ACTIVE", "DEGRADED", "WITHDRAWN"} :
          /\ state # evidence[e] /\ evidence' = [evidence EXCEPT ![e] = state]
          /\ UNCHANGED <<listings, yields, composites, inForce>>
     \/ \E row \in YieldRows :
          /\ row.at <= readNow /\ row \notin yields /\ yields' = yields \cup {row}
          /\ UNCHANGED <<listings, evidence, composites, inForce>>
     \/ \E row \in CompositeRows :
          /\ row.at = readNow /\ row.methodology = inForce /\ row.sources # {} /\ row \notin composites
          /\ composites' = composites \cup {row}
          /\ UNCHANGED <<listings, evidence, yields, inForce>>
     \/ inForce < 2 /\ inForce' = inForce + 1 /\ UNCHANGED <<listings, evidence, yields, composites>>
  /\ Witnessed(readNow, listings', evidence')
  /\ UNCHANGED <<readNow, reads, readCache>>

-----------------------------------------------------------------------------
(* getEffectivePublicReadModel.                                            *)

Answer(q, model) ==
  reads' = [reads EXCEPT ![q] = [NoRead EXCEPT !.step = "ANSWERED", !.began = reads[q].began,
                                               !.answer = model]]

Request(q) ==
  /\ reads[q].step = "IDLE"
  /\ reads' = [reads EXCEPT ![q] =
       IF readCache.until > readNow
         THEN [NoRead EXCEPT !.began = readNow, !.step = "ANSWERED", !.answer = readCache.model]
         ELSE [NoRead EXCEPT !.began = readNow, !.step = "METHODOLOGY"]]
  /\ UNCHANGED <<databaseVars, readCache>>

LeavePage(q) ==
  /\ reads[q].step = "ANSWERED" /\ reads' = [reads EXCEPT ![q] = NoRead]
  /\ UNCHANGED <<databaseVars, readCache>>

Loaded(q, step, fields) ==
  /\ reads[q].step = step /\ reads' = [reads EXCEPT ![q] = fields]
  /\ UNCHANGED <<databaseVars, readCache>>

(* A methodology that cannot be read is none.                              *)
LoadMethodology(q) ==
  \E m \in {0, inForce} :
    Loaded(q, "METHODOLOGY", [reads[q] EXCEPT !.step = "ROUTES", !.methodology = m])

(* The latest version of each slug, and those that may be public.          *)
LoadRoutes(q) ==
  Loaded(q, "ROUTES",
    [reads[q] EXCEPT !.step = "SOURCES",
                     !.controlled = {s \in Slugs : listings[s] # NotListed},
                     !.listed = {s \in Slugs : listings[s].status = "PUBLISHED"}])

(* Of these, the routes whose source is still public, with that source.    *)
LoadSources(q) ==
  Loaded(q, "SOURCES",
    [reads[q] EXCEPT !.step = "METRICS", !.listed = {},
       !.admitted = {[slug |-> s, source |-> listings[s].source] :
                       s \in {t \in reads[q].listed : PublishedSource(listings[t].source)}}])

Latest(rows) == {row \in rows : \A other \in rows : other.at <= row.at}

AdmittedSlugs(q) == {a.slug : a \in reads[q].admitted}

(* The snapshots of a route from sources that may be shown.                *)
VisibleYields(s) == {row \in yields : row.slug = s /\ PublishedSource(row.source)}

(* A bug: composites of any methodology.                                   *)
ComparableRisksOfAny(s, m) == {row \in composites : m # 0 /\ row.slug = s}

(* The composite risks of a route under the methodology that was loaded.   *)
ComparableRisks(s, m) == {row \in composites : m # 0 /\ row.slug = s /\ row.methodology = m}

LoadMetrics(q) ==
  \E chosen \in SUBSET UNION {Latest(VisibleYields(s)) : s \in AdmittedSlugs(q)},
     risks \in SUBSET UNION {Latest(ComparableRisks(s, reads[q].methodology)) : s \in AdmittedSlugs(q)} :
    /\ \A s \in AdmittedSlugs(q) :
         /\ Cardinality({y \in chosen : y.slug = s}) = (IF VisibleYields(s) = {} THEN 0 ELSE 1)
         /\ Cardinality({r \in risks : r.slug = s})
              = (IF ComparableRisks(s, reads[q].methodology) = {} THEN 0 ELSE 1)
    /\ Loaded(q, "METRICS",
         [reads[q] EXCEPT !.step = "EVIDENCE", !.risks = risks,
            !.yields = {[row |-> y, degraded |-> evidence[y.source] = "DEGRADED"] : y \in chosen}])

(* validateCompositeRiskObservationIds: all that a score rests on is there *)
(* and may be shown.                                                       *)
Explained(risk) == \A e \in risk.sources : PublishedSource(e)

LoadEvidence(q) ==
  Loaded(q, "EVIDENCE",
    [reads[q] EXCEPT !.step = "BUILD", !.risks = {}, !.explained = {r \in reads[q].risks : Explained(r)}])

(* A bug: the state of a metric disregards its age.                        *)
MetricStateAgeless(y, now) == IF y.degraded THEN "DEGRADED" ELSE "CURRENT"

(* resolveMetricState, for a row with a value.                             *)
MetricState(y, now) ==
  CASE now - y.row.at < 0 \/ now - y.row.at > YieldFreshFor -> "STALE"
    [] y.degraded -> "DEGRADED"
    [] OTHER -> "CURRENT"

(* The record of a route that was admitted.                                *)
RecordOf(q, a) ==
  LET mine == {y \in reads[q].yields : y.row.slug = a.slug} IN
  [slug |-> a.slug, source |-> a.source, yields |-> {y.row : y \in mine},
   state |-> IF mine = {} THEN "UNAVAILABLE"
             ELSE MetricState(CHOOSE y \in mine : TRUE, reads[q].began),
   risks |-> {r \in reads[q].explained : r.slug = a.slug}]

BundledRecord(s) ==
  [slug |-> s, source |-> NoneShown, state |-> "UNAVAILABLE", yields |-> {}, risks |-> {}]

(* mergeCatalogPublication.                                                *)
Merged(records, controlled) ==
  records \cup {BundledRecord(s) : s \in BundledSlugs \ ({r.slug : r \in records} \cup controlled)}

(* A bug: the lifetime of the cache counts from the end of the load.       *)
BuildFromNow(q) ==
  LET model == [state |-> "HEALTHY", methodology |-> reads[q].methodology,
                catalog |-> Merged({RecordOf(q, a) : a \in reads[q].admitted}, reads[q].controlled)]
  IN
  /\ reads[q].step = "BUILD" /\ Answer(q, model)
  /\ readCache' = [until |-> readNow + CacheLifetime, model |-> model]
  /\ UNCHANGED databaseVars

(* The model is cached until some seconds after the load began; a load     *)
(* that ends late replaces the model of one that began after it.           *)
Build(q) ==
  LET model == [state |-> "HEALTHY", methodology |-> reads[q].methodology,
                catalog |-> Merged({RecordOf(q, a) : a \in reads[q].admitted}, reads[q].controlled)]
  IN
  /\ reads[q].step = "BUILD" /\ Answer(q, model)
  /\ readCache' = [until |-> reads[q].began + CacheLifetime, model |-> model]
  /\ UNCHANGED databaseVars

(* The database cannot be read: bundled research only, for a short time.   *)
LoadFails(q) ==
  LET model == [state |-> "UNAVAILABLE", methodology |-> 0,
                catalog |-> {BundledRecord(s) : s \in BundledSlugs}]
  IN
  /\ reads[q].step \in {"ROUTES", "SOURCES", "METRICS", "EVIDENCE"}
  /\ Answer(q, model)
  /\ readCache' = [until |-> reads[q].began + FailureLifetime, model |-> model]
  /\ UNCHANGED databaseVars

-----------------------------------------------------------------------------
ReadModelNext ==
  \/ ReadTick
  \/ DatabaseChanges
  \/ \E q \in PageRequests :
       \/ Request(q) \/ LeavePage(q)
       \/ LoadMethodology(q) \/ LoadRoutes(q) \/ LoadSources(q) \/ LoadMetrics(q) \/ LoadEvidence(q)
       \/ Build(q) \/ LoadFails(q)

ReadModelSpec == ReadModelInit /\ [][ReadModelNext]_readVars

-----------------------------------------------------------------------------
(* Properties.                                                             *)

Answered == {q \in PageRequests : reads[q].step = "ANSWERED" /\ reads[q].answer.state = "HEALTHY"}

(* Whatever a request is shown from a database that could be read was      *)
(* published, and each source it rests on admissible, less than the        *)
(* lifetime of the cache before the request was made: neither slow loads   *)
(* nor caches keep what an administrator withdrew, and a bundled record    *)
(* does not replace it (public-read-model-core.ts:157).                    *)
NothingOutlivesItsEvidence ==
  \A q \in Answered : \A r \in reads[q].answer.catalog :
    LET recent(time) == time > reads[q].began - CacheLifetime IN
    /\ recent(lastListed[r.slug])
    /\ r.source = NoneShown \/ recent(lastAdmissible[r.source])
    /\ \A y \in r.yields : recent(lastAdmissible[y.source])
    /\ \A risk \in r.risks : \A e \in risk.sources : recent(lastAdmissible[e])

(* A metric that is shown as current was observed within its freshness     *)
(* threshold of a load that began less than the lifetime of the cache      *)
(* before the request.                                                     *)
CurrentMeansFresh ==
  \A q \in Answered : \A r \in reads[q].answer.catalog :
    r.state = "CURRENT" =>
      \E y \in r.yields : reads[q].began - y.at < YieldFreshFor + CacheLifetime

(* All risk scores of an answer are of the methodology it names, even when *)
(* another one is published during the load, so that they may be compared. *)
ScoresAreComparable ==
  \A q \in Answered : \A r \in reads[q].answer.catalog :
    \A risk \in r.risks : risk.methodology = reads[q].answer.methodology

(* An answer says nothing that its sources, at the time it may speak of,   *)
(* do not support.                                                         *)
ShownIsSupported == NothingOutlivesItsEvidence /\ CurrentMeansFresh /\ ScoresAreComparable
=============================================================================
