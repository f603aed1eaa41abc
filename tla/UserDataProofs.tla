---------------------------- MODULE UserDataProofs ----------------------------
(* Proofs about what users are shown, save and subscribe to:               *)
(* PublicReadModel, Watchlist, SavedResearch, AlertSubscriptions and       *)
(* Simulations; and about MCUserData.                                      *)
EXTENDS MCUserData, AlertEvaluationProofs, FiniteSetTheorems

-----------------------------------------------------------------------------
(* The public read model.                                                  *)

Listings == [status : {"ABSENT", "DRAFT", "PUBLISHED", "ARCHIVED"}, source : EvidenceSources \cup {NoneShown}]

Models == [state : {"NONE", "HEALTHY", "UNAVAILABLE"}, methodology : 0 .. 2, catalog : SUBSET Records]

Reads ==
  [step : {"IDLE", "METHODOLOGY", "ROUTES", "SOURCES", "METRICS", "EVIDENCE", "BUILD", "ANSWERED"},
   began : ReadTimes, methodology : 0 .. 2, controlled : SUBSET Slugs, listed : SUBSET Slugs,
   admitted : SUBSET [slug : Slugs, source : EvidenceSources],
   yields : SUBSET [row : YieldRows, degraded : BOOLEAN],
   risks : SUBSET CompositeRows, explained : SUBSET CompositeRows, answer : Models]

Seen == ReadTimes \cup {NotEver}

DatabaseType ==
  /\ readNow \in ReadTimes /\ dbChanges \in 0 .. MaxDbChanges /\ inForce \in 1 .. 2
  /\ listings \in [Slugs -> Listings]
  /\ evidence \in [EvidenceSources -> {"ACTIVE", "DEGRADED", "WITHDRAWN"}]
  /\ yields \subseteq YieldRows /\ composites \subseteq CompositeRows
  /\ lastListed \in [Slugs -> Seen] /\ lastAdmissible \in [EvidenceSources -> Seen]

(* What is listed and admissible is so now; nothing was in the future; and *)
(* a route that is published has a source, which it keeps.                 *)
WitnessInv ==
  /\ \A s \in Slugs :
       /\ lastListed[s] <= readNow
       /\ listings[s].status = "PUBLISHED" => lastListed[s] = readNow /\ listings[s].source \in EvidenceSources
       /\ s \in BundledSlugs /\ listings[s] = NotListed => lastListed[s] = readNow
  /\ \A e \in EvidenceSources :
       /\ lastAdmissible[e] <= readNow
       /\ PublishedSource(e) => lastAdmissible[e] = readNow

(* What a model shows was listed and admissible at some time from "since"  *)
(* on, its current metrics are fresh of that time, and its scores are      *)
(* those of its methodology.                                               *)
Supported(model, since, listed, admissible) ==
  \A r \in model.catalog :
    /\ listed[r.slug] >= since
    /\ r.source = NoneShown \/ admissible[r.source] >= since
    /\ \A y \in r.yields : admissible[y.source] >= since
    /\ \A risk \in r.risks :
         risk.methodology = model.methodology /\ \A e \in risk.sources : admissible[e] >= since
    /\ r.state = "CURRENT" => \E y \in r.yields : y.at + YieldFreshFor >= since

(* What a load has read so far was so when it began, or later; what is     *)
(* answered was so within the lifetime of the cache.                       *)
ReadOK(read, listed, admissible, listing) ==
  /\ read.step = "METHODOLOGY" => read.risks = {} /\ read.explained = {}
  /\ read.step \in {"SOURCES", "METRICS", "EVIDENCE", "BUILD"} =>
       \A s \in BundledSlugs \ read.controlled : listed[s] >= read.began
  /\ \A s \in read.listed : listed[s] >= read.began /\ listing[s].source \in EvidenceSources
  /\ \A a \in read.admitted : listed[a.slug] >= read.began /\ admissible[a.source] >= read.began
  /\ \A y \in read.yields : admissible[y.row.source] >= read.began
  /\ \A r \in read.risks \cup read.explained : r.methodology = read.methodology
  /\ \A r \in read.explained : \A e \in r.sources : admissible[e] >= read.began
  /\ read.answer.state = "HEALTHY" =>
       Supported(read.answer, read.began + 1 - CacheLifetime, listed, admissible)

ReadsInv ==
  \A q \in PageRequests :
    reads[q].began <= readNow /\ ReadOK(reads[q], lastListed, lastAdmissible, listings)

CacheInv ==
  /\ readCache \in [until : 0 .. ReadHorizon + CacheLifetime, model : Models]
  /\ readCache.model.state = "HEALTHY" =>
       Supported(readCache.model, readCache.until - CacheLifetime, lastListed, lastAdmissible)

ReadModelInv ==
  /\ DatabaseType /\ WitnessInv
  /\ reads \in [PageRequests -> Reads] /\ ReadsInv
  /\ CacheInv

-----------------------------------------------------------------------------
(* The clock and the database.                                             *)

LEMMA Constants ==
  /\ CacheLifetime \in Nat \ {0} /\ FailureLifetime \in Nat \ {0} /\ YieldFreshFor \in Nat \ {0}
  /\ FailureLifetime <= CacheLifetime /\ ReadHorizon \in Nat /\ MaxDbChanges \in Nat
  /\ BundledSlugs \subseteq Slugs /\ PublishingSource \in EvidenceSources
  BY ReadModelConstants DEF PublishingSource

(* Evidence only becomes more recent.                                      *)
LEMMA SupportedLater ==
  ASSUME NEW model \in Models, NEW since \in Int,
         NEW listed \in [Slugs -> Seen], NEW admissible \in [EvidenceSources -> Seen],
         NEW listed2 \in [Slugs -> Seen], NEW admissible2 \in [EvidenceSources -> Seen],
         \A s \in Slugs : listed[s] <= listed2[s],
         \A e \in EvidenceSources : admissible[e] <= admissible2[e],
         Supported(model, since, listed, admissible)
  PROVE  Supported(model, since, listed2, admissible2)
<1>1. \A s \in Slugs : listed[s] \in Int /\ listed2[s] \in Int
  BY Constants DEF Seen, ReadTimes, NotEver
<1>2. \A e \in EvidenceSources : admissible[e] \in Int /\ admissible2[e] \in Int
  BY Constants DEF Seen, ReadTimes, NotEver
<1>3. \A r \in model.catalog :
        /\ r.slug \in Slugs /\ r.source \in EvidenceSources \cup {NoneShown}
        /\ \A y \in r.yields : y.source \in EvidenceSources
        /\ \A risk \in r.risks : risk.sources \subseteq EvidenceSources
  BY DEF Models, Records, YieldRows, CompositeRows
<1>4. \A s \in Slugs : listed[s] >= since => listed2[s] >= since
  BY <1>1
<1>5. \A e \in EvidenceSources : admissible[e] >= since => admissible2[e] >= since
  BY <1>2
<1> QED
  BY <1>3, <1>4, <1>5 DEF Supported

LEMMA ReadOKLater ==
  ASSUME NEW read \in Reads, NEW listing, NEW listing2,
         NEW listed \in [Slugs -> Seen], NEW admissible \in [EvidenceSources -> Seen],
         NEW listed2 \in [Slugs -> Seen], NEW admissible2 \in [EvidenceSources -> Seen],
         \A s \in Slugs : listed[s] <= listed2[s],
         \A e \in EvidenceSources : admissible[e] <= admissible2[e],
         \A s \in Slugs : listing[s].source \in EvidenceSources => listing2[s].source \in EvidenceSources,
         ReadOK(read, listed, admissible, listing)
  PROVE  ReadOK(read, listed2, admissible2, listing2)
<1> DEFINE began == read.began
<1>1. \A s \in Slugs : listed[s] \in Int /\ listed2[s] \in Int
  BY Constants DEF Seen, ReadTimes, NotEver
<1>2. \A e \in EvidenceSources : admissible[e] \in Int /\ admissible2[e] \in Int
  BY Constants DEF Seen, ReadTimes, NotEver
<1>3. began \in Int /\ read.answer \in Models /\ began + 1 - CacheLifetime \in Int
  BY Constants DEF Reads, ReadTimes
<1>4. \A s \in Slugs : listed[s] >= began => listed2[s] >= began
  BY <1>1, <1>3
<1>5. \A e \in EvidenceSources : admissible[e] >= began => admissible2[e] >= began
  BY <1>2, <1>3
<1>6. read.answer.state = "HEALTHY" =>
        Supported(read.answer, began + 1 - CacheLifetime, listed2, admissible2)
  BY <1>3, SupportedLater DEF ReadOK
<1>7. /\ read.listed \subseteq Slugs
      /\ \A a \in read.admitted : a.slug \in Slugs /\ a.source \in EvidenceSources
      /\ \A y \in read.yields : y.row.source \in EvidenceSources
      /\ \A r \in read.explained : r.sources \subseteq EvidenceSources
  BY DEF Reads, YieldRows, CompositeRows
<1> HIDE DEF began
<1>8. /\ read.step \in {"SOURCES", "METRICS", "EVIDENCE", "BUILD"} =>
           \A s \in BundledSlugs \ read.controlled : listed2[s] >= read.began
      /\ \A s \in read.listed : listed2[s] >= read.began /\ listing2[s].source \in EvidenceSources
      /\ \A a \in read.admitted : listed2[a.slug] >= read.began /\ admissible2[a.source] >= read.began
  BY <1>4, <1>5, <1>7, Constants DEF ReadOK, began
<1>9. /\ \A y \in read.yields : admissible2[y.row.source] >= read.began
      /\ \A r \in read.explained : \A e \in r.sources : admissible2[e] >= read.began
  BY <1>5, <1>7 DEF ReadOK, began
<1> QED
  BY <1>6, <1>8, <1>9 DEF ReadOK, began

(* Whatever the database becomes, what it lists and admits then is so then.*)
LEMMA WitnessStep ==
  ASSUME DatabaseType, WitnessInv, readNow' \in ReadTimes, readNow <= readNow',
         listings' \in [Slugs -> Listings],
         \A s \in Slugs : listings'[s].status = "PUBLISHED" => listings'[s].source \in EvidenceSources,
         evidence' \in [EvidenceSources -> {"ACTIVE", "DEGRADED", "WITHDRAWN"}],
         Witnessed(readNow', listings', evidence')
  PROVE  /\ WitnessInv'
         /\ lastListed' \in [Slugs -> Seen] /\ lastAdmissible' \in [EvidenceSources -> Seen]
         /\ \A s \in Slugs : lastListed[s] <= lastListed'[s]
         /\ \A e \in EvidenceSources : lastAdmissible[e] <= lastAdmissible'[e]
<1> DEFINE here(s) == listings'[s].status = "PUBLISHED" \/ (s \in BundledSlugs /\ listings'[s] = NotListed)
<1>1. /\ lastListed' = [s \in Slugs |-> IF here(s) THEN readNow' ELSE lastListed[s]]
      /\ lastAdmissible' = [e \in EvidenceSources |->
           IF evidence'[e] \in {"ACTIVE", "DEGRADED"} THEN readNow' ELSE lastAdmissible[e]]
  BY DEF Witnessed
<1>2. readNow \in Nat /\ readNow' \in Nat
  BY DEF DatabaseType, ReadTimes
<1>3. \A s \in Slugs : lastListed[s] \in Seen /\ lastListed[s] \in Int /\ lastListed[s] <= readNow
  BY Constants DEF DatabaseType, Seen, ReadTimes, NotEver, WitnessInv
<1>4. \A e \in EvidenceSources :
        lastAdmissible[e] \in Seen /\ lastAdmissible[e] \in Int /\ lastAdmissible[e] <= readNow
  BY Constants DEF DatabaseType, Seen, ReadTimes, NotEver, WitnessInv
<1>5. readNow' \in Seen
  BY DEF Seen
<1>6. \A s \in Slugs : lastListed'[s] = IF here(s) THEN readNow' ELSE lastListed[s]
  BY <1>1
<1>7. \A e \in EvidenceSources : lastAdmissible'[e] =
        IF evidence'[e] \in {"ACTIVE", "DEGRADED"} THEN readNow' ELSE lastAdmissible[e]
  BY <1>1
<1>8. lastListed' \in [Slugs -> Seen] /\ lastAdmissible' \in [EvidenceSources -> Seen]
  BY <1>1, <1>3, <1>4, <1>5
<1>9. \A s \in Slugs : lastListed[s] <= lastListed'[s] /\ lastListed'[s] <= readNow'
  BY <1>2, <1>3, <1>6
<1>10. \A e \in EvidenceSources :
         lastAdmissible[e] <= lastAdmissible'[e] /\ lastAdmissible'[e] <= readNow'
  BY <1>2, <1>4, <1>7
<1>11. WitnessInv'
  BY <1>6, <1>7, <1>9, <1>10 DEF WitnessInv, PublishedSource
<1> QED
  BY <1>8, <1>9, <1>10, <1>11

(* The database changes; reads and the cache are as they were.             *)
LEMMA Grows ==
  ASSUME ReadModelInv, DatabaseType', WitnessInv', readNow <= readNow', UNCHANGED <<reads, readCache>>,
         \A s \in Slugs : lastListed[s] <= lastListed'[s],
         \A e \in EvidenceSources : lastAdmissible[e] <= lastAdmissible'[e],
         \A s \in Slugs : listings[s].source \in EvidenceSources => listings'[s].source \in EvidenceSources
  PROVE  ReadModelInv'
<1>1. /\ lastListed \in [Slugs -> Seen] /\ lastAdmissible \in [EvidenceSources -> Seen]
      /\ lastListed' \in [Slugs -> Seen] /\ lastAdmissible' \in [EvidenceSources -> Seen]
      /\ readNow \in Nat /\ readNow' \in Nat
  BY DEF ReadModelInv, DatabaseType, ReadTimes
<1>2. ASSUME NEW q \in PageRequests
      PROVE  reads[q].began <= readNow' /\ ReadOK(reads[q], lastListed', lastAdmissible', listings')
  <2>1. reads[q] \in Reads /\ reads[q].began \in Nat
    BY DEF ReadModelInv, Reads, ReadTimes
  <2>2. reads[q].began <= readNow /\ ReadOK(reads[q], lastListed, lastAdmissible, listings)
    BY DEF ReadModelInv, ReadsInv
  <2>3. reads[q].began <= readNow'
    BY <1>1, <2>1, <2>2
  <2>4. ReadOK(reads[q], lastListed', lastAdmissible', listings')
    BY <1>1, <2>1, <2>2, ReadOKLater
  <2> QED
    BY <2>3, <2>4
<1>3. ReadsInv'
  BY <1>2 DEF ReadsInv
<1>4. CacheInv'
  <2>1. readCache.model \in Models /\ readCache.until - CacheLifetime \in Int
    BY Constants DEF ReadModelInv, CacheInv
  <2>2. readCache.model.state = "HEALTHY" =>
          Supported(readCache.model, readCache.until - CacheLifetime, lastListed', lastAdmissible')
    BY <1>1, <2>1, SupportedLater DEF ReadModelInv, CacheInv
  <2> QED
    BY <2>2 DEF ReadModelInv, CacheInv
<1> QED
  BY <1>3, <1>4 DEF ReadModelInv

LEMMA TickStep ==
  ASSUME ReadModelInv, ReadTick
  PROVE  ReadModelInv'
<1>1. /\ readNow' \in ReadTimes /\ readNow <= readNow'
      /\ UNCHANGED <<dbChanges, listings, evidence, yields, composites, inForce, reads, readCache>>
      /\ Witnessed(readNow', listings', evidence')
  BY Constants DEF ReadTick, ReadModelInv, DatabaseType, ReadTimes
<1>2. /\ listings' \in [Slugs -> Listings]
      /\ \A s \in Slugs : listings'[s].status = "PUBLISHED" => listings'[s].source \in EvidenceSources
      /\ evidence' \in [EvidenceSources -> {"ACTIVE", "DEGRADED", "WITHDRAWN"}]
  BY <1>1 DEF ReadModelInv, DatabaseType, WitnessInv
<1>3. /\ WitnessInv'
      /\ lastListed' \in [Slugs -> Seen] /\ lastAdmissible' \in [EvidenceSources -> Seen]
      /\ \A s \in Slugs : lastListed[s] <= lastListed'[s]
      /\ \A e \in EvidenceSources : lastAdmissible[e] <= lastAdmissible'[e]
  BY <1>1, <1>2, WitnessStep DEF ReadModelInv
<1>4. DatabaseType'
  BY <1>1, <1>3 DEF ReadModelInv, DatabaseType
<1> QED
  BY <1>1, <1>3, <1>4, Grows

LEMMA ChangeStep ==
  ASSUME ReadModelInv, DatabaseChanges
  PROVE  ReadModelInv'
<1> USE Constants
<1>1. /\ dbChanges' \in 0 .. MaxDbChanges
      /\ Witnessed(readNow, listings', evidence') /\ UNCHANGED <<readNow, reads, readCache>>
  BY DEF DatabaseChanges, ReadModelInv, DatabaseType
<1>2. DatabaseType /\ WitnessInv
  BY DEF ReadModelInv
<1> DEFINE Kept ==
      /\ listings' \in [Slugs -> Listings]
      /\ \A s \in Slugs :
           /\ listings'[s].status = "PUBLISHED" => listings'[s].source \in EvidenceSources
           /\ listings[s].source \in EvidenceSources => listings'[s].source \in EvidenceSources
<1>3. Kept
  <2>1. CASE UNCHANGED listings
    BY <1>2, <2>1 DEF DatabaseType, WitnessInv
  <2>2. ASSUME NEW s \in Slugs,
               listings' = [listings EXCEPT ![s] =
                 CASE @.status \in {"ABSENT", "ARCHIVED"} -> [@ EXCEPT !.status = "DRAFT"]
                   [] @.status = "DRAFT" -> [status |-> "PUBLISHED", source |-> PublishingSource]
                   [] OTHER -> [@ EXCEPT !.status = "ARCHIVED"]]
        PROVE  Kept
    <3> DEFINE old == listings[s]
               new == CASE old.status \in {"ABSENT", "ARCHIVED"} -> [old EXCEPT !.status = "DRAFT"]
                        [] old.status = "DRAFT" -> [status |-> "PUBLISHED", source |-> PublishingSource]
                        [] OTHER -> [old EXCEPT !.status = "ARCHIVED"]
    <3>1. listings' = [listings EXCEPT ![s] = new]
      BY <2>2
    <3>2. old \in Listings
      BY <1>2 DEF DatabaseType
    <3>3. /\ new \in Listings
          /\ new.status = "PUBLISHED" => new.source \in EvidenceSources
          /\ old.source \in EvidenceSources => new.source \in EvidenceSources
      <4>1. CASE old.status \in {"ABSENT", "ARCHIVED"}
        <5>1. new = [old EXCEPT !.status = "DRAFT"]
          BY <4>1
        <5> QED
          BY <3>2, <5>1 DEF Listings
      <4>2. CASE old.status = "DRAFT"
        <5>1. new = [status |-> "PUBLISHED", source |-> PublishingSource]
          BY <4>2
        <5> QED
          BY <5>1 DEF Listings
      <4>3. CASE old.status = "PUBLISHED"
        <5>1. new = [old EXCEPT !.status = "ARCHIVED"]
          BY <4>3
        <5> QED
          BY <3>2, <5>1 DEF Listings
      <4> QED
        BY <3>2, <4>1, <4>2, <4>3 DEF Listings
    <3> HIDE DEF new
    <3> QED
      BY <1>2, <3>1, <3>3 DEF DatabaseType, WitnessInv
  <2> QED
    BY <2>1, <2>2 DEF DatabaseChanges
<1>4. evidence' \in [EvidenceSources -> {"ACTIVE", "DEGRADED", "WITHDRAWN"}]
  BY <1>2 DEF DatabaseChanges, DatabaseType
<1>5. yields' \subseteq YieldRows /\ composites' \subseteq CompositeRows /\ inForce' \in 1 .. 2
  BY <1>2 DEF DatabaseChanges, DatabaseType
<1>6. readNow' \in ReadTimes /\ readNow <= readNow' /\ Witnessed(readNow', listings', evidence')
  BY <1>1, <1>2 DEF DatabaseType, ReadTimes
<1>7. /\ WitnessInv'
      /\ lastListed' \in [Slugs -> Seen] /\ lastAdmissible' \in [EvidenceSources -> Seen]
      /\ \A s \in Slugs : lastListed[s] <= lastListed'[s]
      /\ \A e \in EvidenceSources : lastAdmissible[e] <= lastAdmissible'[e]
  BY <1>2, <1>3, <1>4, <1>6, WitnessStep
<1>8. DatabaseType'
  BY <1>1, <1>3, <1>4, <1>5, <1>6, <1>7 DEF DatabaseType
<1> QED
  BY <1>1, <1>3, <1>6, <1>7, <1>8, Grows

-----------------------------------------------------------------------------
(* The reads.                                                              *)

LEMMA SupportedEarlier ==
  ASSUME NEW model \in Models, NEW since \in Int, NEW earlier \in Int, earlier <= since,
         NEW listed \in [Slugs -> Seen], NEW admissible \in [EvidenceSources -> Seen],
         Supported(model, since, listed, admissible)
  PROVE  Supported(model, earlier, listed, admissible)
<1>1. \A s \in Slugs : listed[s] >= since => listed[s] >= earlier
  BY Constants DEF Seen, ReadTimes, NotEver
<1>2. \A e \in EvidenceSources : admissible[e] >= since => admissible[e] >= earlier
  BY Constants DEF Seen, ReadTimes, NotEver
<1>3. \A r \in model.catalog :
        /\ r.slug \in Slugs /\ r.source \in EvidenceSources \cup {NoneShown}
        /\ \A y \in r.yields : y.source \in EvidenceSources /\ y.at \in Int
        /\ \A risk \in r.risks : risk.sources \subseteq EvidenceSources
  BY DEF Models, Records, YieldRows, CompositeRows, ReadTimes
<1>4. \A at \in Int : at + YieldFreshFor >= since => at + YieldFreshFor >= earlier
  BY Constants
<1> QED
  BY <1>1, <1>2, <1>3, <1>4 DEF Supported

(* A request moves on, and the database does not.                          *)
LEMMA ReadHandler ==
  ASSUME ReadModelInv, UNCHANGED databaseVars, NEW q \in PageRequests, NEW read \in Reads,
         reads' = [reads EXCEPT ![q] = read], read.began <= readNow,
         ReadOK(read, lastListed, lastAdmissible, listings), CacheInv'
  PROVE  ReadModelInv'
<1>1. /\ UNCHANGED <<readNow, dbChanges, listings, evidence, yields, composites, inForce,
                     lastListed, lastAdmissible>>
  BY DEF databaseVars
<1>2. /\ reads' \in [PageRequests -> Reads]
      /\ \A p \in PageRequests : reads'[p] = IF p = q THEN read ELSE reads[p]
  BY DEF ReadModelInv
<1>3. ReadsInv'
  BY <1>1, <1>2 DEF ReadModelInv, ReadsInv
<1>4. DatabaseType' /\ WitnessInv'
  BY <1>1 DEF ReadModelInv, DatabaseType, WitnessInv, PublishedSource
<1> QED
  BY <1>2, <1>3, <1>4 DEF ReadModelInv

LEMMA NoReadFacts ==
  /\ NoRead \in Reads /\ NoModel \in Models /\ NoModel.state = "NONE"
  /\ NoRead.listed = {} /\ NoRead.admitted = {} /\ NoRead.yields = {} /\ NoRead.risks = {}
  /\ NoRead.explained = {} /\ NoRead.answer = NoModel
<1>1. NoModel \in Models /\ NoModel.state = "NONE"
  BY DEF NoModel, Models
<1>2. 0 \in ReadTimes
  BY Constants DEF ReadTimes
<1> QED
  BY <1>1, <1>2 DEF NoRead, Reads

(* A read with nothing but an answer.                                      *)
LEMMA AnswerOK ==
  ASSUME NEW read, read.step \in {"IDLE", "METHODOLOGY", "ANSWERED"}, read.listed = {},
         read.admitted = {}, read.yields = {}, read.risks = {}, read.explained = {},
         NEW listed, NEW admissible, NEW listing,
         read.answer.state = "HEALTHY" =>
           Supported(read.answer, read.began + 1 - CacheLifetime, listed, admissible)
  PROVE  ReadOK(read, listed, admissible, listing)
  BY DEF ReadOK

LEMMA CacheKept ==
  ASSUME ReadModelInv, UNCHANGED databaseVars, UNCHANGED readCache
  PROVE  CacheInv'
  BY DEF ReadModelInv, CacheInv, databaseVars

LEMMA RequestStep ==
  ASSUME ReadModelInv, NEW q \in PageRequests, Request(q) \/ LeavePage(q)
  PROVE  ReadModelInv'
<1> USE Constants
<1>1. UNCHANGED databaseVars /\ UNCHANGED readCache /\ CacheInv'
  BY CacheKept DEF Request, LeavePage
<1>2. readNow \in ReadTimes /\ readNow \in Nat
  BY DEF ReadModelInv, DatabaseType, ReadTimes
<1>3. CASE Request(q) /\ readCache.until > readNow
  <2> DEFINE model == readCache.model
             read  == [NoRead EXCEPT !.began = readNow, !.step = "ANSWERED", !.answer = model]
  <2>1. reads' = [reads EXCEPT ![q] = read]
    BY <1>3 DEF Request
  <2>2. model \in Models /\ readCache.until \in Nat
    BY DEF ReadModelInv, CacheInv
  <2>3. /\ read \in Reads /\ read.step = "ANSWERED" /\ read.began = readNow /\ read.listed = {}
        /\ read.admitted = {} /\ read.yields = {} /\ read.risks = {} /\ read.explained = {}
        /\ read.answer = model
    BY <1>2, <2>2, NoReadFacts DEF Reads
  <2>4. model.state = "HEALTHY" =>
          Supported(model, readNow + 1 - CacheLifetime, lastListed, lastAdmissible)
    <3>1. readCache.until - CacheLifetime \in Int /\ readNow + 1 - CacheLifetime \in Int
          /\ readNow + 1 - CacheLifetime <= readCache.until - CacheLifetime
      BY <1>2, <1>3, <2>2
    <3> QED
      BY <2>2, <3>1, SupportedEarlier DEF ReadModelInv, CacheInv, DatabaseType
  <2> HIDE DEF read, model
  <2>5. ReadOK(read, lastListed, lastAdmissible, listings)
    BY <2>3, <2>4, AnswerOK
  <2> QED
    <3>1. read.began <= readNow
      BY <1>2, <2>3
    <3> QED
      BY <1>1, <2>1, <2>3, <2>5, <3>1, ReadHandler
<1>4. CASE Request(q) /\ ~(readCache.until > readNow)
  <2> DEFINE read == [NoRead EXCEPT !.began = readNow, !.step = "METHODOLOGY"]
  <2>1. reads' = [reads EXCEPT ![q] = read]
    BY <1>4 DEF Request
  <2>2. /\ read \in Reads /\ read.step = "METHODOLOGY" /\ read.began = readNow /\ read.listed = {}
        /\ read.admitted = {} /\ read.yields = {} /\ read.risks = {} /\ read.explained = {}
        /\ read.answer = NoModel
    BY <1>2, NoReadFacts DEF Reads
  <2> HIDE DEF read
  <2>3. ReadOK(read, lastListed, lastAdmissible, listings)
    BY <2>2, NoReadFacts, AnswerOK
  <2> QED
    <3>1. read.began <= readNow
      BY <1>2, <2>2
    <3> QED
      BY <1>1, <2>1, <2>2, <2>3, <3>1, ReadHandler
<1>5. CASE LeavePage(q)
  <2>1. reads' = [reads EXCEPT ![q] = NoRead]
    BY <1>5 DEF LeavePage
  <2>2. NoRead.step = "IDLE" /\ NoRead.began = 0
    BY DEF NoRead
  <2>3. ReadOK(NoRead, lastListed, lastAdmissible, listings)
    BY <2>2, NoReadFacts, AnswerOK
  <2> QED
    <3>1. NoRead.began <= readNow
      BY <1>2, <2>2
    <3> QED
      BY <1>1, <2>1, <2>3, <3>1, NoReadFacts, ReadHandler
<1> QED
  BY <1>3, <1>4, <1>5

(* A load goes on with what it has read.                                   *)
LEMMA LoadedStep ==
  ASSUME ReadModelInv, NEW q \in PageRequests, NEW step, NEW read \in Reads, Loaded(q, step, read),
         read.began = reads[q].began, read.answer = reads[q].answer,
         ReadOK(read, lastListed, lastAdmissible, listings)
  PROVE  ReadModelInv'
<1>1. UNCHANGED databaseVars /\ UNCHANGED readCache /\ reads' = [reads EXCEPT ![q] = read]
  BY DEF Loaded
<1>2. CacheInv'
  BY <1>1, CacheKept
<1>3. read.began <= readNow
  BY DEF ReadModelInv, ReadsInv
<1> QED
  BY <1>1, <1>2, <1>3, ReadHandler

LEMMA LoadStep ==
  ASSUME ReadModelInv, NEW q \in PageRequests,
         LoadMethodology(q) \/ LoadRoutes(q) \/ LoadSources(q) \/ LoadMetrics(q) \/ LoadEvidence(q)
  PROVE  ReadModelInv'
<1> USE Constants
<1> DEFINE old == reads[q]
<1>1. /\ old \in Reads /\ old.began <= readNow /\ ReadOK(old, lastListed, lastAdmissible, listings)
      /\ readNow \in Nat /\ old.began \in Nat
  BY DEF ReadModelInv, ReadsInv, Reads, ReadTimes, DatabaseType
<1>2. /\ \A s \in Slugs :
           /\ lastListed[s] \in Int
           /\ listings[s].status = "PUBLISHED" =>
                lastListed[s] = readNow /\ listings[s].source \in EvidenceSources
           /\ s \in BundledSlugs /\ listings[s] = NotListed => lastListed[s] = readNow
      /\ \A e \in EvidenceSources : PublishedSource(e) => lastAdmissible[e] = readNow
  BY DEF ReadModelInv, WitnessInv, DatabaseType, Seen, ReadTimes, NotEver
<1>3. CASE LoadMethodology(q)
  <2>1. PICK m \in {0, inForce} :
          Loaded(q, "METHODOLOGY", [old EXCEPT !.step = "ROUTES", !.methodology = m])
    BY <1>3 DEF LoadMethodology
  <2>2. old.step = "METHODOLOGY" /\ m \in 0 .. 2
    <3>1. inForce \in 1 .. 2
      BY DEF ReadModelInv, DatabaseType
    <3>2. old.step = "METHODOLOGY"
      BY <2>1 DEF Loaded
    <3> QED
      BY <3>1, <3>2
  <2> DEFINE read == [old EXCEPT !.step = "ROUTES", !.methodology = m]
  <2>3. /\ read \in Reads /\ read.step = "ROUTES" /\ read.began = old.began
        /\ read.answer = old.answer /\ read.methodology = m /\ read.listed = old.listed
        /\ read.admitted = old.admitted /\ read.yields = old.yields /\ read.risks = old.risks
        /\ read.explained = old.explained
    BY <1>1, <2>2 DEF Reads
  <2>4. Loaded(q, "METHODOLOGY", read)
    BY <2>1
  <2> HIDE DEF read
  <2>5. ReadOK(read, lastListed, lastAdmissible, listings)
    BY <1>1, <2>2, <2>3 DEF ReadOK
  <2> QED
    BY <2>3, <2>4, <2>5, LoadedStep
<1>4. CASE LoadRoutes(q)
  <2> DEFINE controlled == {s \in Slugs : listings[s] # NotListed}
             listed     == {s \in Slugs : listings[s].status = "PUBLISHED"}
             read == [old EXCEPT !.step = "SOURCES", !.controlled = controlled, !.listed = listed]
  <2>1. Loaded(q, "ROUTES", read)
    BY <1>4 DEF LoadRoutes
  <2>2. controlled \subseteq Slugs /\ listed \subseteq Slugs
    OBVIOUS
  <2>3. \A s \in BundledSlugs \ controlled : lastListed[s] >= old.began
    BY <1>1, <1>2
  <2>4. \A s \in listed : lastListed[s] >= old.began /\ listings[s].source \in EvidenceSources
    BY <1>1, <1>2
  <2> HIDE DEF controlled, listed
  <2>5. /\ read \in Reads /\ read.step = "SOURCES" /\ read.began = old.began
        /\ read.answer = old.answer /\ read.methodology = old.methodology /\ read.listed = listed
        /\ read.controlled = controlled
        /\ read.admitted = old.admitted /\ read.yields = old.yields /\ read.risks = old.risks
        /\ read.explained = old.explained
    BY <1>1, <2>2 DEF Reads
  <2> HIDE DEF read
  <2>6. ReadOK(read, lastListed, lastAdmissible, listings)
    BY <1>1, <2>3, <2>4, <2>5 DEF ReadOK
  <2> QED
    BY <2>1, <2>5, <2>6, LoadedStep
<1>5. CASE LoadSources(q)
  <2> DEFINE admitted == {[slug |-> s, source |-> listings[s].source] :
                            s \in {t \in old.listed : PublishedSource(listings[t].source)}}
             read == [old EXCEPT !.step = "METRICS", !.listed = {}, !.admitted = admitted]
  <2>1. Loaded(q, "SOURCES", read) /\ old.step = "SOURCES"
    BY <1>5 DEF LoadSources, Loaded
  <2>2. \A s \in old.listed :
          s \in Slugs /\ lastListed[s] >= old.began /\ listings[s].source \in EvidenceSources
    BY <1>1 DEF ReadOK, Reads
  <2>3. admitted \subseteq [slug : Slugs, source : EvidenceSources]
    BY <2>2
  <2>4. \A a \in admitted : lastListed[a.slug] >= old.began /\ lastAdmissible[a.source] >= old.began
    BY <1>1, <1>2, <2>2
  <2> HIDE DEF admitted
  <2>5. /\ read \in Reads /\ read.step = "METRICS" /\ read.began = old.began
        /\ read.answer = old.answer /\ read.methodology = old.methodology /\ read.listed = {}
        /\ read.controlled = old.controlled
        /\ read.admitted = admitted /\ read.yields = old.yields /\ read.risks = old.risks
        /\ read.explained = old.explained
    BY <1>1, <2>3 DEF Reads
  <2> HIDE DEF read
  <2>6. ReadOK(read, lastListed, lastAdmissible, listings)
    BY <1>1, <2>1, <2>4, <2>5 DEF ReadOK
  <2> QED
    BY <2>1, <2>5, <2>6, LoadedStep
<1>6. CASE LoadMetrics(q)
  <2>1. PICK chosen \in SUBSET UNION {Latest(VisibleYields(s)) : s \in AdmittedSlugs(q)},
             risks \in SUBSET UNION {Latest(ComparableRisks(s, old.methodology)) : s \in AdmittedSlugs(q)} :
          Loaded(q, "METRICS",
            [old EXCEPT !.step = "EVIDENCE", !.risks = risks,
               !.yields = {[row |-> y, degraded |-> evidence[y.source] = "DEGRADED"] : y \in chosen}])
    BY <1>6 DEF LoadMetrics
  <2> DEFINE found == {[row |-> y, degraded |-> evidence[y.source] = "DEGRADED"] : y \in chosen}
             read  == [old EXCEPT !.step = "EVIDENCE", !.risks = risks, !.yields = found]
  <2>2. Loaded(q, "METRICS", read) /\ old.step = "METRICS"
    BY <2>1 DEF Loaded
  <2>3. \A y \in chosen : y \in YieldRows /\ PublishedSource(y.source)
    BY DEF Latest, VisibleYields, ReadModelInv, DatabaseType
  <2>4. \A r \in risks : r \in CompositeRows /\ r.methodology = old.methodology
    BY DEF Latest, ComparableRisks, ReadModelInv, DatabaseType
  <2>5. found \subseteq [row : YieldRows, degraded : BOOLEAN]
    <3> DEFINE degraded(y) == evidence[y.source] = "DEGRADED"
    <3>1. \A y : degraded(y) \in BOOLEAN
      OBVIOUS
    <3>2. found = {[row |-> y, degraded |-> degraded(y)] : y \in chosen}
      OBVIOUS
    <3> HIDE DEF degraded, found
    <3> QED
      BY <2>3, <3>1, <3>2
  <2>6. \A y \in found : lastAdmissible[y.row.source] >= old.began
    BY <1>1, <1>2, <2>3 DEF YieldRows
  <2> HIDE DEF found
  <2>7. /\ read \in Reads /\ read.step = "EVIDENCE" /\ read.began = old.began
        /\ read.answer = old.answer /\ read.methodology = old.methodology /\ read.listed = old.listed
        /\ read.controlled = old.controlled
        /\ read.admitted = old.admitted /\ read.yields = found /\ read.risks = risks
        /\ read.explained = old.explained
    BY <1>1, <2>4, <2>5 DEF Reads
  <2> HIDE DEF read
  <2>8. ReadOK(read, lastListed, lastAdmissible, listings)
    BY <1>1, <2>2, <2>4, <2>6, <2>7 DEF ReadOK
  <2> QED
    BY <2>2, <2>7, <2>8, LoadedStep
<1>7. CASE LoadEvidence(q)
  <2> DEFINE explained == {r \in old.risks : Explained(r)}
             read == [old EXCEPT !.step = "BUILD", !.risks = {}, !.explained = explained]
  <2>1. Loaded(q, "EVIDENCE", read) /\ old.step = "EVIDENCE"
    BY <1>7 DEF LoadEvidence, Loaded
  <2>2. \A r \in explained : r \in CompositeRows /\ r.methodology = old.methodology
    BY <1>1 DEF ReadOK, Reads
  <2>3. \A r \in explained : \A e \in r.sources : lastAdmissible[e] >= old.began
    BY <1>1, <1>2, <2>2 DEF Explained, CompositeRows
  <2> HIDE DEF explained
  <2>4. /\ read \in Reads /\ read.step = "BUILD" /\ read.began = old.began
        /\ read.answer = old.answer /\ read.methodology = old.methodology /\ read.listed = old.listed
        /\ read.controlled = old.controlled
        /\ read.admitted = old.admitted /\ read.yields = old.yields /\ read.risks = {}
        /\ read.explained = explained
    BY <1>1, <2>2 DEF Reads
  <2> HIDE DEF read
  <2>5. ReadOK(read, lastListed, lastAdmissible, listings)
    BY <1>1, <2>1, <2>2, <2>3, <2>4 DEF ReadOK
  <2> QED
    BY <2>1, <2>4, <2>5, LoadedStep
<1> QED
  BY <1>3, <1>4, <1>5, <1>6, <1>7

-----------------------------------------------------------------------------
(* What a load makes of what it has read.                                  *)

LEMMA BuiltModel ==
  ASSUME NEW q \in PageRequests, reads[q] \in Reads, reads[q].step = "BUILD",
         ReadOK(reads[q], lastListed, lastAdmissible, listings)
  PROVE  LET model == [state |-> "HEALTHY", methodology |-> reads[q].methodology,
                       catalog |-> Merged({RecordOf(q, a) : a \in reads[q].admitted},
                                          reads[q].controlled)]
         IN  model \in Models /\ Supported(model, reads[q].began, lastListed, lastAdmissible)
<1> USE Constants
<1> DEFINE read    == reads[q]
           records == {RecordOf(q, a) : a \in read.admitted}
           catalog == Merged(records, read.controlled)
           model   == [state |-> "HEALTHY", methodology |-> read.methodology, catalog |-> catalog]
           mine(a) == {y \in read.yields : y.row.slug = a.slug}
<1>1. /\ read.began \in ReadTimes /\ read.began \in Int /\ read.methodology \in 0 .. 2
      /\ \A a \in read.admitted : a.slug \in Slugs /\ a.source \in EvidenceSources
      /\ \A y \in read.yields : y.row \in YieldRows /\ y.row.at \in Int
      /\ read.explained \subseteq CompositeRows
  BY DEF Reads, ReadTimes, YieldRows
<1>2. ASSUME NEW a \in read.admitted
      PROVE  LET r == RecordOf(q, a) IN
             /\ r \in Records /\ r.slug = a.slug /\ r.source = a.source
             /\ r.yields = {y.row : y \in mine(a)}
             /\ r.risks = {e \in read.explained : e.slug = a.slug}
             /\ r.state = "CURRENT" => \E y \in r.yields : y.at + YieldFreshFor >= read.began
  <2> DEFINE chosen == CHOOSE y \in mine(a) : TRUE
             state  == IF mine(a) = {} THEN "UNAVAILABLE" ELSE MetricState(chosen, read.began)
             shown  == {y.row : y \in mine(a)}
             risks  == {e \in read.explained : e.slug = a.slug}
  <2>1. RecordOf(q, a) = [slug |-> a.slug, source |-> a.source, yields |-> shown, state |-> state,
                          risks |-> risks]
    BY DEF RecordOf
  <2>2. state \in MetricStates
    BY DEF MetricState, MetricStates
  <2>3. state = "CURRENT" => chosen \in mine(a) /\ ~(read.began - chosen.row.at > YieldFreshFor)
    BY DEF MetricState
  <2>4. state = "CURRENT" => \E y \in shown : y.at + YieldFreshFor >= read.began
    <3> SUFFICES ASSUME state = "CURRENT" PROVE chosen.row \in shown /\ chosen.row.at + YieldFreshFor >= read.began
      OBVIOUS
    <3> HIDE DEF chosen, state
    <3>1. chosen \in mine(a) /\ ~(read.began - chosen.row.at > YieldFreshFor)
      BY <2>3
    <3>2. chosen.row.at \in Int
      BY <1>1, <3>1
    <3> QED
      BY <1>1, <3>1, <3>2
  <2>5. shown \subseteq YieldRows /\ risks \subseteq CompositeRows
    BY <1>1
  <2> HIDE DEF state, shown, risks
  <2>6. RecordOf(q, a) \in Records
    BY <1>1, <2>1, <2>2, <2>5 DEF Records
  <2>7. /\ RecordOf(q, a).slug = a.slug /\ RecordOf(q, a).source = a.source
        /\ RecordOf(q, a).yields = shown /\ RecordOf(q, a).risks = risks
        /\ RecordOf(q, a).state = state
    BY <2>1
  <2> QED
    BY <2>4, <2>6, <2>7 DEF shown, risks
<1>3. ASSUME NEW s \in BundledSlugs \ read.controlled
      PROVE  LET r == BundledRecord(s) IN
             /\ r \in Records /\ r.slug = s /\ r.source = NoneShown /\ r.yields = {} /\ r.risks = {}
             /\ r.state # "CURRENT"
  BY DEF BundledRecord, Records, MetricStates
<1>4. \A r \in catalog : (\E a \in read.admitted : r = RecordOf(q, a))
                         \/ (\E s \in BundledSlugs \ read.controlled : r = BundledRecord(s))
  BY DEF Merged
<1>5. catalog \subseteq Records
  BY <1>2, <1>3, <1>4
<1> HIDE DEF catalog
<1>6. model \in Models
  BY <1>1, <1>5 DEF Models
<1>7. ASSUME NEW r \in catalog
      PROVE  /\ lastListed[r.slug] >= read.began
             /\ r.source = NoneShown \/ lastAdmissible[r.source] >= read.began
             /\ \A y \in r.yields : lastAdmissible[y.source] >= read.began
             /\ \A risk \in r.risks : risk.methodology = read.methodology
                  /\ \A e \in risk.sources : lastAdmissible[e] >= read.began
             /\ r.state = "CURRENT" => \E y \in r.yields : y.at + YieldFreshFor >= read.began
  <2>1. CASE \E a \in read.admitted : r = RecordOf(q, a)
    <3>1. PICK a \in read.admitted : r = RecordOf(q, a)
      BY <2>1
    <3>2. lastListed[a.slug] >= read.began /\ lastAdmissible[a.source] >= read.began
      BY DEF ReadOK
    <3>3. \A y \in read.yields : lastAdmissible[y.row.source] >= read.began
      BY DEF ReadOK
    <3>4. \A risk \in read.explained : risk.methodology = read.methodology
            /\ \A e \in risk.sources : lastAdmissible[e] >= read.began
      BY DEF ReadOK
    <3> QED
      BY <1>2, <3>1, <3>2, <3>3, <3>4
  <2>2. CASE \E s \in BundledSlugs \ read.controlled : r = BundledRecord(s)
    <3>1. PICK s \in BundledSlugs \ read.controlled : r = BundledRecord(s)
      BY <2>2
    <3>2. lastListed[s] >= read.began
      BY DEF ReadOK
    <3> QED
      BY <1>3, <3>1, <3>2
  <2> QED
    BY <1>4, <2>1, <2>2
<1>8. Supported(model, read.began, lastListed, lastAdmissible)
  BY <1>7 DEF Supported
<1> QED
  BY <1>6, <1>8 DEF catalog

LEMMA BuildStep ==
  ASSUME ReadModelInv, NEW q \in PageRequests, Build(q) \/ LoadFails(q)
  PROVE  ReadModelInv'
<1> USE Constants
<1>1. /\ reads[q] \in Reads /\ reads[q].began <= readNow /\ reads[q].began \in ReadTimes
      /\ reads[q].began \in 0 .. ReadHorizon
      /\ ReadOK(reads[q], lastListed, lastAdmissible, listings)
  BY DEF ReadModelInv, ReadsInv, Reads, ReadTimes
<1>2. ASSUME NEW model \in Models, NEW lifetime \in Nat, lifetime <= CacheLifetime,
             Answer(q, model), UNCHANGED databaseVars,
             readCache' = [until |-> reads[q].began + lifetime, model |-> model],
             model.state = "HEALTHY" => lifetime = CacheLifetime /\
               Supported(model, reads[q].began, lastListed, lastAdmissible)
      PROVE  ReadModelInv'
  <2> DEFINE read == [NoRead EXCEPT !.step = "ANSWERED", !.began = reads[q].began, !.answer = model]
  <2>1. reads' = [reads EXCEPT ![q] = read]
    BY <1>2 DEF Answer
  <2>2. /\ read \in Reads /\ read.step = "ANSWERED" /\ read.began = reads[q].began /\ read.listed = {}
        /\ read.admitted = {} /\ read.yields = {} /\ read.risks = {} /\ read.explained = {}
        /\ read.answer = model
    BY <1>1, NoReadFacts DEF Reads
  <2>3. /\ lastListed \in [Slugs -> Seen] /\ lastAdmissible \in [EvidenceSources -> Seen]
        /\ UNCHANGED <<lastListed, lastAdmissible>>
    BY <1>2 DEF ReadModelInv, DatabaseType, databaseVars
  <2> HIDE DEF read
  <2>4. model.state = "HEALTHY" =>
          Supported(model, read.began + 1 - CacheLifetime, lastListed, lastAdmissible)
    <3>1. reads[q].began \in Int /\ reads[q].began + 1 - CacheLifetime \in Int
          /\ reads[q].began + 1 - CacheLifetime <= reads[q].began
      BY <1>1
    <3> QED
      BY <1>2, <2>2, <2>3, <3>1, SupportedEarlier
  <2>5. ReadOK(read, lastListed, lastAdmissible, listings)
    BY <2>2, <2>4, AnswerOK
  <2>6. readCache'.until = reads[q].began + lifetime /\ readCache'.model = model
    BY <1>2
  <2>7. readCache' \in [until : 0 .. ReadHorizon + CacheLifetime, model : Models]
    BY <1>1, <1>2
  <2>8. model.state = "HEALTHY" =>
          Supported(model, readCache'.until - CacheLifetime, lastListed', lastAdmissible')
    <3>1. model.state = "HEALTHY" => readCache'.until - CacheLifetime = reads[q].began
      BY <1>1, <1>2, <2>6
    <3> QED
      BY <1>2, <2>3, <3>1
  <2>9. CacheInv'
    BY <2>6, <2>7, <2>8 DEF CacheInv
  <2>10. read.began <= readNow
    BY <1>1, <2>2
  <2> QED
    BY <1>2, <2>1, <2>2, <2>5, <2>9, <2>10, ReadHandler
<1>3. CASE Build(q)
  <2> DEFINE model == [state |-> "HEALTHY", methodology |-> reads[q].methodology,
                       catalog |-> Merged({RecordOf(q, a) : a \in reads[q].admitted},
                                          reads[q].controlled)]
  <2>1. /\ reads[q].step = "BUILD" /\ Answer(q, model) /\ UNCHANGED databaseVars
        /\ readCache' = [until |-> reads[q].began + CacheLifetime, model |-> model]
    BY <1>3 DEF Build
  <2>2. model \in Models /\ Supported(model, reads[q].began, lastListed, lastAdmissible)
    BY <1>1, <2>1, BuiltModel
  <2> HIDE DEF model
  <2> QED
    BY <1>2, <2>1, <2>2
<1>4. CASE LoadFails(q)
  <2> DEFINE model == [state |-> "UNAVAILABLE", methodology |-> 0,
                       catalog |-> {BundledRecord(s) : s \in BundledSlugs}]
  <2>1. /\ Answer(q, model) /\ UNCHANGED databaseVars
        /\ readCache' = [until |-> reads[q].began + FailureLifetime, model |-> model]
    BY <1>4 DEF LoadFails
  <2>2. \A s \in BundledSlugs : BundledRecord(s) \in Records
    BY DEF BundledRecord, Records, MetricStates
  <2>3. model \in Models /\ model.state # "HEALTHY"
    BY <2>2 DEF Models
  <2> HIDE DEF model
  <2> QED
    BY <1>2, <2>1, <2>3
<1> QED
  BY <1>3, <1>4

LEMMA ReadModelInitInv == ReadModelInit => ReadModelInv
<1> SUFFICES ASSUME ReadModelInit PROVE ReadModelInv
  OBVIOUS
<1> USE Constants
<1>1. DatabaseType
  BY InitialSnapshots DEF ReadModelInit, DatabaseType, Listings, NotListed, Seen, ReadTimes, NotEver
<1>2. WitnessInv
  BY DEF ReadModelInit, WitnessInv, NotListed, NotEver
<1>3. reads \in [PageRequests -> Reads] /\ ReadsInv
  <2>1. \A q \in PageRequests : reads[q] = NoRead
    BY DEF ReadModelInit
  <2>2. NoRead.step = "IDLE" /\ NoRead.began = 0 /\ readNow = 0
    BY DEF NoRead, ReadModelInit
  <2>3. ReadOK(NoRead, lastListed, lastAdmissible, listings)
    BY <2>2, NoReadFacts, AnswerOK
  <2> QED
    BY <2>1, <2>2, <2>3, NoReadFacts DEF ReadModelInit, ReadsInv
<1>4. CacheInv
  BY NoReadFacts DEF ReadModelInit, CacheInv
<1> QED
  BY <1>1, <1>2, <1>3, <1>4 DEF ReadModelInv

LEMMA ReadModelStep ==
  ASSUME ReadModelInv, [ReadModelNext]_readVars
  PROVE  ReadModelInv'
<1>1. CASE UNCHANGED readVars
  BY <1>1 DEF readVars, databaseVars, ReadModelInv, DatabaseType, WitnessInv, PublishedSource,
       ReadsInv, CacheInv
<1> QED
  BY <1>1, TickStep, ChangeStep, RequestStep, LoadStep, BuildStep DEF ReadModelNext

-----------------------------------------------------------------------------
(* The theorems.                                                           *)

THEOREM ReadModelInductive == ReadModelSpec => []ReadModelInv
  BY ReadModelInitInv, ReadModelStep, PTL DEF ReadModelSpec

(* The variables of the read model have their types.                       *)
THEOREM ReadModelTyped == ReadModelSpec => []ReadModelTypeOK
<1>1. ReadModelInv => ReadModelTypeOK
  BY Constants DEF ReadModelInv, ReadModelTypeOK, DatabaseType, CacheInv, Listings, Reads, Models, Seen
<1> QED
  BY <1>1, ReadModelInductive, PTL

(* However slow loads are, and however they overlap with each other and    *)
(* with the changes of administrators, what is shown from a database that  *)
(* could be read was published, admissible, fresh and of one methodology   *)
(* less than the lifetime of the cache before it was asked for.            *)
THEOREM ShownWasSupported == ReadModelSpec => []ShownIsSupported
<1>1. ASSUME ReadModelInv PROVE ShownIsSupported
  <2> SUFFICES ASSUME NEW q \in Answered, NEW r \in reads[q].answer.catalog
               PROVE  LET recent(time) == time > reads[q].began - CacheLifetime IN
                      /\ recent(lastListed[r.slug])
                      /\ r.source = NoneShown \/ recent(lastAdmissible[r.source])
                      /\ \A y \in r.yields : recent(lastAdmissible[y.source])
                      /\ \A risk \in r.risks : \A e \in risk.sources : recent(lastAdmissible[e])
                      /\ r.state = "CURRENT" =>
                           \E y \in r.yields : reads[q].began - y.at < YieldFreshFor + CacheLifetime
                      /\ \A risk \in r.risks : risk.methodology = reads[q].answer.methodology
    BY DEF ShownIsSupported, NothingOutlivesItsEvidence, CurrentMeansFresh, ScoresAreComparable
  <2>1. /\ q \in PageRequests /\ reads[q].answer.state = "HEALTHY" /\ reads[q] \in Reads
        /\ ReadOK(reads[q], lastListed, lastAdmissible, listings)
    BY <1>1 DEF Answered, ReadModelInv, ReadsInv
  <2> DEFINE since == reads[q].began + 1 - CacheLifetime
  <2>2. Supported(reads[q].answer, since, lastListed, lastAdmissible)
    BY <2>1 DEF ReadOK
  <2>3. reads[q].began \in Int /\ r \in Records
    BY <2>1 DEF Reads, Models, ReadTimes
  <2>4. /\ r.slug \in Slugs /\ r.source \in EvidenceSources \cup {NoneShown}
        /\ \A y \in r.yields : y.source \in EvidenceSources /\ y.at \in Int
        /\ \A risk \in r.risks : risk.sources \subseteq EvidenceSources
    BY <2>3 DEF Records, YieldRows, CompositeRows, ReadTimes
  <2>5. /\ \A s \in Slugs : lastListed[s] \in Int
        /\ \A e \in EvidenceSources : lastAdmissible[e] \in Int
    BY <1>1, Constants DEF ReadModelInv, DatabaseType, Seen, ReadTimes, NotEver
  <2>6. \A time \in Int : time >= since => time > reads[q].began - CacheLifetime
    BY <2>3, Constants
  <2>7. \A at \in Int : at + YieldFreshFor >= since => reads[q].began - at < YieldFreshFor + CacheLifetime
    BY <2>3, Constants
  <2> HIDE DEF since
  <2> QED
    BY <2>2, <2>4, <2>5, <2>6, <2>7 DEF Supported
<1> QED
  BY <1>1, ReadModelInductive, PTL

-----------------------------------------------------------------------------
(* The watchlist.                                                          *)

Watches ==
  [step : {"NONE", "RESOLVED", "LISTING", "LISTED", "WATCHED", "FAILED", "REMOVING"},
   version : RouteVersions]

(* At most one request inserts the list, and only while there is none.     *)
WatchlistInv ==
  /\ WatchlistTypeOK
  /\ watchlist \in [exists : BOOLEAN, watched : SUBSET RouteVersions]
  /\ \A t \in Watchers :
       /\ watchers[t].step = "LISTED" => watchlist.exists
       /\ watchers[t].step = "LISTING" =>
            ~watchlist.exists /\ \A u \in Watchers \ {t} : watchers[u].step # "LISTING"
       /\ watchers[t].step # "FAILED"

LEMMA WatchlistInitInv == WatchlistInit => WatchlistInv
  BY WatchlistConstants
     DEF WatchlistInit, WatchlistInv, WatchlistTypeOK, RouteVersions, NoWatch

LEMMA WatchlistStep ==
  ASSUME WatchlistInv, [WatchlistNext]_watchVars
  PROVE  WatchlistInv'
<1> USE WatchlistConstants DEF WatchlistInv, WatchlistTypeOK, RouteVersions
<1>1. CASE PublishNextVersion
  BY <1>1 DEF PublishNextVersion
<1>2. ASSUME NEW t \in Watchers, RequestWatch(t) PROVE WatchlistInv'
  BY <1>2 DEF RequestWatch
<1>3. ASSUME NEW t \in Watchers, CreateList(t) PROVE WatchlistInv'
  BY <1>3 DEF CreateList, WatchStep
<1>4. ASSUME NEW t \in Watchers, CommitWatch(t) PROVE WatchlistInv'
  <2>1. watchers[t].step \in {"LISTED", "LISTING"}
    BY <1>4 DEF CommitWatch
  <2>2. ~(watchers[t].step = "LISTING" /\ watchlist.exists)
    OBVIOUS
  <2>3. /\ watchlist' = [exists |-> TRUE, watched |-> watchlist.watched \cup {watchers[t].version}]
        /\ watchers' = [watchers EXCEPT ![t].step = "WATCHED"] /\ UNCHANGED routeVersion
    BY <1>4, <2>2 DEF CommitWatch, WatchStep
  <2>4. \A u \in Watchers \ {t} : watchers[u].step # "LISTING"
    BY <2>1
  <2> QED
    BY <2>3, <2>4
<1>5. ASSUME NEW t \in Watchers, AbortWatch(t) PROVE WatchlistInv'
  BY <1>5 DEF AbortWatch, WatchStep
<1>6. ASSUME NEW t \in Watchers, FindWatched(t) PROVE WatchlistInv'
  BY <1>6 DEF FindWatched
<1>7. ASSUME NEW t \in Watchers, Unwatch(t) PROVE WatchlistInv'
  BY <1>7 DEF Unwatch, WatchStep
<1>8. ASSUME NEW t \in Watchers, WatchAnswered(t) PROVE WatchlistInv'
  BY <1>8 DEF WatchAnswered, WatchStep
<1>9. CASE UNCHANGED watchVars
  BY <1>9 DEF watchVars
<1> QED
  BY <1>1, <1>2, <1>3, <1>4, <1>5, <1>6, <1>7, <1>8, <1>9 DEF WatchlistNext

-----------------------------------------------------------------------------
(* Saved comparisons.                                                      *)

SaveTabs ==
  [step : {"NONE", "CREATE", "RESOLVED", "OWNED", "UPDATED", "DELETING", "DELETED"},
   request : 0 .. MaxSaveRequests, locks : BOOLEAN, deleting : SUBSET Items]

Whole(rows) == rows = {} \/ \E n \in 1 .. Len(asked) : rows = ItemsOf(n)

(* What is stored, and what a transaction deletes, is nothing or the list  *)
(* of one request.  Lists of two requests have no item in common, so that  *)
(* a part of one never remains; and both have an item at the first place,  *)
(* so that they are never stored together.                                 *)
SavedInv ==
  /\ SavedTypeOK
  /\ asked \in Seq(Lists)
  /\ tabs \in [Tabs -> SaveTabs]
  /\ Whole(items)
  /\ \A t \in Tabs :
       /\ Whole(tabs[t].deleting)
       /\ tabs[t].step # "NONE" => tabs[t].request # 0

(* The items of a request.                                                 *)
LEMMA ItemsOfFacts ==
  ASSUME asked \in Seq(Lists), Len(asked) <= MaxSaveRequests, NEW n \in 1 .. Len(asked)
  PROVE  /\ ItemsOf(n) \subseteq Items
         /\ \A row \in ItemsOf(n) : row.by = n
         /\ \E row \in ItemsOf(n) : row.position = 1
<1>1. asked[n] \in Lists
  OBVIOUS
<1>2. asked[n] \in Seq(Savable) /\ Len(asked[n]) \in 2 .. 5
  BY <1>1, SavedResearchConstants
<1>3. ItemsOf(n) = {[position |-> i, route |-> asked[n][i], by |-> n] : i \in 1 .. Len(asked[n])}
  BY DEF ItemsOf
<1>4. n \in SaveRequests
  BY SavedResearchConstants DEF SaveRequests
<1> DEFINE first == [position |-> 1, route |-> asked[n][1], by |-> n]
<1>5. first \in ItemsOf(n) /\ first.position = 1
  BY <1>2, <1>3
<1> QED
  BY <1>2, <1>3, <1>4, <1>5 DEF Items

(* A request to come has no effect on the lists of those there were.       *)
LEMMA WholeKept ==
  ASSUME asked \in Seq(Lists), NEW list \in Lists, asked' = Append(asked, list), NEW rows, Whole(rows)
  PROVE  rows = {} \/ \E n \in 1 .. Len(asked') : rows = ItemsOf(n)'
<1>1. \A n \in 1 .. Len(asked) : n \in 1 .. Len(asked') /\ asked'[n] = asked[n]
  OBVIOUS
<1> QED
  BY <1>1 DEF Whole, ItemsOf

LEMMA WholeType ==
  ASSUME asked \in Seq(Lists), Len(asked) <= MaxSaveRequests, NEW rows, Whole(rows)
  PROVE  rows \subseteq Items
  BY ItemsOfFacts DEF Whole

LEMMA SavedInitInv == SavedInit => SavedInv
<1> SUFFICES ASSUME SavedInit PROVE SavedInv
  OBVIOUS
<1>1. asked \in Seq(Lists) /\ Len(asked) = 0
  BY DEF SavedInit
<1>2. tabs \in [Tabs -> SaveTabs]
  BY SavedResearchConstants DEF SavedInit, NoTab, SaveTabs
<1> QED
  BY <1>1, <1>2, SavedResearchConstants DEF SavedInit, SavedInv, SavedTypeOK, Whole, NoTab

(* What a tab that moves must keep, while no request is added.             *)
LEMMA SavedHandler ==
  ASSUME SavedInv, NEW t \in Tabs, NEW tab \in SaveTabs,
         tabs' = [tabs EXCEPT ![t] = tab], UNCHANGED <<savable, asked>>,
         comparison' \in {"ABSENT", "SAVED", "ARCHIVED"},
         Whole(items'), Whole(tab.deleting),
         tab.step # "NONE" => tab.request # 0, tab.request <= Len(asked)
  PROVE  SavedInv'
<1>1. tabs' \in [Tabs -> SaveTabs]
  BY DEF SavedInv
<1>2. \A u \in Tabs : tabs'[u] = IF u = t THEN tab ELSE tabs[u]
  BY DEF SavedInv
<1>3. items' \subseteq Items
  BY WholeType DEF SavedInv, SavedTypeOK
<1>4. \A u \in Tabs :
        /\ Whole(tabs'[u].deleting)
        /\ tabs'[u].step # "NONE" => tabs'[u].request # 0
        /\ tabs'[u].request <= Len(asked)
  BY <1>2 DEF SavedInv, SavedTypeOK, SaveTabs
<1>5. Whole(items)' /\ \A u \in Tabs : Whole(tabs[u].deleting)'
  BY <1>4 DEF Whole, ItemsOf
<1>6. SavedTypeOK'
  BY <1>1, <1>3, <1>4 DEF SavedInv, SavedTypeOK, SaveTabs
<1> QED
  BY <1>1, <1>4, <1>5, <1>6 DEF SavedInv

LEMMA SavedStep ==
  ASSUME SavedInv, [SavedNext]_savedVars
  PROVE  SavedInv'
<1> USE SavedResearchConstants
<1>13. /\ savable \subseteq Savable /\ comparison \in {"ABSENT", "SAVED", "ARCHIVED"}
       /\ asked \in Seq(Lists) /\ Len(asked) \in Nat /\ Len(asked) <= MaxSaveRequests
       /\ items \subseteq Items
  BY DEF SavedInv, SavedTypeOK
<1>14. \A n \in 1 .. Len(asked) :
         /\ \A row \in ItemsOf(n) : row.by = n
         /\ \E row \in ItemsOf(n) : row.position = 1
  BY <1>13, ItemsOfFacts
<1>15. ASSUME UNCHANGED <<items, asked, tabs>>, savable' \subseteq Savable,
              comparison' \in {"ABSENT", "SAVED", "ARCHIVED"}
       PROVE  SavedInv'
  <2>1. \A rows : Whole(rows) => rows = {} \/ \E n \in 1 .. Len(asked') : rows = ItemsOf(n)'
    BY <1>15 DEF Whole, ItemsOf
  <2>2. Whole(items)' /\ \A t \in Tabs : Whole(tabs[t].deleting)'
    BY <1>15, <2>1 DEF Whole, SavedInv
  <2> QED
    BY <1>15, <2>2 DEF SavedInv, SavedTypeOK
<1>1. ASSUME NEW r \in Savable, Withdraw(r) PROVE SavedInv'
  BY <1>1, <1>13, <1>15 DEF Withdraw
<1>2. ASSUME NEW t \in Tabs, NEW list \in Lists, Resolve(t, list) PROVE SavedInv'
  <2> DEFINE tab == [NoTab EXCEPT !.step = IF comparison = "ABSENT" THEN "CREATE" ELSE "RESOLVED",
                                  !.request = Len(asked')]
  <2>1. /\ asked' = Append(asked, list) /\ Len(asked) < MaxSaveRequests
        /\ tabs' = [tabs EXCEPT ![t] = tab] /\ UNCHANGED <<savable, comparison, items>>
    BY <1>2 DEF Resolve
  <2>2. /\ tab.step \in {"CREATE", "RESOLVED"} /\ tab.request = Len(asked')
        /\ tab.locks = FALSE /\ tab.deleting = {}
        /\ DOMAIN tab = {"step", "request", "locks", "deleting"}
    BY DEF NoTab
  <2>3. asked' \in Seq(Lists) /\ Len(asked') = Len(asked) + 1 /\ Len(asked') \in 1 .. MaxSaveRequests
    BY <2>1 DEF SavedInv
  <2> DEFINE step == IF comparison = "ABSENT" THEN "CREATE" ELSE "RESOLVED"
             number == Len(asked')
  <2>10. tab = [NoTab EXCEPT !.step = step, !.request = number]
    OBVIOUS
  <2>11. step \in {"CREATE", "RESOLVED"} /\ number \in 0 .. MaxSaveRequests
    BY <2>3
  <2> HIDE DEF tab, step, number
  <2>4. tab \in SaveTabs
    BY <2>10, <2>11 DEF NoTab, SaveTabs
  <2> HIDE DEF tab
  <2>5. tabs' \in [Tabs -> SaveTabs] /\ \A u \in Tabs : tabs'[u] = IF u = t THEN tab ELSE tabs[u]
    BY <2>1, <2>4 DEF SavedInv
  <2>6. \A rows : Whole(rows) => rows = {} \/ \E n \in 1 .. Len(asked') : rows = ItemsOf(n)'
    BY <2>1, WholeKept DEF SavedInv
  <2>7. Whole(items)' /\ \A u \in Tabs : Whole(tabs[u].deleting)'
    BY <2>1, <2>2, <2>5, <2>6 DEF SavedInv, Whole
  <2>8. \A u \in Tabs : tabs'[u].request \in 0 .. Len(asked')
                         /\ (tabs'[u].step # "NONE" => tabs'[u].request # 0)
    BY <2>2, <2>3, <2>5 DEF SavedInv, SavedTypeOK
  <2>9. SavedTypeOK'
    BY <2>1, <2>3, <2>5, <2>8 DEF SavedInv, SavedTypeOK, SaveTabs
  <2> QED
    BY <2>3, <2>5, <2>7, <2>8, <2>9 DEF SavedInv
<1>3. ASSUME NEW t \in Tabs PROVE /\ tabs[t] \in SaveTabs /\ tabs[t].request \in 0 .. Len(asked)
                                  /\ Whole(tabs[t].deleting) /\ Whole(items)
                                  /\ tabs[t].step # "NONE" => tabs[t].request # 0
  BY DEF SavedInv, SavedTypeOK
<1>16. UNCHANGED items => Whole(items')
  BY DEF SavedInv, Whole
<1>17. ASSUME NEW t \in Tabs, NEW tab \in SaveTabs, tabs' = [tabs EXCEPT ![t] = tab],
              UNCHANGED <<savable, comparison, items, asked>>, Whole(tab.deleting),
              tabs[t].step # "NONE", tab.request = tabs[t].request
       PROVE  SavedInv'
  <2>1. Whole(items') /\ comparison' \in {"ABSENT", "SAVED", "ARCHIVED"}
    BY <1>13, <1>16, <1>17
  <2>2. tab.request # 0 /\ tab.request <= Len(asked)
    BY <1>3, <1>13, <1>17
  <2> QED
    BY <1>17, <2>1, <2>2, SavedHandler
<1>4. NoTab \in SaveTabs /\ NoTab.step = "NONE" /\ NoTab.request = 0 /\ Whole(NoTab.deleting)
  BY DEF NoTab, SaveTabs, Whole
<1>5. ASSUME NEW t \in Tabs, CreateComparison(t) PROVE SavedInv'
  <2>1. /\ tabs' = [tabs EXCEPT ![t] = NoTab] /\ UNCHANGED <<savable, asked>>
        /\ comparison' = "SAVED" /\ items' = ItemsOf(tabs[t].request) /\ tabs[t].step # "NONE"
    BY <1>5 DEF CreateComparison, Done
  <2>2. Whole(items')
    BY <1>3, <2>1 DEF Whole
  <2>3. NoTab.request <= Len(asked) /\ comparison' \in {"ABSENT", "SAVED", "ARCHIVED"}
    BY <1>4, <1>13, <2>1
  <2> QED
    BY <1>4, <2>1, <2>2, <2>3, SavedHandler
<1>6. ASSUME NEW t \in Tabs, FindOwned(t) PROVE SavedInv'
  <2> DEFINE tab == [tabs[t] EXCEPT !.step = "OWNED"]
  <2>1. /\ tabs' = [tabs EXCEPT ![t] = tab] /\ UNCHANGED <<savable, comparison, items, asked>>
        /\ tabs[t].step # "NONE"
    BY <1>6 DEF FindOwned, SaveStep
  <2>2. tab \in SaveTabs /\ tab.request = tabs[t].request /\ tab.deleting = tabs[t].deleting
    BY <1>3 DEF SaveTabs
  <2> HIDE DEF tab
  <2> QED
    BY <1>3, <1>17, <2>1, <2>2
<1>7. ASSUME NEW t \in Tabs, UpdateComparison(t) PROVE SavedInv'
  <2> DEFINE locks == comparison = "SAVED"
             tab   == [tabs[t] EXCEPT !.step = "UPDATED", !.locks = locks]
  <2>1. /\ tabs' = [tabs EXCEPT ![t] = tab] /\ UNCHANGED <<savable, comparison, items, asked>>
        /\ tabs[t].step # "NONE"
    BY <1>7 DEF UpdateComparison, SaveStep
  <2>3. locks \in BOOLEAN
    OBVIOUS
  <2> HIDE DEF locks
  <2>2. tab \in SaveTabs /\ tab.request = tabs[t].request /\ tab.deleting = tabs[t].deleting
    BY <1>3, <2>3 DEF SaveTabs
  <2> HIDE DEF tab
  <2> QED
    BY <1>3, <1>17, <2>1, <2>2
<1>8. ASSUME NEW t \in Tabs, BeginDelete(t) PROVE SavedInv'
  <2> DEFINE tab == [tabs[t] EXCEPT !.step = "DELETING", !.deleting = items]
  <2>1. /\ tabs' = [tabs EXCEPT ![t] = tab] /\ UNCHANGED <<savable, comparison, items, asked>>
        /\ tabs[t].step # "NONE"
    BY <1>8 DEF BeginDelete, SaveStep
  <2>2. tab \in SaveTabs /\ tab.request = tabs[t].request /\ tab.deleting = items
    BY <1>3 DEF SaveTabs, SavedInv, SavedTypeOK
  <2> HIDE DEF tab
  <2> QED
    BY <1>3, <1>17, <2>1, <2>2
<1>9. ASSUME NEW t \in Tabs, EndDelete(t) PROVE SavedInv'
  <2> DEFINE deleting == tabs[t].deleting \cap items
             tab      == [tabs[t] EXCEPT !.step = "DELETED", !.deleting = deleting]
  <2>1. /\ tabs' = [tabs EXCEPT ![t] = tab] /\ UNCHANGED <<savable, comparison, items, asked>>
        /\ tabs[t].step # "NONE"
    BY <1>9 DEF EndDelete, SaveStep
  <2>3. Whole(deleting)
    <3>1. ASSUME NEW m \in 1 .. Len(asked), NEW n \in 1 .. Len(asked)
          PROVE  Whole(ItemsOf(m) \cap ItemsOf(n))
      <4>1. CASE m = n
        BY <4>1 DEF Whole
      <4>2. CASE m # n
        <5>1. ItemsOf(m) \cap ItemsOf(n) = {}
          BY <1>14, <4>2
        <5> QED
          BY <5>1 DEF Whole
      <4> QED
        BY <4>1, <4>2
    <3>2. Whole(tabs[t].deleting) /\ Whole(items)
      BY DEF SavedInv
    <3>3. CASE tabs[t].deleting = {} \/ items = {}
      <4>1. deleting = {}
        BY <3>3
      <4> QED
        BY <4>1 DEF Whole
    <3>4. CASE tabs[t].deleting # {} /\ items # {}
      <4>1. PICK m \in 1 .. Len(asked), n \in 1 .. Len(asked) :
              tabs[t].deleting = ItemsOf(m) /\ items = ItemsOf(n)
        BY <3>2, <3>4 DEF Whole
      <4>2. deleting = ItemsOf(m) \cap ItemsOf(n)
        BY <4>1
      <4> HIDE DEF deleting
      <4> QED
        BY <3>1, <4>2
    <3> QED
      BY <3>3, <3>4
  <2>4. deleting \subseteq Items
    BY DEF SavedInv, SavedTypeOK
  <2> HIDE DEF deleting
  <2>2. tab \in SaveTabs /\ tab.request = tabs[t].request /\ tab.deleting = deleting
    BY <1>3, <2>4 DEF SaveTabs
  <2> HIDE DEF tab
  <2> QED
    BY <1>3, <1>17, <2>1, <2>2, <2>3
<1>10. ASSUME NEW t \in Tabs, CommitItems(t) PROVE SavedInv'
  <2> DEFINE kept == items \ tabs[t].deleting
             mine  == ItemsOf(tabs[t].request)
  <2>1. /\ tabs' = [tabs EXCEPT ![t] = NoTab] /\ UNCHANGED <<savable, comparison, asked>>
        /\ items' = kept \cup mine /\ UniqueItems(kept \cup mine) /\ tabs[t].step # "NONE"
    BY <1>10 DEF CommitItems, Done
  <2>2. tabs[t].request \in 1 .. Len(asked)
    BY <1>3, <2>1
  <2>3. Whole(kept)
    <3>1. ASSUME NEW m \in 1 .. Len(asked), NEW n \in 1 .. Len(asked)
          PROVE  Whole(ItemsOf(m) \ ItemsOf(n))
      <4>1. CASE m = n
        BY <4>1 DEF Whole
      <4>2. CASE m # n
        <5>1. ItemsOf(m) \ ItemsOf(n) = ItemsOf(m)
          BY <1>14, <4>2
        <5> QED
          BY <5>1 DEF Whole
      <4> QED
        BY <4>1, <4>2
    <3>2. CASE tabs[t].deleting = {}
      <4>1. kept = items
        BY <3>2
      <4> QED
        BY <1>3, <4>1
    <3>3. CASE items = {}
      BY <3>3 DEF Whole
    <3>4. \/ items = {} \/ tabs[t].deleting = {}
          \/ \E m \in 1 .. Len(asked), n \in 1 .. Len(asked) :
               items = ItemsOf(m) /\ tabs[t].deleting = ItemsOf(n)
      BY <1>3 DEF Whole
    <3> QED
      BY <3>1, <3>2, <3>3, <3>4
  <2>4. items' = mine
    <3>1. CASE kept = {}
      BY <2>1, <3>1
    <3> HIDE DEF kept, mine
    <3>2. ASSUME NEW m \in 1 .. Len(asked), kept = ItemsOf(m) PROVE items' = mine
      <4>1. PICK a \in kept : a.position = 1
        BY <1>14, <3>2
      <4>2. PICK b \in mine : b.position = 1
        BY <1>14, <2>2 DEF mine
      <4>3. a = b
        BY <2>1, <4>1, <4>2 DEF UniqueItems
      <4>4. m = tabs[t].request
        BY <1>14, <2>2, <3>2, <4>3 DEF mine
      <4> QED
        BY <2>1, <3>2, <4>4 DEF mine
    <3> QED
      BY <2>3, <3>1, <3>2 DEF Whole
  <2>5. Whole(items')
    BY <2>2, <2>4 DEF Whole
  <2>6. NoTab.request <= Len(asked) /\ comparison' \in {"ABSENT", "SAVED", "ARCHIVED"}
    BY <1>4, <1>13, <2>1
  <2> QED
    BY <1>4, <2>1, <2>5, <2>6, SavedHandler
<1>11. ASSUME NEW t \in Tabs, AbortSave(t) PROVE SavedInv'
  <2>1. tabs' = [tabs EXCEPT ![t] = NoTab] /\ UNCHANGED <<savable, comparison, items, asked>>
    BY <1>11 DEF AbortSave, Done
  <2>2. Whole(items')
    BY <1>16, <2>1
  <2>3. comparison' \in {"ABSENT", "SAVED", "ARCHIVED"}
    BY <1>13, <2>1
  <2>4. NoTab.step # "NONE" => NoTab.request # 0
    BY <1>4
  <2>5. NoTab.request <= Len(asked)
    BY <1>4, <1>13
  <2> QED
    BY <1>4, <2>1, <2>2, <2>3, <2>4, <2>5, SavedHandler
<1>12. CASE ArchiveComparison \/ UNCHANGED savedVars
  BY <1>12, <1>13, <1>15 DEF ArchiveComparison, savedVars
<1> QED
  BY <1>1, <1>2, <1>5, <1>6, <1>7, <1>8, <1>9, <1>10, <1>11, <1>12 DEF SavedNext

-----------------------------------------------------------------------------
(* Rules and destinations.                                                 *)

SessionRequests ==
  [step : {"NONE", "CHECKED", "FOUND", "CREATING"}, user : Subscribers \cup {NoUser},
   channel : Channels, found : 0 .. MaxDestinations]

SameRow(d, e) == d.number = e.number /\ d.owner = e.owner /\ d.channel = e.channel /\ d.hash = e.hash

(* Destinations are numbered as they are created, and an address of a user *)
(* has one row.                                                            *)
DestinationsInv ==
  /\ destinations \subseteq DestinationRows
  /\ IsFiniteSet(destinations) /\ Cardinality(destinations) <= MaxDestinations
  /\ \A d \in destinations : d.number <= Cardinality(destinations)
  /\ \A d, e \in destinations : d.number = e.number => d = e
  /\ \A d, e \in destinations : d.owner = e.owner /\ d.hash = e.hash /\ d.hash # NoHash => d = e

LinkedTo(rows, number, owner, channel) ==
  \E d \in rows : d.number = number /\ d.owner = owner /\ d.channel = channel

(* Rules are linked to a row of their user and channel, which is what a    *)
(* request has found, and looked for.                                      *)
SubscriptionsInv ==
  /\ DestinationsInv
  /\ subscriptions \subseteq Subscriptions /\ IsFiniteSet(subscriptions)
  /\ requests \in [Sessions -> SessionRequests]
  /\ \A r \in subscriptions : LinkedTo(destinations, r.destination, r.owner, r.channel)
  /\ \A s \in Sessions :
       /\ requests[s].step # "NONE" => requests[s].user \in Subscribers
       /\ requests[s].step = "CREATING" => requests[s].channel = InApp
       /\ requests[s].step = "FOUND" =>
            LinkedTo(destinations, requests[s].found, requests[s].user, requests[s].channel)

(* A row replaced by one that differs in what it says of itself only.      *)
LEMMA ReplaceRow ==
  ASSUME NEW S, IsFiniteSet(S), NEW d \in S, NEW e, e \notin S
  PROVE  IsFiniteSet((S \ {d}) \cup {e}) /\ Cardinality((S \ {d}) \cup {e}) = Cardinality(S)
<1>1. IsFiniteSet(S \ {d}) /\ Cardinality(S \ {d}) = Cardinality(S) - 1
  BY FS_RemoveElement
<1>2. e \notin S \ {d}
  OBVIOUS
<1>3. /\ IsFiniteSet((S \ {d}) \cup {e})
      /\ Cardinality((S \ {d}) \cup {e}) = Cardinality(S \ {d}) + 1
  BY <1>1, <1>2, FS_AddElement
<1> QED
  BY <1>1, <1>3, FS_CardinalityType

RowsKept == \A d \in destinations : \E e \in destinations' : SameRow(d, e)

LEMMA AddDestination ==
  ASSUME DestinationsInv, NEW row \in DestinationRows, destinations' = destinations \cup {row},
         row.number = Cardinality(destinations) + 1,
         \A d \in destinations : d.owner = row.owner => d.hash # row.hash \/ d.hash = NoHash
  PROVE  DestinationsInv' /\ RowsKept
<1>1. Cardinality(destinations) \in Nat
  BY FS_CardinalityType DEF DestinationsInv
<1>2. \A d \in destinations : d.number \in Nat /\ d.number <= Cardinality(destinations)
  BY DEF DestinationsInv, DestinationRows
<1>3. row \notin destinations
  BY <1>1, <1>2
<1>4. IsFiniteSet(destinations') /\ Cardinality(destinations') = Cardinality(destinations) + 1
  BY <1>3, FS_AddElement DEF DestinationsInv
<1>5. row.number \in 1 .. MaxDestinations
  BY DEF DestinationRows
<1> QED
  <2>1. \A d \in destinations' : d.number <= Cardinality(destinations')
    BY <1>1, <1>2, <1>4
  <2>2. \A d, e \in destinations' : d.number = e.number => d = e
    BY <1>1, <1>2 DEF DestinationsInv
  <2>3. \A d, e \in destinations' : d.owner = e.owner /\ d.hash = e.hash /\ d.hash # NoHash => d = e
    BY DEF DestinationsInv
  <2>4. destinations' \subseteq DestinationRows /\ Cardinality(destinations') <= MaxDestinations
    BY <1>1, <1>4, <1>5, SubscriptionConstants DEF DestinationsInv
  <2>5. RowsKept
    BY DEF RowsKept, SameRow
  <2> QED
    BY <1>4, <2>1, <2>2, <2>3, <2>4, <2>5 DEF DestinationsInv

LEMMA ReplaceDestination ==
  ASSUME DestinationsInv, NEW d \in destinations, NEW b \in BOOLEAN, b # d.disabled,
         destinations' = (destinations \ {d}) \cup {[d EXCEPT !.disabled = b]}
  PROVE  DestinationsInv' /\ RowsKept
<1> DEFINE e == [d EXCEPT !.disabled = b]
<1>1. d \in DestinationRows
  BY DEF DestinationsInv
<1>2. e \in DestinationRows /\ SameRow(d, e) /\ e # d
  BY <1>1 DEF DestinationRows, SameRow
<1> HIDE DEF e
<1>3. e \notin destinations
  BY <1>2 DEF DestinationsInv, SameRow
<1>4. IsFiniteSet(destinations') /\ Cardinality(destinations') = Cardinality(destinations)
  BY <1>3, ReplaceRow DEF DestinationsInv, e
<1>5. destinations' = (destinations \ {d}) \cup {e}
  BY DEF e
<1>6. destinations' \subseteq DestinationRows
  BY <1>2, <1>5 DEF DestinationsInv
<1>12. \A x \in destinations \ {d} : x.number # e.number
  BY <1>2 DEF DestinationsInv, SameRow
<1>13. \A x \in destinations \ {d} : ~(x.owner = e.owner /\ x.hash = e.hash /\ x.hash # NoHash)
  BY <1>2 DEF DestinationsInv, SameRow
<1>7. \A x, y \in destinations' : x.number = y.number => x = y
  BY <1>5, <1>12 DEF DestinationsInv
<1>8. \A x, y \in destinations' : x.owner = y.owner /\ x.hash = y.hash /\ x.hash # NoHash => x = y
  BY <1>5, <1>13 DEF DestinationsInv
<1>9. \A x \in destinations' : x.number <= Cardinality(destinations')
  BY <1>2, <1>4, <1>5 DEF DestinationsInv, SameRow
<1>10. RowsKept
  BY <1>2, <1>5 DEF RowsKept, SameRow
<1> QED
  BY <1>4, <1>6, <1>7, <1>8, <1>9, <1>10 DEF DestinationsInv

LEMMA LinksKept ==
  ASSUME RowsKept, NEW number, NEW owner, NEW channel, LinkedTo(destinations, number, owner, channel)
  PROVE  LinkedTo(destinations', number, owner, channel)
  BY DEF RowsKept, SameRow, LinkedTo

LEMMA SubscriptionsInitInv == SubscriptionsInit => SubscriptionsInv
<1> SUFFICES ASSUME SubscriptionsInit PROVE SubscriptionsInv
  OBVIOUS
<1>1. IsFiniteSet({}) /\ Cardinality({}) = 0
  BY FS_EmptySet
<1>2. requests \in [Sessions -> SessionRequests]
  BY SubscriptionConstants DEF SubscriptionsInit, NoRequest, SessionRequests, Channels
<1> QED
  BY <1>1, <1>2, SubscriptionConstants
     DEF SubscriptionsInit, SubscriptionsInv, DestinationsInv, NoRequest

(* Destinations change, the rules and the requests stay.                   *)
LEMMA DestinationsHandler ==
  ASSUME SubscriptionsInv, DestinationsInv', RowsKept, UNCHANGED <<subscriptions, requests>>
  PROVE  SubscriptionsInv'
<1>1. \A r \in subscriptions' : LinkedTo(destinations', r.destination, r.owner, r.channel)
  BY LinksKept DEF SubscriptionsInv
<1>2. \A s \in Sessions : requests'[s].step = "FOUND" =>
        LinkedTo(destinations', requests[s].found, requests[s].user, requests[s].channel)
  BY LinksKept DEF SubscriptionsInv
<1> QED
  BY <1>1, <1>2 DEF SubscriptionsInv

(* A session moves on, the rules and the destinations stay.                *)
LEMMA SessionHandler ==
  ASSUME SubscriptionsInv, NEW s \in Sessions, NEW r \in SessionRequests,
         requests' = [requests EXCEPT ![s] = r], UNCHANGED <<destinations, subscriptions>>,
         r.step # "NONE" => r.user \in Subscribers,
         r.step = "CREATING" => r.channel = InApp,
         r.step = "FOUND" => LinkedTo(destinations, r.found, r.user, r.channel)
  PROVE  SubscriptionsInv'
<1>1. requests' \in [Sessions -> SessionRequests] /\ \A t \in Sessions :
        requests'[t] = IF t = s THEN r ELSE requests[t]
  BY DEF SubscriptionsInv
<1>2. DestinationsInv'
  BY DEF SubscriptionsInv, DestinationsInv
<1>3. \A t \in Sessions :
       /\ requests'[t].step # "NONE" => requests'[t].user \in Subscribers
       /\ requests'[t].step = "CREATING" => requests'[t].channel = InApp
       /\ requests'[t].step = "FOUND" =>
            LinkedTo(destinations', requests'[t].found, requests'[t].user, requests'[t].channel)
  BY <1>1 DEF SubscriptionsInv
<1> QED
  BY <1>1, <1>2, <1>3 DEF SubscriptionsInv

(* A rule changes, but neither its user nor what it is linked to.          *)
LEMMA ChangeRuleStep ==
  ASSUME SubscriptionsInv, NEW old \in subscriptions, NEW new \in Subscriptions,
         ChangeRule(old, new), new.destination = old.destination, new.owner = old.owner,
         new.channel = old.channel
  PROVE  SubscriptionsInv'
<1>1. subscriptions' = (subscriptions \ {old}) \cup {new} /\ UNCHANGED <<destinations, requests>>
  BY DEF ChangeRule
<1>2. IsFiniteSet(subscriptions')
  BY <1>1, FS_RemoveElement, FS_AddElement DEF SubscriptionsInv
<1>3. DestinationsInv'
  BY <1>1 DEF SubscriptionsInv, DestinationsInv
<1>4. \A r \in subscriptions' : LinkedTo(destinations', r.destination, r.owner, r.channel)
  BY <1>1 DEF SubscriptionsInv
<1> QED
  BY <1>1, <1>2, <1>3, <1>4 DEF SubscriptionsInv

LEMMA SubscriptionsStep ==
  ASSUME SubscriptionsInv, [SubscriptionsNext]_subscriptionVars
  PROVE  SubscriptionsInv'
<1> USE SubscriptionConstants
<1>0. DestinationsInv /\ Cardinality(destinations) \in Nat
  BY FS_CardinalityType DEF SubscriptionsInv, DestinationsInv
<1>1. ASSUME NEW u \in Subscribers, NEW a \in Addresses, StoreDestination(u, a)
      PROVE  SubscriptionsInv'
  <2>1. CASE SameAddress(u, a) = {}
    <3> DEFINE row == [number |-> Cardinality(destinations) + 1, owner |-> u, channel |-> "EMAIL",
                       hash |-> a, disabled |-> FALSE]
    <3>1. /\ Cardinality(destinations) < MaxDestinations /\ destinations' = destinations \cup {row}
          /\ UNCHANGED <<subscriptions, requests>>
      BY <1>1, <2>1 DEF StoreDestination
    <3>2. row \in DestinationRows /\ row.number = Cardinality(destinations) + 1
      BY <1>0, <3>1 DEF DestinationRows, Channels
    <3>3. \A d \in destinations : d.owner = row.owner => d.hash # row.hash
      BY <2>1 DEF SameAddress
    <3> HIDE DEF row
    <3> QED
      BY <1>0, <3>1, <3>2, <3>3, AddDestination, DestinationsHandler
  <2>2. CASE SameAddress(u, a) # {}
    <3>1. PICK d \in destinations : d.owner = u /\ d.hash = a
      BY <2>2 DEF SameAddress
    <3>2. SameAddress(u, a) = {d}
      BY <1>0, <3>1 DEF SameAddress, DestinationsInv
    <3>3. /\ destinations' = {IF x \in SameAddress(u, a) THEN [x EXCEPT !.disabled = FALSE] ELSE x :
                               x \in destinations}
          /\ destinations' # destinations /\ UNCHANGED <<subscriptions, requests>>
      BY <1>1, <2>2 DEF StoreDestination
    <3>4. destinations' = (destinations \ {d}) \cup {[d EXCEPT !.disabled = FALSE]}
      BY <3>2, <3>3
    <3>5. d \in DestinationRows
      BY <1>0 DEF DestinationsInv
    <3>6. d.disabled # FALSE
      <4> SUFFICES ASSUME d.disabled = FALSE PROVE FALSE
        OBVIOUS
      <4>1. [d EXCEPT !.disabled = FALSE] = d
        BY <3>5 DEF DestinationRows
      <4> QED
        BY <3>3, <3>4, <4>1
    <3> QED
      BY <1>0, <3>3, <3>4, <3>6, ReplaceDestination, DestinationsHandler
  <2> QED
    BY <2>1, <2>2
<1>2. ASSUME NEW u \in Subscribers, RemoveDestination(u) PROVE SubscriptionsInv'
  <2>1. PICK d \in destinations :
          ~d.disabled /\ destinations' = (destinations \ {d}) \cup {[d EXCEPT !.disabled = TRUE]}
    BY <1>2 DEF RemoveDestination
  <2>2. UNCHANGED <<subscriptions, requests>>
    BY <1>2 DEF RemoveDestination
  <2> QED
    BY <1>0, <2>1, <2>2, ReplaceDestination, DestinationsHandler
<1>3. ASSUME NEW u \in Subscribers, ArchiveRule(u) PROVE SubscriptionsInv'
  <2>1. PICK r \in subscriptions :
          ChangeRule(r, [r EXCEPT !.archived = TRUE, !.enabled = FALSE, !.unsubscribed = TRUE])
    BY <1>3 DEF ArchiveRule, Changeable
  <2> DEFINE new == [r EXCEPT !.archived = TRUE, !.enabled = FALSE, !.unsubscribed = TRUE]
  <2>2. r \in Subscriptions
    BY DEF SubscriptionsInv
  <2>3. /\ new \in Subscriptions /\ new.destination = r.destination /\ new.owner = r.owner
        /\ new.channel = r.channel
    BY <2>2 DEF Subscriptions
  <2> HIDE DEF new
  <2> QED
    BY <2>1, <2>3, ChangeRuleStep DEF new
<1>4. ASSUME NEW u \in Subscribers, NEW enabled \in BOOLEAN, SetEnabled(u, enabled)
      PROVE  SubscriptionsInv'
  <2>1. PICK r \in subscriptions :
          ChangeRule(r, [r EXCEPT !.enabled = enabled, !.unsubscribed = @ /\ ~enabled])
    BY <1>4 DEF SetEnabled, Changeable
  <2> DEFINE unsubscribed == r.unsubscribed /\ ~enabled
             new == [r EXCEPT !.enabled = enabled, !.unsubscribed = unsubscribed]
  <2>2. r \in Subscriptions
    BY DEF SubscriptionsInv
  <2>4. unsubscribed \in BOOLEAN /\ ChangeRule(r, new)
    BY <2>1
  <2> HIDE DEF unsubscribed
  <2>3. /\ new \in Subscriptions /\ new.destination = r.destination /\ new.owner = r.owner
        /\ new.channel = r.channel
    BY <2>2, <2>4 DEF Subscriptions
  <2> HIDE DEF new
  <2> QED
    BY <2>3, <2>4, ChangeRuleStep
<1>8. NoRequest \in SessionRequests /\ NoRequest.step = "NONE"
  BY DEF NoRequest, SessionRequests, Channels
<1>5. ASSUME NEW s \in Sessions, NEW u \in Subscribers, NEW channel \in Channels,
             RequestRule(s, u, channel)
      PROVE  SubscriptionsInv'
  <2> DEFINE r == [NoRequest EXCEPT !.step = "CHECKED", !.user = u, !.channel = channel]
  <2>1. requests' = [requests EXCEPT ![s] = r] /\ UNCHANGED <<destinations, subscriptions>>
    BY <1>5 DEF RequestRule, Continue
  <2>2. r \in SessionRequests /\ r.step = "CHECKED" /\ r.user = u
    BY <1>8 DEF SessionRequests
  <2> HIDE DEF r
  <2> QED
    BY <2>1, <2>2, SessionHandler
<1>6. ASSUME NEW s \in Sessions PROVE requests[s] \in SessionRequests
  BY DEF SubscriptionsInv
<1>7. ASSUME NEW s \in Sessions, FindDestination(s) PROVE SubscriptionsInv'
  <2>1. /\ requests[s].step = "CHECKED" /\ requests[s].user \in Subscribers
        /\ UNCHANGED <<destinations, subscriptions>>
    BY <1>7 DEF FindDestination, SubscriptionsInv
  <2>2. ASSUME NEW d \in Reachable(requests[s].user, requests[s].channel),
               Continue(s, [requests[s] EXCEPT !.step = "FOUND", !.found = d.number])
        PROVE  SubscriptionsInv'
    <3> DEFINE r == [requests[s] EXCEPT !.step = "FOUND", !.found = d.number]
    <3>1. d \in destinations /\ d.owner = requests[s].user /\ d.channel = requests[s].channel
      BY DEF Reachable
    <3>2. d.number \in 0 .. MaxDestinations
      BY <1>0, <3>1 DEF DestinationsInv, DestinationRows
    <3>3. /\ r \in SessionRequests /\ r.step = "FOUND" /\ r.found = d.number
          /\ r.user = requests[s].user /\ r.channel = requests[s].channel
      BY <1>6, <3>2 DEF SessionRequests
    <3>4. requests' = [requests EXCEPT ![s] = r]
      BY <2>2 DEF Continue
    <3> HIDE DEF r
    <3>5. LinkedTo(destinations, r.found, r.user, r.channel)
      BY <3>1, <3>3 DEF LinkedTo
    <3> QED
      BY <2>1, <3>3, <3>4, <3>5, SessionHandler
  <2>3. ASSUME requests[s].channel = InApp, Continue(s, [requests[s] EXCEPT !.step = "CREATING"])
        PROVE  SubscriptionsInv'
    <3> DEFINE r == [requests[s] EXCEPT !.step = "CREATING"]
    <3>1. /\ r \in SessionRequests /\ r.step = "CREATING" /\ r.channel = InApp
          /\ r.user = requests[s].user
      BY <1>6, <2>3 DEF SessionRequests
    <3>2. requests' = [requests EXCEPT ![s] = r]
      BY <2>3 DEF Continue
    <3> HIDE DEF r
    <3> QED
      BY <2>1, <3>1, <3>2, SessionHandler
  <2> QED
    BY <1>7, <2>2, <2>3 DEF FindDestination
<1>9. ASSUME NEW s \in Sessions, AbortRule(s) PROVE SubscriptionsInv'
  <2>1. requests' = [requests EXCEPT ![s] = NoRequest] /\ UNCHANGED <<destinations, subscriptions>>
    BY <1>9 DEF AbortRule, Continue
  <2> QED
    BY <1>8, <2>1, SessionHandler
<1>10. ASSUME NEW s \in Sessions, CommitRule(s) PROVE SubscriptionsInv'
  <2> DEFINE r      == requests[s]
             number == IF r.step = "CREATING" THEN Cardinality(destinations) + 1 ELSE r.found
             row    == [number |-> number, owner |-> r.user, channel |-> InApp, hash |-> NoHash,
                        disabled |-> FALSE]
             rule   == [number |-> Cardinality(subscriptions) + 1, owner |-> r.user,
                        channel |-> r.channel, destination |-> number, enabled |-> TRUE,
                        unsubscribed |-> FALSE, archived |-> FALSE]
  <2>1. /\ r.step \in {"FOUND", "CREATING"}
        /\ Cardinality(subscriptions) < MaxRules /\ number <= MaxDestinations
        /\ destinations' = IF r.step = "FOUND" THEN destinations ELSE destinations \cup {row}
        /\ subscriptions' = subscriptions \cup {rule}
        /\ requests' = [requests EXCEPT ![s] = NoRequest]
    BY <1>10 DEF CommitRule, Continue
  <2>2. r.user \in Subscribers /\ r.channel \in Channels /\ r.found \in 0 .. MaxDestinations
    BY <1>6, <2>1 DEF SubscriptionsInv, SessionRequests
  <2>3. /\ DestinationsInv' /\ RowsKept /\ number \in 1 .. MaxDestinations
        /\ LinkedTo(destinations', number, r.user, r.channel)
    <3>1. CASE r.step = "FOUND"
      <4>1. destinations' = destinations /\ number = r.found
        BY <2>1, <3>1
      <4>2. LinkedTo(destinations, r.found, r.user, r.channel)
        BY <3>1 DEF SubscriptionsInv
      <4>3. r.found \in 1 .. MaxDestinations
        BY <1>0, <4>2 DEF LinkedTo, DestinationsInv, DestinationRows
      <4>4. DestinationsInv' /\ RowsKept
        BY <1>0, <4>1 DEF DestinationsInv, RowsKept, SameRow
      <4> QED
        BY <4>1, <4>2, <4>3, <4>4
    <3>2. CASE r.step = "CREATING"
      <4>1. destinations' = destinations \cup {row} /\ number = Cardinality(destinations) + 1
        BY <2>1, <3>2
      <4>2. number \in 1 .. MaxDestinations
        BY <1>0, <2>1, <4>1
      <4> HIDE DEF number
      <4>3. row \in DestinationRows /\ row.number = number
        BY <2>2, <4>2 DEF DestinationRows, Channels
      <4>4. r.channel = InApp
        BY <3>2 DEF SubscriptionsInv
      <4>5. row.hash = NoHash /\ row.owner = r.user /\ row.channel = InApp
        OBVIOUS
      <4> HIDE DEF row
      <4>6. DestinationsInv' /\ RowsKept
        BY <1>0, <4>1, <4>3, <4>5, AddDestination
      <4>7. LinkedTo(destinations', number, r.user, r.channel)
        BY <4>1, <4>3, <4>4, <4>5 DEF LinkedTo
      <4> QED
        BY <4>2, <4>6, <4>7
    <3> QED
      BY <2>1, <3>1, <3>2
  <2>4. IsFiniteSet(subscriptions') /\ Cardinality(subscriptions) \in Nat
    BY <2>1, FS_AddElement, FS_CardinalityType DEF SubscriptionsInv
  <2> HIDE DEF number
  <2>5. rule \in Subscriptions
    BY <2>1, <2>2, <2>3, <2>4 DEF Subscriptions
  <2>6. rule.destination = number /\ rule.owner = r.user /\ rule.channel = r.channel
    OBVIOUS
  <2> HIDE DEF rule
  <2>7. \A x \in subscriptions' : LinkedTo(destinations', x.destination, x.owner, x.channel)
    BY <2>1, <2>3, <2>6, LinksKept DEF SubscriptionsInv
  <2>8. /\ requests' \in [Sessions -> SessionRequests]
        /\ \A t \in Sessions : requests'[t] = IF t = s THEN NoRequest ELSE requests[t]
    BY <1>8, <2>1 DEF SubscriptionsInv
  <2>9. \A t \in Sessions :
         /\ requests'[t].step # "NONE" => requests'[t].user \in Subscribers
         /\ requests'[t].step = "CREATING" => requests'[t].channel = InApp
         /\ requests'[t].step = "FOUND" =>
              LinkedTo(destinations', requests'[t].found, requests'[t].user, requests'[t].channel)
    <3> TAKE t \in Sessions
    <3>1. CASE t = s
      BY <1>8, <2>8, <3>1
    <3>2. CASE t # s
      <4>1. requests'[t] = requests[t]
        BY <2>8, <3>2
      <4> QED
        BY <2>3, <4>1, LinksKept DEF SubscriptionsInv
    <3> QED
      BY <3>1, <3>2
  <2>10. subscriptions' \subseteq Subscriptions
    BY <2>1, <2>5 DEF SubscriptionsInv
  <2> QED
    BY <2>3, <2>4, <2>7, <2>8, <2>9, <2>10 DEF SubscriptionsInv
<1>11. CASE UNCHANGED subscriptionVars
  BY <1>11 DEF subscriptionVars, SubscriptionsInv, DestinationsInv
<1> QED
  BY <1>1, <1>2, <1>3, <1>4, <1>5, <1>7, <1>9, <1>10, <1>11 DEF SubscriptionsNext

-----------------------------------------------------------------------------
(* Simulations.                                                            *)

SimulationSessions ==
  [step : {"NONE", "READ", "BUILT", "OPTIMIZED", "CHECKED", "ANSWERED"}, save : BOOLEAN,
   methodology : Publications, candidates : SUBSET Candidates, allocations : SUBSET Offered,
   outcome : SimulationOutcomes]

SavedSimulations ==
  [number : Nat, owner : Researchers, methodology : Publications, outcome : SimulationOutcomes,
   considered : SUBSET Candidates, rows : SUBSET [candidate : Candidates, included : BOOLEAN],
   allocations : SUBSET Offered, named : BOOLEAN, archived : BOOLEAN]

(* What a simulation allocates to, from when it is optimised.              *)
Comparable(s) ==
  \A slug \in s.allocations : \E c \in s.candidates :
    c.slug = slug /\ c.methodology = s.methodology /\ c.status = "CURRENT"

Reviewable(s) ==
  /\ \A slug \in s.allocations : \E row \in s.rows :
       row.candidate.slug = slug /\ row.included /\ row.candidate.methodology = s.methodology
  /\ {row.candidate : row \in s.rows} = s.considered

SimulationsInv ==
  /\ published \in Publications /\ offers \subseteq Offered
  /\ cached \in [methodology : Publications, candidates : SUBSET Candidates]
  /\ sessions \in [Researchers -> SimulationSessions]
  /\ simulations \subseteq SavedSimulations /\ IsFiniteSet(simulations)
  /\ \A u \in Researchers : sessions[u].step \in {"OPTIMIZED", "CHECKED", "ANSWERED"} =>
       Comparable(sessions[u])
  /\ \A s \in simulations : Reviewable(s)

LEMMA SimulationsInitInv == SimulationsInit => SimulationsInv
<1> SUFFICES ASSUME SimulationsInit PROVE SimulationsInv
  OBVIOUS
<1>1. IsFiniteSet({})
  BY FS_EmptySet
<1>2. sessions \in [Researchers -> SimulationSessions]
  BY SimulationConstants
     DEF SimulationsInit, NoSession, SimulationSessions, Publications, SimulationOutcomes
<1> QED
  BY <1>1, <1>2, SimulationConstants
     DEF SimulationsInit, SimulationsInv, NoSession, Publications

(* A request moves on.                                                     *)
LEMMA ProceedHandler ==
  ASSUME SimulationsInv, NEW u \in Researchers, NEW s \in SimulationSessions, Proceed(u, s),
         s.step \in {"OPTIMIZED", "CHECKED", "ANSWERED"} => Comparable(s)
  PROVE  SimulationsInv'
<1>1. /\ sessions' = [sessions EXCEPT ![u] = s]
      /\ UNCHANGED <<published, offers, cached, simulations>>
  BY DEF Proceed
<1>2. /\ sessions' \in [Researchers -> SimulationSessions]
      /\ \A v \in Researchers : sessions'[v] = IF v = u THEN s ELSE sessions[v]
  BY <1>1 DEF SimulationsInv
<1>3. \A v \in Researchers : sessions'[v].step \in {"OPTIMIZED", "CHECKED", "ANSWERED"} =>
        Comparable(sessions'[v])
  BY <1>2 DEF SimulationsInv
<1> QED
  BY <1>1, <1>2, <1>3 DEF SimulationsInv

(* A saved simulation changes, but not what was simulated.                 *)
LEMMA ChangeHandler ==
  ASSUME SimulationsInv, NEW old \in simulations, NEW new \in SavedSimulations, Change(old, new),
         Reviewable(new)
  PROVE  SimulationsInv'
<1>1. /\ simulations' = (simulations \ {old}) \cup {new}
      /\ UNCHANGED <<published, offers, cached, sessions>>
  BY DEF Change
<1>2. IsFiniteSet(simulations')
  BY <1>1, FS_RemoveElement, FS_AddElement DEF SimulationsInv
<1>3. \A v \in Researchers : sessions'[v] = sessions[v]
  BY <1>1
<1> QED
  BY <1>1, <1>2, <1>3 DEF SimulationsInv

(* Each candidate has its row when all of them are public.                 *)
LEMMA RowsAreWhole ==
  ASSUME SimulationsInv, NEW s \in SimulationSessions, Comparable(s), Persistable(s.candidates)
  PROVE  /\ RowsOf(s) \subseteq [candidate : Candidates, included : BOOLEAN]
         /\ {row.candidate : row \in RowsOf(s)} = s.candidates
         /\ \A slug \in s.allocations : \E row \in RowsOf(s) :
              row.candidate.slug = slug /\ row.included /\ row.candidate.methodology = s.methodology
<1> DEFINE row(c) == [candidate |-> c, included |-> ~Excluded(c, s.methodology)]
<1>1. {x \in s.candidates : x.slug \in offers} = s.candidates
  BY DEF Persistable
<1>2. RowsOf(s) = {row(c) : c \in s.candidates}
  BY <1>1 DEF RowsOf
<1>3. \A c : Excluded(c, s.methodology) \in BOOLEAN
  BY DEF Excluded
<1>4. s.candidates \subseteq Candidates
  BY DEF SimulationSessions
<1>5. \A c : row(c).candidate = c /\ row(c).included = ~Excluded(c, s.methodology)
  OBVIOUS
<1>6. \A c \in s.candidates : row(c) \in [candidate : Candidates, included : BOOLEAN]
  BY <1>3, <1>4
<1> HIDE DEF row
<1>7. {x.candidate : x \in RowsOf(s)} = s.candidates
  BY <1>2, <1>5
<1>8. ASSUME NEW slug \in s.allocations
      PROVE  \E x \in RowsOf(s) :
               x.candidate.slug = slug /\ x.included /\ x.candidate.methodology = s.methodology
  <2>1. PICK c \in s.candidates :
          c.slug = slug /\ c.methodology = s.methodology /\ c.status = "CURRENT"
    BY DEF Comparable
  <2>2. ~Excluded(c, s.methodology)
    BY <2>1 DEF Excluded
  <2>3. row(c) \in RowsOf(s)
    BY <1>2
  <2> QED
    BY <1>5, <2>1, <2>2, <2>3
<1> QED
  BY <1>2, <1>6, <1>7, <1>8

LEMMA SimulationsStep ==
  ASSUME SimulationsInv, [SimulationsNext]_simulationVars
  PROVE  SimulationsInv'
<1> USE SimulationConstants
<1>1. CASE PublishMethodology
  <2>1. UNCHANGED <<offers, cached, sessions, simulations>> /\ published' \in Publications
    BY <1>1 DEF PublishMethodology, SimulationsInv, Publications
  <2> QED
    BY <2>1 DEF SimulationsInv
<1>2. ASSUME NEW o \in Offered, WithdrawOrReplace(o) PROVE SimulationsInv'
  <2>1. UNCHANGED <<published, cached, sessions, simulations>> /\ offers' \subseteq Offered
    BY <1>2 DEF WithdrawOrReplace, SimulationsInv
  <2> QED
    BY <2>1 DEF SimulationsInv
<1>3. CASE RenewModel
  <2>1. PICK routes \in SUBSET offers : \E status \in [routes -> {"CURRENT", "STALE"}] :
          cached' = [methodology |-> published,
                     candidates |-> {[slug |-> o, methodology |-> published, status |-> status[o]] :
                                       o \in routes}]
    BY <1>3 DEF RenewModel
  <2>2. PICK status \in [routes -> {"CURRENT", "STALE"}] :
          cached' = [methodology |-> published,
                     candidates |-> {[slug |-> o, methodology |-> published, status |-> status[o]] :
                                       o \in routes}]
    BY <2>1
  <2>3. published \in Publications /\ routes \subseteq Offered
    BY DEF SimulationsInv
  <2>4. {[slug |-> o, methodology |-> published, status |-> status[o]] : o \in routes} \subseteq Candidates
    BY <2>3 DEF Candidates
  <2>5. cached' \in [methodology : Publications, candidates : SUBSET Candidates]
    BY <2>2, <2>3, <2>4
  <2>6. UNCHANGED <<published, offers, sessions, simulations>>
    BY <1>3 DEF RenewModel
  <2> QED
    BY <2>5, <2>6 DEF SimulationsInv
<1>4. ASSUME NEW u \in Researchers PROVE sessions[u] \in SimulationSessions
  BY DEF SimulationsInv
<1>5. NoSession \in SimulationSessions /\ NoSession.step = "NONE"
  BY DEF NoSession, SimulationSessions, Publications, SimulationOutcomes
<1>13. cached.methodology \in Publications /\ cached.candidates \subseteq Candidates
  BY DEF SimulationsInv
<1>6. ASSUME NEW u \in Researchers, NEW save \in BOOLEAN, Simulate(u, save) PROVE SimulationsInv'
  <2> DEFINE s == [NoSession EXCEPT !.step = "READ", !.save = save, !.methodology = cached.methodology]
  <2>1. s \in SimulationSessions /\ s.step = "READ"
    BY <1>5, <1>13 DEF SimulationSessions
  <2>2. Proceed(u, s)
    BY <1>6 DEF Simulate
  <2> HIDE DEF s
  <2> QED
    BY <2>1, <2>2, ProceedHandler
<1>7. ASSUME NEW u \in Researchers, BuildCandidates(u) PROVE SimulationsInv'
  <2> DEFINE s == [sessions[u] EXCEPT !.step = "BUILT", !.candidates = cached.candidates]
  <2>1. s \in SimulationSessions /\ s.step = "BUILT"
    BY <1>4, <1>13 DEF SimulationSessions
  <2>2. Proceed(u, s)
    BY <1>7 DEF BuildCandidates
  <2> HIDE DEF s
  <2> QED
    BY <2>1, <2>2, ProceedHandler
<1>8. ASSUME NEW u \in Researchers, Optimize(u) PROVE SimulationsInv'
  <2> DEFINE eligible == {c \in sessions[u].candidates : ~Excluded(c, sessions[u].methodology)}
             step == IF sessions[u].save THEN "OPTIMIZED" ELSE "ANSWERED"
  <2>1. PICK allocations \in SUBSET {c.slug : c \in eligible}, outcome \in SimulationOutcomes :
          Proceed(u, [sessions[u] EXCEPT !.step = step, !.allocations = allocations,
                                         !.outcome = outcome])
    BY <1>8 DEF Optimize
  <2> DEFINE s == [sessions[u] EXCEPT !.step = step, !.allocations = allocations, !.outcome = outcome]
  <2>2. eligible \subseteq Candidates
    BY <1>4 DEF SimulationSessions
  <2>3. allocations \subseteq Offered
    BY <2>2 DEF Candidates
  <2>4. step \in {"OPTIMIZED", "ANSWERED"}
    OBVIOUS
  <2>5. \A slug \in allocations : \E c \in sessions[u].candidates :
          c.slug = slug /\ c.methodology = sessions[u].methodology /\ c.status = "CURRENT"
    BY DEF Excluded
  <2> HIDE DEF step
  <2>6. /\ s \in SimulationSessions /\ s.allocations = allocations
        /\ s.candidates = sessions[u].candidates /\ s.methodology = sessions[u].methodology
    BY <1>4, <2>3, <2>4 DEF SimulationSessions
  <2>7. Proceed(u, s)
    BY <2>1
  <2> HIDE DEF s
  <2>8. Comparable(s)
    BY <2>5, <2>6 DEF Comparable
  <2> QED
    BY <2>6, <2>7, <2>8, ProceedHandler
<1>9. ASSUME NEW u \in Researchers, CheckReferences(u) \/ SaveFails(u) PROVE SimulationsInv'
  <2>1. PICK step \in {"CHECKED", "ANSWERED"} :
          /\ sessions[u].step \in {"OPTIMIZED", "CHECKED"}
          /\ Proceed(u, [sessions[u] EXCEPT !.step = step])
    BY <1>9 DEF CheckReferences, SaveFails
  <2> DEFINE s == [sessions[u] EXCEPT !.step = step]
  <2>2. /\ s \in SimulationSessions /\ s.allocations = sessions[u].allocations
        /\ s.candidates = sessions[u].candidates /\ s.methodology = sessions[u].methodology
    BY <1>4 DEF SimulationSessions
  <2>3. Comparable(sessions[u])
    BY <2>1 DEF SimulationsInv
  <2>4. Proceed(u, s)
    BY <2>1
  <2> HIDE DEF s
  <2>5. Comparable(s)
    BY <2>2, <2>3 DEF Comparable
  <2> QED
    BY <2>2, <2>4, <2>5, ProceedHandler
<1>10. ASSUME NEW u \in Researchers, Save(u) PROVE SimulationsInv'
  <2> DEFINE s   == sessions[u]
             new == [number |-> Cardinality(simulations), owner |-> u, methodology |-> s.methodology,
                     outcome |-> s.outcome, considered |-> s.candidates, rows |-> RowsOf(s),
                     allocations |-> s.allocations, named |-> FALSE, archived |-> FALSE]
  <2>1. /\ s.step = "CHECKED" /\ Persistable(s.candidates) /\ simulations' = simulations \cup {new}
        /\ sessions' = [sessions EXCEPT ![u].step = "ANSWERED"]
        /\ UNCHANGED <<published, offers, cached>>
    BY <1>10 DEF Save
  <2>2. s \in SimulationSessions /\ Comparable(s)
    BY <1>4, <2>1 DEF SimulationsInv
  <2>3. /\ RowsOf(s) \subseteq [candidate : Candidates, included : BOOLEAN]
        /\ {row.candidate : row \in RowsOf(s)} = s.candidates
        /\ \A slug \in s.allocations : \E row \in RowsOf(s) :
             row.candidate.slug = slug /\ row.included /\ row.candidate.methodology = s.methodology
    BY <2>1, <2>2, RowsAreWhole
  <2>4. IsFiniteSet(simulations') /\ Cardinality(simulations) \in Nat
    BY <2>1, FS_AddElement, FS_CardinalityType DEF SimulationsInv
  <2>5. new \in SavedSimulations
    BY <2>2, <2>3, <2>4 DEF SavedSimulations, SimulationSessions
  <2>6. /\ new.rows = RowsOf(s) /\ new.considered = s.candidates
        /\ new.allocations = s.allocations /\ new.methodology = s.methodology
    OBVIOUS
  <2> HIDE DEF new
  <2>7. Reviewable(new)
    BY <2>3, <2>6 DEF Reviewable
  <2> DEFINE done == [s EXCEPT !.step = "ANSWERED"]
  <2>8. /\ done \in SimulationSessions /\ done.allocations = s.allocations
        /\ done.candidates = s.candidates /\ done.methodology = s.methodology
    BY <2>2 DEF SimulationSessions
  <2>9. /\ sessions' = [sessions EXCEPT ![u] = done]
        /\ \A v \in Researchers : sessions'[v] = IF v = u THEN done ELSE sessions[v]
    BY <2>1 DEF SimulationsInv
  <2> HIDE DEF done
  <2>10. Comparable(done)
    BY <2>2, <2>8 DEF Comparable
  <2>11. \A v \in Researchers : sessions'[v].step \in {"OPTIMIZED", "CHECKED", "ANSWERED"} =>
           Comparable(sessions'[v])
    BY <2>9, <2>10 DEF SimulationsInv
  <2>12. sessions' \in [Researchers -> SimulationSessions]
    BY <2>8, <2>9 DEF SimulationsInv
  <2>13. simulations' \subseteq SavedSimulations /\ \A x \in simulations' : Reviewable(x)
    BY <2>1, <2>5, <2>7 DEF SimulationsInv
  <2> QED
    BY <2>1, <2>4, <2>11, <2>12, <2>13 DEF SimulationsInv
<1>11. ASSUME NEW u \in Researchers, Dismiss(u) PROVE SimulationsInv'
  BY <1>5, <1>11, ProceedHandler DEF Dismiss
<1>12. ASSUME NEW u \in Researchers, Rename(u) \/ Archive(u) PROVE SimulationsInv'
  <2>5. PICK old \in simulations :
          Change(old, [old EXCEPT !.named = TRUE]) \/ Change(old, [old EXCEPT !.archived = TRUE])
    BY <1>12 DEF Rename, Archive, Owned
  <2>1. PICK new \in {[old EXCEPT !.named = TRUE], [old EXCEPT !.archived = TRUE]} : Change(old, new)
    BY <2>5
  <2>2. old \in SavedSimulations /\ Reviewable(old)
    BY DEF SimulationsInv
  <2>3. /\ new \in SavedSimulations /\ new.rows = old.rows /\ new.considered = old.considered
        /\ new.allocations = old.allocations /\ new.methodology = old.methodology
    BY <2>2 DEF SavedSimulations
  <2>4. Reviewable(new)
    BY <2>2, <2>3 DEF Reviewable
  <2> QED
    BY <2>1, <2>3, <2>4, ChangeHandler
<1>14. CASE UNCHANGED simulationVars
  BY <1>14 DEF simulationVars, SimulationsInv
<1> QED
  BY <1>1, <1>2, <1>3, <1>6, <1>7, <1>8, <1>9, <1>10, <1>11, <1>12, <1>14 DEF SimulationsNext

-----------------------------------------------------------------------------
(* The theorems.                                                           *)

(* The items of a comparison are always the list of one request, and the   *)
(* watchlist's code never finds its list missing, however many tabs save,  *)
(* replace and archive at once.                                            *)
THEOREM ListsAreWhole == SavedSpec /\ WatchlistSpec => []SavedListsAreWhole
<1>1. SavedInv /\ [SavedNext]_savedVars => SavedInv'
  BY SavedStep
<1>2. WatchlistInv /\ [WatchlistNext]_watchVars => WatchlistInv'
  BY WatchlistStep
<1>3. SavedInv /\ WatchlistInv => SavedListsAreWhole
  BY DEF SavedInv, Whole, WatchlistInv, SavedListsAreWhole, ComparisonsAreOneRequest,
         WatchingNeverFails
<1> QED
  BY <1>1, <1>2, <1>3, SavedInitInv, WatchlistInitInv, PTL DEF SavedSpec, WatchlistSpec

(* A rule stays linked to the one row of its user's address, whatever is   *)
(* disabled and stored again while it is made.                             *)
THEOREM RulesStayLinked == SubscriptionsSpec => []RulesReachTheirOwner
<1>1. SubscriptionsInv /\ [SubscriptionsNext]_subscriptionVars => SubscriptionsInv'
  BY SubscriptionsStep
<1>2. SubscriptionsInv => RulesReachTheirOwner
  BY DEF SubscriptionsInv, DestinationsInv, LinkedTo, RulesReachTheirOwner
<1> QED
  BY <1>1, <1>2, SubscriptionsInitInv, PTL DEF SubscriptionsSpec

(* Whatever is published or withdrawn between the reads and the writes of  *)
(* a request, a simulation allocates to comparable candidates only, and    *)
(* what is saved of it is all that was considered.                         *)
THEOREM SimulationsMayBeRelied == SimulationsSpec => []SimulationsAreSound
<1>1. SimulationsInv /\ [SimulationsNext]_simulationVars => SimulationsInv'
  BY SimulationsStep
<1>2. SimulationsInv => SimulationsAreSound
  BY DEF SimulationsInv, Comparable, Reviewable, SimulationsAreSound, AllocationsAreComparable,
         SavedSimulationsAreWhole
<1> QED
  BY <1>1, <1>2, SimulationsInitInv, PTL DEF SimulationsSpec

-----------------------------------------------------------------------------
(* The six parts together.                                                 *)

(* Each part behaves as its module says, whichever of them runs.           *)
LEMMA PartsBehave ==
  UserDataSpec =>
    /\ Spec /\ ReadModelSpec /\ SimulationsSpec
    /\ SavedSpec /\ WatchlistSpec /\ SubscriptionsSpec
<1>1. UserDataInit =>
        /\ Init /\ ReadModelInit /\ SimulationsInit
        /\ SavedInit /\ WatchlistInit /\ SubscriptionsInit
  BY DEF UserDataInit
<1>2. [UserDataNext]_userDataVars =>
        /\ [Next]_vars /\ [ReadModelNext]_readVars /\ [SimulationsNext]_simulationVars
        /\ [SavedNext]_savedVars /\ [WatchlistNext]_watchVars /\ [SubscriptionsNext]_subscriptionVars
  BY DEF UserDataNext, userDataVars
<1> QED
  BY <1>1, <1>2, PTL
     DEF UserDataSpec, Spec, ReadModelSpec, SimulationsSpec, SavedSpec, WatchlistSpec, SubscriptionsSpec

(* The variables of the part that runs have their types.                   *)
THEOREM UserDataTyped == UserDataSpec => []UserDataTypeOK
<1>1. SavedInv /\ [SavedNext]_savedVars => SavedInv'
  BY SavedStep
<1>2. WatchlistInv /\ [WatchlistNext]_watchVars => WatchlistInv'
  BY WatchlistStep
<1>3. SubscriptionsInv /\ [SubscriptionsNext]_subscriptionVars => SubscriptionsInv'
  BY SubscriptionsStep
<1>4. SimulationsInv /\ [SimulationsNext]_simulationVars => SimulationsInv'
  BY SimulationsStep
<1>5. /\ SavedInv => SavedTypeOK
      /\ WatchlistInv => WatchlistTypeOK
      /\ SubscriptionsInv => SubscriptionsTypeOK
      /\ SimulationsInv => SimulationsTypeOK
  <2>1. SubscriptionsInv => SubscriptionsTypeOK
    BY DEF SubscriptionsInv, DestinationsInv, SubscriptionsTypeOK, SessionRequests
  <2>2. SimulationsInv => SimulationsTypeOK
    BY DEF SimulationsInv, SimulationsTypeOK, SimulationSessions, SavedSimulations
  <2> QED
    BY <2>1, <2>2 DEF SavedInv, WatchlistInv
<1>6. UserDataInit => part \in {"evaluation", "read", "simulations", "comparisons", "watchlist", "subscriptions"}
  BY DEF UserDataInit
<1>7. [UserDataNext]_userDataVars => UNCHANGED part
  BY DEF UserDataNext, userDataVars
<1> DEFINE Part == part \in {"evaluation", "read", "simulations", "comparisons", "watchlist", "subscriptions"}
<1>8. UserDataInit => Part
  BY <1>6
<1>9. Part /\ [UserDataNext]_userDataVars => Part'
  BY <1>7
<1>10. /\ Part /\ TypeOK /\ ReadModelTypeOK /\ SimulationsTypeOK
       /\ SavedTypeOK /\ WatchlistTypeOK /\ SubscriptionsTypeOK
       => UserDataTypeOK
  BY DEF UserDataTypeOK
<1> HIDE DEF Part
<1> QED
  BY <1>1, <1>2, <1>3, <1>4, <1>5, <1>8, <1>9, <1>10, PartsBehave, TypeCorrect, ReadModelTyped,
     SavedInitInv, WatchlistInitInv, SubscriptionsInitInv, SimulationsInitInv, PTL
     DEF UserDataSpec, SavedSpec, WatchlistSpec, SubscriptionsSpec, SimulationsSpec
=============================================================================
