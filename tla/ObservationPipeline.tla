-------------------------- MODULE ObservationPipeline --------------------------
(***************************************************************************)
(* From the answers of providers to the daily history: the handlers        *)
(* INGEST_SOURCE and ROLLUP_HISTORY of apps/worker/src/handlers.ts over    *)
(* source_observations, the typed snapshots and yield_history_rollups.     *)
(*                                                                         *)
(* A pass of ingestion looks up its published source, then its routes one  *)
(* by one, fetches their metrics, stores each in a transaction of its own. *)
(* A rollup fixes its cutoff before its single statement runs.  The queue  *)
(* may run several of both at once, and repeat them.  Time is a bounded    *)
(* clock, DayLength ticks make a UTC day.                                  *)
(***************************************************************************)
EXTENDS Integers, Sequences, FiniteSets

CONSTANTS
  Passes,        \* places, numbers, for executions of INGEST_SOURCE under way at once
  Rollers,       \* executions of ROLLUP_HISTORY under way at once
  MorphoRoutes,  \* their yields are net
  OndoRoutes,    \* their yields are gross
  Yields,        \* values a yield may have, numbers
  DayLength,
  RollupDays,    \* HISTORY_ROLLUP_HORIZON_DAYS
  MaxBuckets,    \* HISTORY_ROLLUP_MAX_BUCKETS
  PipeHorizon,   \* bound on the clock
  MaxPasses      \* bound on the passes that begin

ASSUME PipeConstants ==
  /\ IsFiniteSet(Passes) /\ Passes \subseteq Nat /\ IsFiniteSet(Rollers)
  /\ IsFiniteSet(MorphoRoutes) /\ IsFiniteSet(OndoRoutes)
  /\ MorphoRoutes \cap OndoRoutes = {} /\ MorphoRoutes \cup OndoRoutes # {}
  /\ Yields \subseteq Nat /\ Yields # {} /\ IsFiniteSet(Yields)
  /\ DayLength \in Nat \ {0} /\ RollupDays \in Nat \ {0}
  /\ MaxBuckets \in Nat /\ PipeHorizon \in Nat /\ MaxPasses \in Nat

VARIABLES
  pipeNow,
  observations,  \* source_observations
  snapshots,     \* yield, TVL/AUM and liquidity snapshots
  rollups,       \* yield_history_rollups
  passes,
  rollers,
  changes,       \* sum of what passes counted as changed
  begun          \* passes so far

pipeVars == <<pipeNow, observations, snapshots, rollups, passes, rollers, changes, begun>>

PipeRoutes == MorphoRoutes \cup OndoRoutes
Metrics    == {"YIELD", "SIZE"}
PipeTimes  == 0 .. PipeHorizon
Day(t)     == t \div DayLength
Days       == Day(0) .. Day(PipeHorizon)

(* The metrics fetched together for a route, in the order they are stored. *)
(* TVL, AUM and liquidity are stored alike, and stand for one metric here. *)
Fetched == <<"YIELD", "SIZE">>

(* What the idempotency key of an observation is computed from: both       *)
(* adapters say that a value was observed when they fetched it.            *)
Keys == [route : PipeRoutes, metric : Metrics, value : Yields, at : PipeTimes]

(* A snapshot's creation time is the time its transaction began.           *)
Snapshots == [key : Keys, createdAt : PipeTimes]

Rollups == [route : MorphoRoutes, day : Days, source : Snapshots, cutoff : PipeTimes]

PassRecords ==
  [at : {"idle", "looking", "storing", "writing"}, left : SUBSET PipeRoutes, route : PipeRoutes,
   queue : Seq(Metrics), fetchedAt : PipeTimes, value : Yields, began : PipeTimes]

PipeTypeOK ==
  /\ pipeNow \in PipeTimes
  /\ observations \subseteq Keys
  /\ snapshots \subseteq Snapshots
  /\ rollups \subseteq Rollups
  /\ passes \in [Passes -> PassRecords]
  /\ rollers \in [Rollers -> PipeTimes \cup {-1}]
  /\ changes \in Nat /\ begun \in 0 .. MaxPasses

IdlePass ==
  [at |-> "idle", left |-> {}, route |-> CHOOSE r \in PipeRoutes : TRUE,
   queue |-> <<>>, fetchedAt |-> 0, value |-> CHOOSE v \in Yields : TRUE, began |-> 0]

PipeInit ==
  /\ pipeNow = 0
  /\ observations = {} /\ snapshots = {} /\ rollups = {}
  /\ passes = [p \in Passes |-> IdlePass]
  /\ rollers = [w \in Rollers |-> -1]
  /\ changes = 0 /\ begun = 0

-----------------------------------------------------------------------------
(* INGEST_SOURCE.                                                          *)

Tables == <<observations, snapshots, rollups, changes>>

BeginPass(p, routes) ==
  /\ passes[p].at = "idle" /\ begun < MaxPasses
  /\ \A q \in Passes : q < p => passes[q].at # "idle"
  /\ routes # {} /\ (routes \subseteq MorphoRoutes \/ routes \subseteq OndoRoutes)
  /\ begun' = begun + 1
  /\ passes' = [passes EXCEPT ![p] = [IdlePass EXCEPT !.at = "looking", !.left = routes]]
  /\ UNCHANGED <<pipeNow, rollers>> /\ UNCHANGED Tables

(* An administrator has withdrawn the route: it is rejected and the pass   *)
(* goes on.                                                                *)
SkipRoute(p, r) ==
  /\ passes[p].at = "looking" /\ r \in passes[p].left
  /\ passes' = [passes EXCEPT ![p].left = @ \ {r}]
  /\ UNCHANGED <<pipeNow, rollers, begun>> /\ UNCHANGED Tables

(* Promise.all of the route's metrics.                                     *)
FetchRoute(p, r) ==
  /\ passes[p].at = "looking" /\ r \in passes[p].left
  /\ \E v \in Yields :
       passes' = [passes EXCEPT ![p] =
                    [at |-> "storing", left |-> passes[p].left \ {r}, route |-> r, queue |-> Fetched,
                     fetchedAt |-> pipeNow, value |-> v, began |-> 0]]
  /\ UNCHANGED <<pipeNow, rollers, begun>> /\ UNCHANGED Tables

Stored(pass) ==
  IF Len(pass.queue) > 1 THEN [pass EXCEPT !.queue = Tail(@), !.at = "storing", !.began = 0]
  ELSE [IdlePass EXCEPT !.at = "looking", !.left = pass.left]

(* The adapter had no observation: the metric is rejected.                 *)
NoObservation(p) ==
  /\ passes[p].at = "storing"
  /\ passes' = [passes EXCEPT ![p] = Stored(passes[p])]
  /\ UNCHANGED <<pipeNow, rollers, begun>> /\ UNCHANGED Tables

OpenTransaction(p) ==
  /\ passes[p].at = "storing"
  /\ passes' = [passes EXCEPT ![p].at = "writing", ![p].began = pipeNow]
  /\ UNCHANGED <<pipeNow, rollers, begun>> /\ UNCHANGED Tables

KeyOf(pass) ==
  [route |-> pass.route, metric |-> Head(pass.queue), value |-> pass.value, at |-> pass.fetchedAt]

HasSnapshot(key) == \E s \in snapshots : s.key = key

(* A bug: a duplicate of an observation gets a snapshot of its own.        *)
PersistAgain(p) ==
  LET pass == passes[p]  key == KeyOf(passes[p]) IN
  /\ pass.at = "writing"
  /\ observations' = observations \cup {key}
  /\ snapshots' = snapshots \cup {[key |-> key, createdAt |-> pass.began]}
  /\ changes' = changes + 1
  /\ passes' = [passes EXCEPT ![p] = Stored(pass)]
  /\ UNCHANGED <<pipeNow, rollups, rollers, begun>>

(* persistObservationAtomically: the observation unless its key is there,  *)
(* and its typed snapshot unless that is there.                            *)
Persist(p) ==
  LET pass    == passes[p]
      key     == KeyOf(pass)
      changed == IF key \notin observations \/ ~HasSnapshot(key) THEN 1 ELSE 0
  IN
  /\ pass.at = "writing"
  /\ observations' = observations \cup {key}
  /\ snapshots' = snapshots \cup
       (IF HasSnapshot(key) THEN {} ELSE {[key |-> key, createdAt |-> pass.began]})
  /\ changes' = changes + changed
  /\ passes' = [passes EXCEPT ![p] = Stored(pass)]
  /\ UNCHANGED <<pipeNow, rollups, rollers, begun>>

(* The transaction is rolled back and the job fails: an error of the       *)
(* database, a crash, or the key belongs to an observation of a source     *)
(* that was superseded in that instant.                                    *)
Abort(p) ==
  /\ passes[p].at # "idle"
  /\ passes' = [passes EXCEPT ![p] = IdlePass]
  /\ UNCHANGED <<pipeNow, rollers, begun>> /\ UNCHANGED Tables

(* The job is done.  Whether it reports success or an outage to be retried *)
(* makes no difference to the tables.                                      *)
EndPass(p) ==
  /\ passes[p].at = "looking" /\ passes[p].left = {}
  /\ passes' = [passes EXCEPT ![p] = IdlePass]
  /\ UNCHANGED <<pipeNow, rollers, begun>> /\ UNCHANGED Tables

-----------------------------------------------------------------------------
(* ROLLUP_HISTORY.                                                         *)

(* resolveHistoryRollupWindow: the cutoff is now, or the one asked for.    *)
BeginRollup(w) ==
  /\ rollers[w] = -1
  /\ rollers' = [rollers EXCEPT ![w] = pipeNow]
  /\ UNCHANGED <<pipeNow, passes, begun>> /\ UNCHANGED Tables

BeginResync(w, cutoff) ==
  /\ rollers[w] = -1
  /\ rollers' = [rollers EXCEPT ![w] = cutoff]
  /\ UNCHANGED <<pipeNow, passes, begun>> /\ UNCHANGED Tables

(* A bug: what was created after the cutoff is not left out.               *)
AdmittedEver(cutoff) ==
  {s \in snapshots :
     /\ s.key.metric = "YIELD" /\ s.key.route \in MorphoRoutes
     /\ Day(s.key.at) >= Day(cutoff) - RollupDays /\ Day(s.key.at) < Day(cutoff)}

(* Net yields of days that are over, created by the cutoff.                *)
AdmittedBy(cutoff) ==
  {s \in snapshots :
     /\ s.key.metric = "YIELD" /\ s.key.route \in MorphoRoutes
     /\ Day(s.key.at) >= Day(cutoff) - RollupDays /\ Day(s.key.at) < Day(cutoff)
     /\ s.createdAt <= cutoff}

(* The last of its day; of several at that instant the one whose stable    *)
(* keys come first.                                                        *)
Closes(s, candidates) ==
  \A o \in candidates :
    (o.key.route = s.key.route /\ Day(o.key.at) = Day(s.key.at)) =>
      \/ o.key.at < s.key.at
      \/ o.key.at = s.key.at /\ s.key.value <= o.key.value

Selected(cutoff) == {s \in AdmittedBy(cutoff) : Closes(s, AdmittedBy(cutoff))}

Replaces(s, row) == row.route = s.key.route /\ row.day = Day(s.key.at)

(* A bug: a bucket that is there is left as it is.                         *)
UpsertOnce(cutoff) ==
  rollups' = rollups \cup
    {[route |-> s.key.route, day |-> Day(s.key.at), source |-> s, cutoff |-> cutoff] :
       s \in {x \in Selected(cutoff) : ~\E row \in rollups : Replaces(x, row)}}

(* insert ... on conflict do update, where the source snapshot differs.    *)
Upsert(cutoff) ==
  LET fresh == {s \in Selected(cutoff) : ~\E row \in rollups : row.source = s} IN
  rollups' =
    (rollups \ {row \in rollups : \E s \in fresh : Replaces(s, row)}) \cup
    {[route |-> s.key.route, day |-> Day(s.key.at), source |-> s, cutoff |-> cutoff] : s \in fresh}

(* Beyond the capacity nothing is written, and the job fails.              *)
RunRollup(w) ==
  /\ rollers[w] # -1
  /\ IF Cardinality(Selected(rollers[w])) <= MaxBuckets THEN Upsert(rollers[w])
     ELSE UNCHANGED rollups
  /\ rollers' = [rollers EXCEPT ![w] = -1]
  /\ UNCHANGED <<pipeNow, observations, snapshots, passes, changes, begun>>

-----------------------------------------------------------------------------
(* The clock.                                                              *)

PipeTick ==
  /\ pipeNow < PipeHorizon
  /\ pipeNow' = pipeNow + 1
  /\ UNCHANGED <<passes, rollers, begun>> /\ UNCHANGED Tables

PassStep(p) ==
  \/ \E r \in PipeRoutes : SkipRoute(p, r) \/ FetchRoute(p, r)
  \/ NoObservation(p) \/ OpenTransaction(p) \/ Persist(p) \/ Abort(p) \/ EndPass(p)

PipeNext ==
  \/ \E p \in Passes : (\E routes \in SUBSET PipeRoutes : BeginPass(p, routes)) \/ PassStep(p)
  \/ \E w \in Rollers : BeginRollup(w) \/ RunRollup(w) \/ \E cutoff \in 0 .. pipeNow : BeginResync(w, cutoff)
  \/ PipeTick

PipeSpec == PipeInit /\ [][PipeNext]_pipeVars

(* The clock goes on, the worker runs what it has begun, and the schedule  *)
(* asks for a rollup whoever else asks for one with a cutoff of their own. *)
PipeFairness ==
  /\ WF_pipeVars(PipeTick)
  /\ \A p \in Passes : WF_pipeVars(PassStep(p))
  /\ \A w \in Rollers : SF_pipeVars(BeginRollup(w)) /\ WF_pipeVars(RunRollup(w))

-----------------------------------------------------------------------------
(* Properties.                                                             *)

(* Every observation has exactly one typed snapshot and every snapshot one *)
(* observation, whatever is duplicated, interrupted or run at once         *)
(* (TEST_PLAN.md:188).                                                     *)
ObservationsAreComplete ==
  /\ {s.key : s \in snapshots} = observations
  /\ \A s, t \in snapshots : s.key = t.key => s = t

(* What the passes report as changed is what is in the tables: a duplicate *)
(* is not counted twice, and nothing that was rolled back is counted.      *)
ChangesAreCountedOnce == changes = Cardinality(snapshots)

(* A bucket of the history is a completed day with a net yield of that day *)
(* and knows nothing later than its cutoff (ARCHITECTURE.md:100).          *)
HistoryIsJustified ==
  \A row \in rollups :
    /\ row.source \in snapshots /\ row.source.key.route = row.route
    /\ Day(row.source.key.at) = row.day /\ row.day < Day(row.cutoff)
    /\ row.source.createdAt <= row.cutoff
    /\ \A other \in rollups : other.route = row.route /\ other.day = row.day => other = row

(* What is stored, what is reported of it and what is made of it agree.    *)
RecordsAreJustified == ObservationsAreComplete /\ ChangesAreCountedOnce /\ HistoryIsJustified

(* Again and again every completed day that has a net yield has the last   *)
(* one of its day in the history, however late the transaction that stored *)
(* it was: a rollup with an older cutoff may put a bucket back, and the    *)
(* next one of the schedule repairs it (ARCHITECTURE.md:108).              *)
Closing(route, day) ==
  {s \in snapshots : /\ s.key.metric = "YIELD" /\ s.key.route = route /\ Day(s.key.at) = day
                     /\ \A o \in snapshots :
                          (o.key.metric = "YIELD" /\ o.key.route = route /\ Day(o.key.at) = day) =>
                            o.key.at <= s.key.at}

HistoryConverges ==
  []<>(\A route \in MorphoRoutes, day \in {d \in Days : d < Day(pipeNow)} :
         Closing(route, day) # {} =>
           \E row \in rollups : /\ row.route = route /\ row.day = day
                                /\ row.source \in Closing(route, day))
=============================================================================
