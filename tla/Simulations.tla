------------------------------ MODULE Simulations ------------------------------
(***************************************************************************)
(* Portfolio simulations: POST /api/v1/simulations builds candidates from  *)
(* the public read model, has them optimised and saves the result          *)
(* (apps/web/src/app/api/v1/simulations, lib/simulation-candidates.ts,     *)
(* lib/simulation-persistence.ts); saved simulations are renamed and       *)
(* archived by their owners (simulations/saved).                           *)
(*                                                                         *)
(* The methodology and the candidates are read one after the other from a  *)
(* cache that may be renewed in between, the optimiser takes its time, and *)
(* the transaction that saves looks at the methodology and the routes      *)
(* again: administrators publish and withdraw at any of these points.      *)
(***************************************************************************)
EXTENDS Integers, FiniteSets

CONSTANTS
  Researchers,      \* users
  Offered,          \* route slugs
  MaxPublications,  \* bound on methodology versions
  MaxSimulations    \* bound on saved simulations

ASSUME SimulationConstants ==
  IsFiniteSet(Offered) /\ MaxPublications \in Nat \ {0} /\ MaxSimulations \in Nat

VARIABLES
  published,   \* the methodology version that is PUBLISHED
  offers,      \* the routes that are published and active
  cached,      \* the public read model that requests are given
  sessions,    \* the request of each researcher
  simulations  \* the rows of route_simulations, with candidates and allocations

simulationVars == <<published, offers, cached, sessions, simulations>>

Publications == 1 .. MaxPublications
Candidates   == [slug : Offered, methodology : Publications, status : {"CURRENT", "STALE"}]
SimulationOutcomes     == {"FEASIBLE", "INFEASIBLE"}  \* FAILED is as INFEASIBLE

NoSession ==
  [step |-> "NONE", save |-> FALSE, methodology |-> 1, candidates |-> {}, allocations |-> {},
   outcome |-> "INFEASIBLE"]

SimulationsTypeOK ==
  /\ published \in Publications
  /\ offers \subseteq Offered
  /\ cached.methodology \in Publications /\ cached.candidates \subseteq Candidates
  /\ \A u \in Researchers :
       /\ sessions[u].step \in {"NONE", "READ", "BUILT", "OPTIMIZED", "CHECKED", "ANSWERED"}
       /\ sessions[u].candidates \subseteq Candidates
       /\ sessions[u].allocations \subseteq Offered /\ sessions[u].outcome \in SimulationOutcomes
  /\ \A s \in simulations :
       /\ s.owner \in Researchers /\ s.methodology \in Publications /\ s.outcome \in SimulationOutcomes
       /\ s.rows \subseteq [candidate : Candidates, included : BOOLEAN] /\ s.allocations \subseteq Offered
       /\ s.named \in BOOLEAN /\ s.archived \in BOOLEAN

SimulationsInit ==
  /\ published = 1
  /\ offers = Offered
  /\ cached = [methodology |-> 1, candidates |-> {}]
  /\ sessions = [u \in Researchers |-> NoSession]
  /\ simulations = {}

-----------------------------------------------------------------------------
(* Administrators, and the cache of the read model, with the candidates    *)
(* that buildSimulationCandidates makes of it.                             *)

PublishMethodology ==
  /\ published < MaxPublications /\ published' = published + 1
  /\ UNCHANGED <<offers, cached, sessions, simulations>>

WithdrawOrReplace(o) ==
  /\ offers' = IF o \in offers THEN offers \ {o} ELSE offers \cup {o}
  /\ UNCHANGED <<published, cached, sessions, simulations>>

(* Of a public route, a candidate if no family of its evidence is missing, *)
(* and a stale one if any of them is: candidateDataStatus.                 *)
RenewModel ==
  /\ \E routes \in SUBSET offers :
     \E status \in [routes -> {"CURRENT", "STALE"}] :
       cached' = [methodology |-> published,
                  candidates |-> {[slug |-> o, methodology |-> published, status |-> status[o]] :
                                    o \in routes}]
  /\ cached' # cached
  /\ UNCHANGED <<published, offers, sessions, simulations>>

-----------------------------------------------------------------------------
Proceed(u, fields) ==
  /\ sessions' = [sessions EXCEPT ![u] = fields]
  /\ UNCHANGED <<published, offers, cached, simulations>>

Simulate(u, save) ==
  /\ sessions[u].step = "NONE" /\ Cardinality(simulations) < MaxSimulations
  /\ Proceed(u, [NoSession EXCEPT !.step = "READ", !.save = save, !.methodology = cached.methodology])

BuildCandidates(u) ==
  /\ sessions[u].step = "READ"
  /\ Proceed(u, [sessions[u] EXCEPT !.step = "BUILT", !.candidates = cached.candidates])

(* A bug: candidates of another methodology are not excluded.              *)
ExcludedStaleOnly(c, methodology) == c.status # "CURRENT"

(* METHODOLOGY_VERSION_MISMATCH, and evidence that is not current.         *)
Excluded(c, methodology) == c.methodology # methodology \/ c.status # "CURRENT"

(* optimizePortfolio, for any policy: it may allocate to what it does not  *)
(* exclude, and gives its reason when there is nothing.                    *)
Optimize(u) ==
  LET s == sessions[u]
      eligible == {c \in s.candidates : ~Excluded(c, s.methodology)}
  IN
  /\ s.step = "BUILT"
  /\ \E allocations \in SUBSET {c.slug : c \in eligible}, outcome \in SimulationOutcomes :
       /\ (outcome = "FEASIBLE") <=> (allocations # {})
       /\ Proceed(u, [s EXCEPT !.step = IF s.save THEN "OPTIMIZED" ELSE "ANSWERED",
                               !.allocations = allocations, !.outcome = outcome])

(* The transaction that saves: the methodology must still be published ... *)
CheckReferences(u) ==
  /\ sessions[u].step = "OPTIMIZED" /\ sessions[u].methodology = published
  /\ Proceed(u, [sessions[u] EXCEPT !.step = "CHECKED"])

(* A bug: candidates whose route was withdrawn are not written.            *)
PersistableAsFound(candidates) == TRUE

(* ... and each candidate, excluded or not, must be a public route.        *)
Persistable(candidates) == \A c \in candidates : c.slug \in offers

RowsOf(s) ==
  {[candidate |-> c, included |-> ~Excluded(c, s.methodology)] :
     c \in {x \in s.candidates : x.slug \in offers}}

Save(u) ==
  LET s == sessions[u] IN
  /\ s.step = "CHECKED" /\ Persistable(s.candidates)
  /\ Cardinality(simulations) < MaxSimulations
  /\ simulations' = simulations \cup
       {[number |-> Cardinality(simulations), owner |-> u, methodology |-> s.methodology,
         outcome |-> s.outcome, considered |-> s.candidates, rows |-> RowsOf(s),
         allocations |-> s.allocations, named |-> FALSE, archived |-> FALSE]}
  /\ sessions' = [sessions EXCEPT ![u].step = "ANSWERED"]
  /\ UNCHANGED <<published, offers, cached>>

(* 503: nothing is stored of a simulation that cannot be saved whole.      *)
SaveFails(u) ==
  /\ sessions[u].step \in {"OPTIMIZED", "CHECKED"}
  /\ Proceed(u, [sessions[u] EXCEPT !.step = "ANSWERED"])

Dismiss(u) == sessions[u].step = "ANSWERED" /\ Proceed(u, NoSession)

-----------------------------------------------------------------------------
(* Saved simulations.                                                      *)

Owned(u) == {s \in simulations : s.owner = u /\ ~s.archived}

Change(s, changed) ==
  /\ simulations' = (simulations \ {s}) \cup {changed}
  /\ UNCHANGED <<published, offers, cached, sessions>>

Rename(u) == \E s \in Owned(u) : ~s.named /\ Change(s, [s EXCEPT !.named = TRUE])

Archive(u) == \E s \in Owned(u) : Change(s, [s EXCEPT !.archived = TRUE])

-----------------------------------------------------------------------------
SimulationsNext ==
  \/ PublishMethodology
  \/ \E o \in Offered : WithdrawOrReplace(o)
  \/ RenewModel
  \/ \E u \in Researchers :
       \/ \E save \in BOOLEAN : Simulate(u, save)
       \/ BuildCandidates(u) \/ Optimize(u) \/ CheckReferences(u) \/ Save(u) \/ SaveFails(u)
       \/ Dismiss(u) \/ Rename(u) \/ Archive(u)

SimulationsSpec == SimulationsInit /\ [][SimulationsNext]_simulationVars

-----------------------------------------------------------------------------
(* Properties.                                                             *)

(* Whatever is published between the reads of a request, a simulation      *)
(* allocates only to candidates whose risk was scored with the methodology *)
(* it names and whose evidence was current (TEST_PLAN.md:212).             *)
AllocationsAreComparable ==
  /\ \A u \in Researchers : sessions[u].step \in {"OPTIMIZED", "CHECKED", "ANSWERED"} =>
       \A slug \in sessions[u].allocations : \E c \in sessions[u].candidates :
         c.slug = slug /\ c.methodology = sessions[u].methodology /\ c.status = "CURRENT"
  /\ \A s \in simulations : \A slug \in s.allocations : \E row \in s.rows :
       row.candidate.slug = slug /\ row.included /\ row.candidate.methodology = s.methodology

(* A saved simulation can be reviewed and repeated: it holds each of the   *)
(* candidates that were considered, those excluded as well, or it was not  *)
(* saved at all (TEST_PLAN.md:213).                                        *)
SavedSimulationsAreWhole ==
  \A s \in simulations : {row.candidate : row \in s.rows} = s.considered

(* A simulation may be relied upon when it is answered and when it is read *)
(* again later.                                                            *)
SimulationsAreSound == AllocationsAreComparable /\ SavedSimulationsAreWhole

=============================================================================
