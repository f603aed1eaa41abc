--------------------------- MODULE ProviderRequests ---------------------------
(***************************************************************************)
(* The requests of the worker's Morpho adapter: packages/data-adapters/    *)
(* src/morpho.ts and safe-fetch.ts behind the circuit breaker that all     *)
(* requests of the adapter share.  INGEST_SOURCE asks for three metrics of *)
(* a route at once, and several jobs may run, so requests are admitted,    *)
(* time out and finish in any order, also after the circuit has opened or  *)
(* closed again.  Redirects are refused, as every caller allows none.      *)
(***************************************************************************)
EXTENDS CircuitBreaker, FiniteSets

CONSTANTS
  Requests,         \* calls of the adapter that may be under way at once
  AdapterCircuit    \* the options of the adapter's circuit breaker

ASSUME RequestConstants == IsFiniteSet(Requests) /\ AdapterCircuit \in BreakerOptions

VARIABLES
  breaker,
  requests,    \* where each request is, and whether its timeout has fired
  provider,    \* UP: it answers every request well and in time
  streak,      \* failures in a row, up to the failure threshold
  recovery,    \* successes in a row, up to the success threshold
  probes,      \* requests under way that a half-open circuit let through
  strays       \* others that ended since the circuit opened, up to their number

requestVars == <<breaker, requests, provider, streak, recovery, probes, strays>>

Idling == [at |-> "idle", late |-> FALSE]

RequestsTypeOK ==
  /\ breaker \in BreakerRecords(AdapterCircuit)
  /\ requests \in [Requests -> [at : {"idle", "resolving", "fetching", "reading"}, late : BOOLEAN]]
  /\ provider \in {"UP", "DOWN"}
  /\ streak \in 0 .. AdapterCircuit.failureThreshold
  /\ recovery \in 0 .. AdapterCircuit.successThreshold
  /\ probes \subseteq {r \in Requests : requests[r].at # "idle"}
  /\ strays \in 0 .. Cardinality(Requests)

RequestsInit ==
  /\ breaker = ClosedBreaker
  /\ requests = [r \in Requests |-> Idling]
  /\ provider = "UP"
  /\ streak = 0 /\ recovery = 0 /\ probes = {} /\ strays = 0

Upto(n, bound) == IF n < bound THEN n ELSE bound

-----------------------------------------------------------------------------
(* Admission.  A request that the circuit refuses changes nothing.         *)

Send(r) ==
  /\ requests[r].at = "idle"
  /\ Admits(breaker, AdapterCircuit)
  /\ breaker' = Admitted(breaker, AdapterCircuit)
  /\ requests' = [requests EXCEPT ![r] = [at |-> "resolving", late |-> FALSE]]
  /\ probes' = IF breaker.open THEN probes \cup {r} ELSE probes
  /\ UNCHANGED <<provider, streak, recovery, strays>>

(* A request leaves the breaker.                                           *)
Finish(r, succeeded) ==
  LET settled == Settled(breaker, AdapterCircuit, succeeded) IN
  /\ breaker' = settled
  /\ requests' = [requests EXCEPT ![r] = Idling]
  /\ streak' = IF succeeded THEN 0 ELSE Upto(streak + 1, AdapterCircuit.failureThreshold)
  /\ recovery' = IF succeeded THEN Upto(recovery + 1, AdapterCircuit.successThreshold) ELSE 0
  /\ probes' = IF breaker.open /\ settled.open THEN probes \ {r} ELSE {}
  /\ strays' = CASE ~breaker.open \/ ~settled.open -> 0
                 [] breaker.open /\ settled.open /\ r \in probes -> strays
                 [] breaker.open /\ settled.open /\ r \notin probes ->
                      Upto(strays + 1, Cardinality(Requests))
  /\ UNCHANGED provider

-----------------------------------------------------------------------------
(* safeFetchJson.                                                          *)

(* The timer only aborts the fetch and the body; a lookup goes on.         *)
TimeOut(r) ==
  /\ requests[r].at # "idle" /\ ~requests[r].late
  /\ provider = "DOWN"
  /\ requests' = [requests EXCEPT ![r].late = TRUE]
  /\ UNCHANGED <<breaker, provider, streak, recovery, probes, strays>>

(* DNS_LOOKUP_FAILED or UNSAFE_DESTINATION otherwise.                      *)
Resolve(r) ==
  /\ requests[r].at = "resolving"
  /\ \/ /\ requests' = [requests EXCEPT ![r].at = "fetching"]
        /\ UNCHANGED <<breaker, provider, streak, recovery, probes, strays>>
     \/ provider = "DOWN" /\ Finish(r, FALSE)

(* TIMEOUT, NETWORK_FAILURE, REDIRECT_BLOCKED, a status other than 200, or *)
(* a content type that is not expected: all are failures to the breaker.   *)
Respond(r) ==
  /\ requests[r].at = "fetching"
  /\ \/ /\ ~requests[r].late
        /\ requests' = [requests EXCEPT ![r].at = "reading"]
        /\ UNCHANGED <<breaker, provider, streak, recovery, probes, strays>>
     \/ (requests[r].late \/ provider = "DOWN") /\ Finish(r, FALSE)

(* The body is aborted, too large or malformed; or it is good, which is a  *)
(* success to the breaker whatever it says: errors that GraphQL reports,   *)
(* or a metric that is absent, are found later.                            *)
ReadBody(r) ==
  /\ requests[r].at = "reading"
  /\ \/ ~requests[r].late /\ Finish(r, TRUE)
     \/ (requests[r].late \/ provider = "DOWN") /\ Finish(r, FALSE)

-----------------------------------------------------------------------------
(* The provider and the clock.                                             *)

ProviderChanges ==
  /\ provider' = IF provider = "UP" THEN "DOWN" ELSE "UP"
  /\ UNCHANGED <<breaker, requests, streak, recovery, probes, strays>>

BreakerTick ==
  /\ breaker' = Aged(breaker, AdapterCircuit)
  /\ breaker' # breaker
  /\ UNCHANGED <<requests, provider, streak, recovery, probes, strays>>

RequestStep(r) == Send(r) \/ Resolve(r) \/ Respond(r) \/ ReadBody(r)

RequestsNext ==
  \/ \E r \in Requests : RequestStep(r) \/ TimeOut(r)
  \/ ProviderChanges
  \/ BreakerTick

RequestsSpec == RequestsInit /\ [][RequestsNext]_requestVars

(* Jobs keep asking, lookups and fetches end, the clock goes on.           *)
RequestsFairness ==
  /\ \A r \in Requests : WF_requestVars(RequestStep(r))
  /\ WF_requestVars(BreakerTick)

-----------------------------------------------------------------------------
(* Properties.                                                             *)

(* The circuit is open after as many failures in a row as its threshold,   *)
(* and stays closed before that, in whatever order requests end            *)
(* (the circuit states of TEST_PLAN.md:174).                               *)
OpensOnFailuresInARow ==
  ~breaker.open => streak < AdapterCircuit.failureThreshold

(* It opens for that reason only, and closes only when the last requests,  *)
(* as many as its success threshold, all succeeded.                        *)
ChangesForCause ==
  /\ ~breaker.open /\ breaker'.open => streak' >= AdapterCircuit.failureThreshold
  /\ breaker.open /\ ~breaker'.open => recovery' >= AdapterCircuit.successThreshold

(* A half-open circuit lets one request at a time find out whether the     *)
(* provider recovered, and one more for each request from before it opened *)
(* that ended since: that one clears the flag of another (TEST_PLAN.md:174).*)
ProbesAreCounted ==
  Cardinality(probes) <= strays + (IF breaker.probing THEN 1 ELSE 0)

(* What the breaker counts is what happened, however requests overlap.     *)
CircuitKeepsCount ==
  [][OpensOnFailuresInARow' /\ ChangesForCause /\ ProbesAreCounted']_requestVars

(* When the provider is back for good the circuit closes for good, whatever *)
(* was under way when it was down (REQUIREMENTS.md:191).                   *)
CircuitRecovers == <>[](provider = "UP") => <>[](~breaker.open)
=============================================================================
