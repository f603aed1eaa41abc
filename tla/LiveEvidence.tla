----------------------------- MODULE LiveEvidence -----------------------------
(***************************************************************************)
(* What the web application asks the Morpho API at request time: apps/web/ *)
(* src/lib/live-morpho.ts with its token bucket (packages/data-adapters/   *)
(* src/rate-limit.ts) and its circuit breaker.                             *)
(*                                                                         *)
(* Pages and API handlers of one process share one cache of evidence, one  *)
(* cached failure and one request under way, which all that need it wait   *)
(* for.  Each of them has read the effective methodology before and gets   *)
(* evidence computed with that one.  Time is a bounded clock.              *)
(***************************************************************************)
EXTENDS CircuitBreaker, FiniteSets

CONSTANTS
  Callers,          \* pages and handlers being served at once
  Methodologies,    \* published versions, one of them effective at a time
  LiveCircuit,      \* options of the circuit breaker
  BucketCapacity,   \* tokens of the rate limiter; one comes back each tick
  EvidenceLifetime, \* five minutes
  ProviderBackoff,  \* sixty seconds
  RequestTime,      \* a request has ended after so many ticks
  LiveHorizon       \* bound on the clock

ASSUME LiveConstants ==
  /\ IsFiniteSet(Callers)
  /\ LiveCircuit \in BreakerOptions
  /\ BucketCapacity \in Nat \ {0}
  /\ EvidenceLifetime \in Nat \ {0} /\ ProviderBackoff \in Nat \ {0}
  /\ RequestTime \in Nat /\ LiveHorizon \in Nat

VARIABLES
  liveNow,
  effective,         \* the methodology that is effective now
  liveCache,
  failureCache,      \* providerFailureCache
  inFlight,          \* providerRequestInFlight: when it began, and whether it got a token
  circuit,
  bucket,            \* tokens, and when they were counted
  callers,
  sent               \* requests the provider has received

liveVars == <<liveNow, effective, liveCache, failureCache, inFlight, circuit, bucket, callers, sent>>

LiveTimes == 0 .. LiveHorizon
Nothing   == [at |-> -1, granted |-> FALSE]
NoCache   == [expiresAt |-> 0, fetchedAt |-> 0, version |-> CHOOSE m \in Methodologies : TRUE]

LiveTypeOK ==
  /\ liveNow \in LiveTimes /\ effective \in Methodologies
  /\ liveCache \in [expiresAt : 0 .. LiveHorizon + EvidenceLifetime, fetchedAt : LiveTimes,
                    version : Methodologies]
  /\ failureCache \in [expiresAt : 0 .. LiveHorizon + ProviderBackoff, version : Methodologies]
  /\ inFlight \in [at : LiveTimes, granted : BOOLEAN] \cup {Nothing}
  /\ circuit \in BreakerRecords(LiveCircuit)
  /\ bucket \in [tokens : 0 .. BucketCapacity, updatedAt : LiveTimes]
  /\ callers \in [Callers -> [at : {"idle", "modelled", "waiting", "answered", "served", "failed"},
                              version : Methodologies, asked : LiveTimes, fetchedAt : LiveTimes,
                              good : BOOLEAN]]
  /\ sent \in Nat

IdleCaller == [at |-> "idle", version |-> NoCache.version, asked |-> 0, fetchedAt |-> 0,
               good |-> FALSE]

LiveInit ==
  /\ liveNow = 0 /\ effective \in Methodologies
  /\ liveCache = NoCache
  /\ failureCache = [expiresAt |-> 0, version |-> NoCache.version]
  /\ inFlight = Nothing /\ circuit = ClosedBreaker
  /\ bucket = [tokens |-> BucketCapacity, updatedAt |-> 0]
  /\ callers = [c \in Callers |-> IdleCaller]
  /\ sent = 0

-----------------------------------------------------------------------------
(* The token bucket.                                                       *)

(* A bug: the bucket has no brim: idle time saves up tokens.               *)
TokensUncapped(at) == bucket.tokens + (at - bucket.updatedAt)

TokensAt(at) ==
  LET tokens == bucket.tokens + (at - bucket.updatedAt)
  IN  IF tokens < BucketCapacity THEN tokens ELSE BucketCapacity

(* A bug: the time of an acquisition is not kept, and tokens come back twice. *)
AcquireUndated(at) ==
  bucket' = [tokens    |-> IF TokensAt(at) < 1 THEN TokensAt(at) ELSE TokensAt(at) - 1,
             updatedAt |-> bucket.updatedAt]

Acquire(at) ==
  bucket' = [tokens    |-> IF TokensAt(at) < 1 THEN TokensAt(at) ELSE TokensAt(at) - 1,
             updatedAt |-> at]

-----------------------------------------------------------------------------
(* fetchLiveMorphoEvidence, from its call to its wait.                     *)

(* getEffectivePublicReadModel, at the end of which the methodology may    *)
(* have been superseded already.                                           *)
ReadModel(c) ==
  /\ callers[c].at = "idle"
  /\ callers' = [callers EXCEPT ![c].at = "modelled", ![c].version = effective]
  /\ UNCHANGED <<liveNow, effective, liveCache, failureCache, inFlight, circuit, bucket, sent>>

(* A bug: whatever evidence there is will do.                              *)
CachedUnchecked(version) == liveCache.expiresAt > liveNow

Cached(version) == liveCache.expiresAt > liveNow /\ liveCache.version = version
BackingOff(version) == failureCache.expiresAt > liveNow /\ failureCache.version = version

UseCache(c) ==
  /\ callers[c].at = "modelled" /\ Cached(callers[c].version)
  /\ callers' = [callers EXCEPT ![c].at = "served", ![c].asked = liveNow,
                                ![c].fetchedAt = liveCache.fetchedAt,
                                ![c].version = liveCache.version]
  /\ UNCHANGED <<liveNow, effective, liveCache, failureCache, inFlight, circuit, bucket, sent>>

UseFailure(c) ==
  /\ callers[c].at = "modelled"
  /\ ~Cached(callers[c].version) /\ BackingOff(callers[c].version)
  /\ callers' = [callers EXCEPT ![c].at = "failed"]
  /\ UNCHANGED <<liveNow, effective, liveCache, failureCache, inFlight, circuit, bucket, sent>>

MustFetch(c) ==
  /\ callers[c].at = "modelled"
  /\ ~Cached(callers[c].version) /\ ~BackingOff(callers[c].version)

Wait(c) == callers' = [callers EXCEPT ![c].at = "waiting", ![c].asked = liveNow]

Join(c) ==
  /\ MustFetch(c) /\ inFlight # Nothing
  /\ Wait(c)
  /\ UNCHANGED <<liveNow, effective, liveCache, failureCache, inFlight, circuit, bucket, sent>>

Launch(c) ==
  /\ MustFetch(c) /\ inFlight = Nothing
  /\ Admits(circuit, LiveCircuit)
  /\ circuit' = Admitted(circuit, LiveCircuit)
  /\ inFlight' = [at |-> liveNow, granted |-> TokensAt(liveNow) >= 1]
  /\ Acquire(liveNow)
  /\ sent' = IF TokensAt(liveNow) < 1 THEN sent ELSE sent + 1
  /\ Wait(c)
  /\ UNCHANGED <<liveNow, effective, liveCache, failureCache>>

(* The circuit refuses: a failure like any other.                          *)
RefusedByCircuit(c) ==
  /\ MustFetch(c) /\ inFlight = Nothing
  /\ ~Admits(circuit, LiveCircuit)
  /\ failureCache' = [expiresAt |-> liveNow + ProviderBackoff, version |-> callers[c].version]
  /\ callers' = [callers EXCEPT ![c].at = "failed"]
  /\ UNCHANGED <<liveNow, effective, liveCache, inFlight, circuit, bucket, sent>>

-----------------------------------------------------------------------------
(* The request ends, and those who wait for it go on one by one.           *)

(* `answered': the breaker counts a success; `good': and the answer has no *)
(* GraphQL errors.  Without a token nothing is sent, which counts as a     *)
(* failure of the provider.                                                *)
RespondLive(answered, good) ==
  /\ inFlight # Nothing
  /\ good => answered
  /\ answered => inFlight.granted
  /\ circuit' = Settled(circuit, LiveCircuit, answered)
  /\ inFlight' = Nothing
  /\ callers' = [c \in Callers |->
       IF callers[c].at = "waiting"
       THEN [callers[c] EXCEPT !.at = "answered", !.fetchedAt = inFlight.at, !.good = good]
       ELSE callers[c]]
  /\ UNCHANGED <<liveNow, effective, liveCache, failureCache, bucket, sent>>

(* A bug: evidence counts as fresh from when its caller goes on.           *)
ServeLate(c) ==
  /\ callers[c].at = "answered" /\ callers[c].good
  /\ liveCache' = [expiresAt |-> liveNow + EvidenceLifetime + RequestTime,
                   fetchedAt |-> callers[c].fetchedAt, version |-> callers[c].version]
  /\ failureCache' = [failureCache EXCEPT !.expiresAt = 0]
  /\ callers' = [callers EXCEPT ![c].at = "served"]
  /\ UNCHANGED <<liveNow, effective, inFlight, circuit, bucket, sent>>

(* The evidence is kept as long after the caller asked as its lifetime.    *)
Serve(c) ==
  /\ callers[c].at = "answered" /\ callers[c].good
  /\ liveCache' = [expiresAt |-> callers[c].asked + EvidenceLifetime,
                   fetchedAt |-> callers[c].fetchedAt, version |-> callers[c].version]
  /\ failureCache' = [failureCache EXCEPT !.expiresAt = 0]
  /\ callers' = [callers EXCEPT ![c].at = "served"]
  /\ UNCHANGED <<liveNow, effective, inFlight, circuit, bucket, sent>>

ServeFailure(c) ==
  /\ callers[c].at = "answered" /\ ~callers[c].good
  /\ failureCache' = [expiresAt |-> liveNow + ProviderBackoff, version |-> callers[c].version]
  /\ callers' = [callers EXCEPT ![c].at = "failed"]
  /\ UNCHANGED <<liveNow, effective, liveCache, inFlight, circuit, bucket, sent>>

(* The page is done, and another one comes.                                *)
Leave(c) ==
  /\ callers[c].at \in {"served", "failed"}
  /\ callers' = [callers EXCEPT ![c] = IdleCaller]
  /\ UNCHANGED <<liveNow, effective, liveCache, failureCache, inFlight, circuit, bucket, sent>>

-----------------------------------------------------------------------------
(* Administrators and the clock.  Continuations run before time goes on,   *)
(* and a request ends in time.                                             *)

Supersede ==
  /\ \E m \in Methodologies \ {effective} : effective' = m
  /\ UNCHANGED <<liveNow, liveCache, failureCache, inFlight, circuit, bucket, callers, sent>>

LiveTick ==
  /\ liveNow < LiveHorizon
  /\ \A c \in Callers : callers[c].at \in {"idle", "modelled", "waiting"}
  /\ inFlight # Nothing => liveNow < inFlight.at + RequestTime
  /\ liveNow' = liveNow + 1
  /\ circuit' = Aged(circuit, LiveCircuit)
  /\ UNCHANGED <<effective, liveCache, failureCache, inFlight, bucket, callers, sent>>

LiveStep(c) ==
  \/ ReadModel(c) \/ UseCache(c) \/ UseFailure(c) \/ Join(c) \/ Launch(c) \/ RefusedByCircuit(c)
  \/ Serve(c) \/ ServeFailure(c) \/ Leave(c)

LiveNext ==
  \/ \E c \in Callers : LiveStep(c)
  \/ \E answered, good \in BOOLEAN : RespondLive(answered, good)
  \/ Supersede
  \/ LiveTick

LiveSpec == LiveInit /\ [][LiveNext]_liveVars

-----------------------------------------------------------------------------
(* Properties.                                                             *)

(* Evidence is no older than its lifetime and the request that fetched it, *)
(* whoever asked for it, waited for it and kept it.                        *)
EvidenceIsRecent ==
  \A c \in Callers : callers[c].at = "served" =>
    liveNow - callers[c].fetchedAt < EvidenceLifetime + RequestTime

(* Risk figures of one methodology are never served to a page that shows   *)
(* another one, although all share one cache.                              *)
EvidenceUsesMethodology ==
  \A c \in Callers : callers'[c].at = "served" => callers'[c].version = callers[c].version

(* The provider receives no more requests than the bucket held and got     *)
(* back, however callers and methodologies alternate.                      *)
ProviderBudget == sent <= BucketCapacity + liveNow

(* One cache and one bucket serve all callers without mixing up what they  *)
(* asked for, when, and how often.                                         *)
LiveEvidenceIsSound == [][EvidenceIsRecent' /\ EvidenceUsesMethodology /\ ProviderBudget']_liveVars
=============================================================================
