-------------------------- MODULE DataPipelineProofs --------------------------
(* Proofs about what reaches the stored history and the alerts:            *)
(* ProviderRequests, ObservationPipeline and AlertSignals.                 *)
EXTENDS MCDataPipeline, FiniteSetTheorems, TLAPS

-----------------------------------------------------------------------------
(* The circuit breaker.                                                    *)

Breakers == BreakerRecords(AdapterCircuit)

HalfOpen(b) == b.open /\ b.openedFor >= AdapterCircuit.recoveryTimeout

(* What a request that leaves does to the fields of the breaker.           *)
AfterSuccess(b, after) ==
  /\ ~HalfOpen(b) => after.open = b.open /\ after.failures = 0 /\ after.successes = b.successes
  /\ HalfOpen(b) /\ b.successes + 1 < AdapterCircuit.successThreshold =>
       after.open /\ after.successes = b.successes + 1
  /\ HalfOpen(b) /\ b.successes + 1 >= AdapterCircuit.successThreshold =>
       ~after.open /\ after.failures = 0 /\ after.successes = 0

AfterFailure(b, after) ==
  LET count == FailureCount(b, AdapterCircuit) IN
  /\ after.successes = 0 /\ after.failures = count
  /\ HalfOpen(b) \/ count >= AdapterCircuit.failureThreshold => after.open
  /\ ~HalfOpen(b) /\ count < AdapterCircuit.failureThreshold => after.open = b.open

LEMMA CircuitConstants ==
  /\ AdapterCircuit.failureThreshold \in Nat \ {0}
  /\ AdapterCircuit.successThreshold \in Nat \ {0}
  /\ AdapterCircuit.recoveryTimeout \in Nat \ {0}
  /\ Cardinality(Requests) \in Nat
  BY RequestConstants, FS_CardinalityType DEF BreakerOptions

LEMMA BreakerFields ==
  ASSUME NEW b \in Breakers
  PROVE  /\ b.failures \in 0 .. AdapterCircuit.failureThreshold
         /\ b.successes \in 0 .. AdapterCircuit.successThreshold - 1
         /\ b.openedFor \in 0 .. AdapterCircuit.recoveryTimeout
         /\ b.open \in BOOLEAN /\ b.probing \in BOOLEAN
         /\ BreakerState(b, AdapterCircuit) = "HALF_OPEN" <=> HalfOpen(b)
<1>1. /\ b.failures \in 0 .. AdapterCircuit.failureThreshold
      /\ b.successes \in 0 .. AdapterCircuit.successThreshold - 1
      /\ b.openedFor \in 0 .. AdapterCircuit.recoveryTimeout
      /\ b.open \in BOOLEAN /\ b.probing \in BOOLEAN
  BY DEF Breakers, BreakerRecords
<1>2. BreakerState(b, AdapterCircuit) = "HALF_OPEN" <=> HalfOpen(b)
  BY <1>1, CircuitConstants DEF BreakerState, HalfOpen
<1> QED
  BY <1>1, <1>2

(* The flag of the half-open circuit is set and cleared apart.             *)
LEMMA FlagOnly ==
  ASSUME NEW b \in Breakers, NEW flag \in BOOLEAN, NEW after, after = [b EXCEPT !.probing = flag]
  PROVE  /\ after \in Breakers /\ after.probing = flag /\ after.open = b.open
         /\ after.failures = b.failures /\ after.successes = b.successes
  BY DEF Breakers, BreakerRecords

LEMMA Admission ==
  ASSUME NEW b \in Breakers, Admits(b, AdapterCircuit)
  PROVE  LET after == Admitted(b, AdapterCircuit) IN
         /\ after \in Breakers /\ after.open = b.open
         /\ after.failures = b.failures /\ after.successes = b.successes
         /\ b.open => ~b.probing /\ after.probing
         /\ ~b.open => after.probing = b.probing
<1> DEFINE after == Admitted(b, AdapterCircuit)
<1> DEFINE flag  == b.probing \/ BreakerState(b, AdapterCircuit) = "HALF_OPEN"
<1>1. after = [b EXCEPT !.probing = flag]
  BY DEF Admitted
<1>2. b.open => BreakerState(b, AdapterCircuit) = "HALF_OPEN" /\ ~b.probing
  <2>1. b.open => BreakerState(b, AdapterCircuit) # "CLOSED"
    BY BreakerFields, CircuitConstants DEF BreakerState
  <2> QED
    BY <2>1 DEF Admits
<1>3. ~b.open => BreakerState(b, AdapterCircuit) # "HALF_OPEN"
  BY BreakerFields DEF HalfOpen
<1>4. flag \in BOOLEAN
  OBVIOUS
<1>5. b.open => flag
  BY <1>2
<1>6. ~b.open => (flag <=> b.probing)
  BY <1>3
<1>7. b.probing \in BOOLEAN
  BY BreakerFields
<1>8. ~b.open => flag = b.probing
  BY <1>4, <1>6, <1>7
<1> HIDE DEF after, flag
<1>9. /\ after \in Breakers /\ after.probing = flag /\ after.open = b.open
      /\ after.failures = b.failures /\ after.successes = b.successes
  BY <1>1, <1>4, FlagOnly
<1>10. b.open => ~b.probing /\ after.probing
  BY <1>2, <1>5, <1>9
<1> QED
  BY <1>8, <1>9, <1>10 DEF after

LEMMA Succeeds ==
  ASSUME NEW b \in Breakers
  PROVE  LET after == RecordSuccess(b, AdapterCircuit) IN after \in Breakers /\ AfterSuccess(b, after)
<1> DEFINE after == RecordSuccess(b, AdapterCircuit)
<1>record. b = [failures |-> b.failures, successes |-> b.successes, openedFor |-> b.openedFor,
           open |-> b.open, probing |-> b.probing]
  BY DEF Breakers, BreakerRecords
<1>1. CASE ~HalfOpen(b)
  <2>1. after = [b EXCEPT !.failures = 0]
    BY <1>1, BreakerFields DEF RecordSuccess
  <2> HIDE DEF after
  <2>2. /\ after \in Breakers /\ after.failures = 0
        /\ after.successes = b.successes /\ after.open = b.open
    BY <2>1, CircuitConstants DEF Breakers, BreakerRecords
  <2> QED
    BY <1>1, <2>2 DEF AfterSuccess, after
<1>2. CASE HalfOpen(b) /\ b.successes + 1 >= AdapterCircuit.successThreshold
  <2>1. after = [b EXCEPT !.failures = 0, !.successes = 0, !.open = FALSE, !.openedFor = 0]
    BY <1>2, BreakerFields DEF RecordSuccess
  <2> HIDE DEF after
  <2>2. after = [failures |-> 0, successes |-> 0, openedFor |-> 0, open |-> FALSE, probing |-> b.probing]
    BY <2>1, <1>record
  <2>3. after \in Breakers /\ after.failures = 0 /\ after.successes = 0 /\ ~after.open
    BY <2>2, BreakerFields, CircuitConstants DEF Breakers, BreakerRecords
  <2> QED
    BY <1>2, <2>3, BreakerFields, CircuitConstants DEF AfterSuccess, after
<1>3. CASE HalfOpen(b) /\ ~(b.successes + 1 >= AdapterCircuit.successThreshold)
  <2>1. after = [b EXCEPT !.successes = b.successes + 1]
    BY <1>3, BreakerFields DEF RecordSuccess
  <2> HIDE DEF after
  <2>2. b.open
    BY <1>3 DEF HalfOpen
  <2>3. b.successes + 1 \in 0 .. AdapterCircuit.successThreshold - 1
    BY <1>3, BreakerFields, CircuitConstants
  <2>4. after \in Breakers /\ after.successes = b.successes + 1 /\ after.open
    BY <2>1, <2>2, <2>3 DEF Breakers, BreakerRecords
  <2> QED
    BY <1>3, <2>3, <2>4, BreakerFields, CircuitConstants DEF AfterSuccess, after
<1> QED
  BY <1>1, <1>2, <1>3

LEMMA Fails ==
  ASSUME NEW b \in Breakers
  PROVE  LET after == RecordFailure(b, AdapterCircuit) IN after \in Breakers /\ AfterFailure(b, after)
<1> DEFINE after == RecordFailure(b, AdapterCircuit)
<1>record. b = [failures |-> b.failures, successes |-> b.successes, openedFor |-> b.openedFor,
           open |-> b.open, probing |-> b.probing]
  BY DEF Breakers, BreakerRecords
<1> DEFINE count == FailureCount(b, AdapterCircuit)
<1>1. count \in 0 .. AdapterCircuit.failureThreshold
  BY BreakerFields, CircuitConstants DEF FailureCount
<1>2. CASE HalfOpen(b) \/ count >= AdapterCircuit.failureThreshold
  <2>1. after = [b EXCEPT !.successes = 0, !.failures = count, !.open = TRUE, !.openedFor = 0]
    BY <1>2, BreakerFields DEF RecordFailure
  <2>2. after \in Breakers /\ after.failures = count /\ after.successes = 0 /\ after.open
    <3> HIDE DEF count, after
    <3>1. after = [failures |-> count, successes |-> 0, openedFor |-> 0, open |-> TRUE, probing |-> b.probing]
      BY <2>1, <1>record
    <3> QED
      BY <1>1, <3>1, BreakerFields, CircuitConstants DEF Breakers, BreakerRecords
  <2>3. HalfOpen(b) \/ ~(count < AdapterCircuit.failureThreshold)
    BY <1>1, <1>2, CircuitConstants
  <2> HIDE DEF after
  <2> QED
    BY <2>2, <2>3 DEF AfterFailure, after
<1>3. CASE ~(HalfOpen(b) \/ count >= AdapterCircuit.failureThreshold)
  <2>1. after = [b EXCEPT !.successes = 0, !.failures = count]
    BY <1>3, BreakerFields DEF RecordFailure
  <2>2. after \in Breakers /\ after.failures = count /\ after.successes = 0 /\ after.open = b.open
    <3> HIDE DEF count, after
    <3>1. after = [failures |-> count, successes |-> 0, openedFor |-> b.openedFor, open |-> b.open,
               probing |-> b.probing]
      BY <2>1, <1>record
    <3> QED
      BY <1>1, <3>1, BreakerFields, CircuitConstants DEF Breakers, BreakerRecords
  <2> HIDE DEF after
  <2> QED
    BY <1>1, <1>3, <2>2, CircuitConstants DEF AfterFailure, after
<1> QED
  BY <1>2, <1>3

(* A closed circuit has counted the failures in a row, fewer than open it; *)
(* successes that it has counted were in a row; and only an open circuit   *)
(* has requests that probe.                                                *)
CircuitInv ==
  /\ RequestsTypeOK
  /\ ~breaker.open => breaker.failures = streak /\ streak < AdapterCircuit.failureThreshold
  /\ ~breaker.open => probes = {}
  /\ breaker.successes <= recovery
  /\ ProbesAreCounted

LEMMA ProbesAreFinite ==
  ASSUME CircuitInv
  PROVE  /\ IsFiniteSet(probes) /\ Cardinality(probes) \in Nat
         /\ Cardinality(probes) <= Cardinality(Requests)
<1>1. probes \subseteq Requests
  BY DEF CircuitInv, RequestsTypeOK
<1> QED
  BY <1>1, RequestConstants, FS_Subset, FS_CardinalityType

LEMMA CircuitInitInv == RequestsInit => CircuitInv
<1> SUFFICES ASSUME RequestsInit PROVE CircuitInv
  OBVIOUS
<1>1. RequestsTypeOK
  BY CircuitConstants
     DEF RequestsInit, RequestsTypeOK, ClosedBreaker, BreakerRecords, Idling
<1>2. ProbesAreCounted
  BY FS_EmptySet DEF RequestsInit, ProbesAreCounted, ClosedBreaker
<1> QED
  BY <1>1, <1>2, CircuitConstants DEF RequestsInit, CircuitInv, ClosedBreaker

(* A request that leaves, with what the step changes of the circuit.       *)
LEMMA FinishStep ==
  ASSUME CircuitInv, NEW r \in Requests, NEW succeeded \in BOOLEAN, requests[r].at # "idle",
         Finish(r, succeeded)
  PROVE  CircuitInv' /\ ChangesForCause
<1> DEFINE count == FailureCount(breaker, AdapterCircuit)
<1>1. breaker \in Breakers
  BY DEF CircuitInv, RequestsTypeOK, Breakers
<1>2. /\ breaker' \in Breakers /\ ~breaker'.probing
      /\ succeeded => AfterSuccess(breaker, breaker')
      /\ ~succeeded => AfterFailure(breaker, breaker')
  <2> DEFINE recorded == IF succeeded THEN RecordSuccess(breaker, AdapterCircuit)
                         ELSE RecordFailure(breaker, AdapterCircuit)
  <2>1. /\ recorded \in Breakers
        /\ succeeded => AfterSuccess(breaker, recorded)
        /\ ~succeeded => AfterFailure(breaker, recorded)
    BY <1>1, Succeeds, Fails
  <2>2. breaker' = [recorded EXCEPT !.probing = FALSE]
    BY DEF Finish, Settled
  <2> HIDE DEF recorded
  <2>3. /\ breaker' \in Breakers /\ breaker'.probing = FALSE /\ breaker'.open = recorded.open
        /\ breaker'.failures = recorded.failures /\ breaker'.successes = recorded.successes
    BY <2>1, <2>2, FlagOnly
  <2>4. AfterSuccess(breaker, recorded) => AfterSuccess(breaker, breaker')
    BY <2>3 DEF AfterSuccess
  <2>5. AfterFailure(breaker, recorded) => AfterFailure(breaker, breaker')
    BY <2>3 DEF AfterFailure
  <2> QED
    BY <2>1, <2>3, <2>4, <2>5
<1>3. /\ streak \in 0 .. AdapterCircuit.failureThreshold
      /\ recovery \in 0 .. AdapterCircuit.successThreshold
      /\ strays \in 0 .. Cardinality(Requests)
      /\ ~breaker.open => breaker.failures = streak /\ streak < AdapterCircuit.failureThreshold
      /\ ~breaker.open => probes = {}
      /\ breaker.successes <= recovery
  BY DEF CircuitInv, RequestsTypeOK
<1>4. /\ breaker.failures \in Nat /\ breaker.successes \in Nat
      /\ breaker.open \in BOOLEAN /\ breaker'.open \in BOOLEAN
      /\ breaker'.failures \in Nat /\ breaker'.successes \in 0 .. AdapterCircuit.successThreshold - 1
  BY <1>1, <1>2, BreakerFields, CircuitConstants
<1>5. /\ streak' \in 0 .. AdapterCircuit.failureThreshold
      /\ recovery' \in 0 .. AdapterCircuit.successThreshold
      /\ strays' \in 0 .. Cardinality(Requests)
      /\ ~breaker'.open => breaker'.failures = streak' /\ streak' < AdapterCircuit.failureThreshold
      /\ breaker'.successes <= recovery'
      /\ ~breaker.open /\ breaker'.open => streak' >= AdapterCircuit.failureThreshold
      /\ breaker.open /\ ~breaker'.open => recovery' >= AdapterCircuit.successThreshold
      /\ probes' = IF breaker.open /\ breaker'.open THEN probes \ {r} ELSE {}
      /\ breaker.open /\ breaker'.open /\ r \in probes => strays' = strays
      /\ breaker.open /\ breaker'.open /\ r \notin probes =>
           strays' = IF strays + 1 < Cardinality(Requests) THEN strays + 1 ELSE Cardinality(Requests)
  <2>1. /\ probes' = IF breaker.open /\ breaker'.open THEN probes \ {r} ELSE {}
        /\ breaker.open /\ breaker'.open /\ r \in probes => strays' = strays
        /\ breaker.open /\ breaker'.open /\ r \notin probes =>
             strays' = IF strays + 1 < Cardinality(Requests) THEN strays + 1 ELSE Cardinality(Requests)
        /\ ~(breaker.open /\ breaker'.open) => strays' = 0
    BY <1>4 DEF Finish, Upto
  <2>2. strays' \in 0 .. Cardinality(Requests)
    BY <1>3, <2>1, CircuitConstants
  <2>3. CASE succeeded
    <3>1. /\ streak' = 0
          /\ recovery' = IF recovery + 1 < AdapterCircuit.successThreshold THEN recovery + 1
                         ELSE AdapterCircuit.successThreshold
      BY <2>3 DEF Finish, Upto
    <3> QED
      BY <1>2, <1>3, <1>4, <2>1, <2>2, <2>3, <3>1, CircuitConstants DEF AfterSuccess, HalfOpen
  <2>4. CASE ~succeeded
    <3>1. /\ recovery' = 0
          /\ streak' = IF streak + 1 < AdapterCircuit.failureThreshold THEN streak + 1
                       ELSE AdapterCircuit.failureThreshold
      BY <2>4 DEF Finish, Upto
    <3>2. count = IF breaker.failures < AdapterCircuit.failureThreshold THEN breaker.failures + 1
                  ELSE breaker.failures
      BY DEF FailureCount
    <3>3. /\ breaker'.successes = 0 /\ breaker'.failures = count
          /\ count >= AdapterCircuit.failureThreshold => breaker'.open
          /\ ~breaker.open /\ count < AdapterCircuit.failureThreshold => ~breaker'.open
          /\ breaker.open => breaker'.open
      BY <1>2, <1>4, <2>4, CircuitConstants, <3>2 DEF AfterFailure, HalfOpen
    <3> HIDE DEF count
    <3> QED
      BY <1>3, <1>4, <2>1, <2>2, <3>1, <3>2, <3>3, CircuitConstants
  <2> QED
    BY <2>3, <2>4
<1>6. ChangesForCause
  BY <1>5 DEF ChangesForCause
<1>7. ProbesAreCounted'
  <2>1. /\ IsFiniteSet(probes) /\ Cardinality(probes) \in Nat
        /\ Cardinality(probes) <= Cardinality(Requests)
    BY ProbesAreFinite
  <2>2. Cardinality(probes) <= strays + 1
    BY <1>3, <2>1, CircuitConstants DEF CircuitInv, ProbesAreCounted
  <2>3. CASE breaker.open /\ breaker'.open /\ r \in probes
    <3>1. Cardinality(probes') = Cardinality(probes) - 1 /\ strays' = strays
      BY <1>5, <2>1, <2>3, FS_RemoveElement
    <3> QED
      BY <1>2, <1>3, <2>1, <2>2, <3>1, CircuitConstants DEF ProbesAreCounted
  <2>4. CASE breaker.open /\ breaker'.open /\ r \notin probes
    <3>1. probes' = probes
      BY <1>5, <2>4
    <3> QED
      BY <1>2, <1>3, <1>5, <2>1, <2>2, <2>4, <3>1, CircuitConstants DEF ProbesAreCounted
  <2>5. CASE ~(breaker.open /\ breaker'.open)
    <3>1. Cardinality(probes') = 0
      BY <1>5, <2>5, FS_EmptySet
    <3> QED
      BY <1>2, <1>5, <3>1, CircuitConstants DEF ProbesAreCounted
  <2> QED
    BY <2>3, <2>4, <2>5
<1>8. /\ requests' = [requests EXCEPT ![r] = Idling] /\ provider' = provider
      /\ requests \in [Requests -> [at : {"idle", "resolving", "fetching", "reading"}, late : BOOLEAN]]
      /\ provider \in {"UP", "DOWN"} /\ probes \subseteq {q \in Requests : requests[q].at # "idle"}
  BY DEF Finish, CircuitInv, RequestsTypeOK
<1>9. /\ requests' \in [Requests -> [at : {"idle", "resolving", "fetching", "reading"}, late : BOOLEAN]]
      /\ probes' \subseteq {q \in Requests : requests'[q].at # "idle"}
  BY <1>5, <1>8 DEF Idling
<1>10. RequestsTypeOK'
  BY <1>2, <1>5, <1>8, <1>9 DEF RequestsTypeOK, Breakers
<1> QED
  BY <1>5, <1>6, <1>7, <1>10 DEF CircuitInv

LEMMA CircuitStep ==
  ASSUME CircuitInv, [RequestsNext]_requestVars
  PROVE  CircuitInv' /\ ChangesForCause
<1> USE DEF CircuitInv, RequestsTypeOK
<1>1. breaker \in Breakers
  BY DEF Breakers
<1>2. ASSUME NEW r \in Requests, Send(r) PROVE CircuitInv' /\ ChangesForCause
  <2>1. /\ requests[r].at = "idle" /\ UNCHANGED <<provider, streak, recovery, strays>>
        /\ requests' = [requests EXCEPT ![r] = [at |-> "resolving", late |-> FALSE]]
        /\ probes' = IF breaker.open THEN probes \cup {r} ELSE probes
    BY <1>2 DEF Send
  <2>2. /\ breaker' \in Breakers /\ breaker'.open = breaker.open
        /\ breaker'.failures = breaker.failures /\ breaker'.successes = breaker.successes
        /\ breaker.open => ~breaker.probing /\ breaker'.probing
        /\ ~breaker.open => breaker'.probing = breaker.probing
    BY <1>1, <1>2, Admission DEF Send
  <2>3. RequestsTypeOK'
    BY <2>1, <2>2 DEF Breakers
  <2>4. ProbesAreCounted'
    <3>1. IsFiniteSet(probes) /\ Cardinality(probes) \in Nat /\ r \notin probes
      BY <2>1, ProbesAreFinite
    <3>2. CASE breaker.open
      <4>1. Cardinality(probes') = Cardinality(probes) + 1
        BY <2>1, <3>1, <3>2, FS_AddElement
      <4>2. Cardinality(probes) <= strays /\ strays \in Nat
        BY <2>2, <3>2, CircuitConstants DEF ProbesAreCounted
      <4> QED
        BY <2>1, <2>2, <3>1, <3>2, <4>1, <4>2 DEF ProbesAreCounted
    <3>3. CASE ~breaker.open
      BY <2>1, <2>2, <3>3, FS_EmptySet, CircuitConstants DEF ProbesAreCounted
    <3> QED
      BY <3>2, <3>3
  <2> QED
    BY <2>1, <2>2, <2>3, <2>4 DEF ChangesForCause
<1>3. ASSUME NEW r \in Requests, Resolve(r) PROVE CircuitInv' /\ ChangesForCause
  <2>1. requests[r].at # "idle"
    BY <1>3 DEF Resolve
  <2>2. CASE Finish(r, FALSE)
    BY <2>1, <2>2, FinishStep
  <2>3. CASE /\ requests' = [requests EXCEPT ![r].at = "fetching"]
             /\ UNCHANGED <<breaker, provider, streak, recovery, probes, strays>>
    BY <2>1, <2>3 DEF ChangesForCause, ProbesAreCounted
  <2> QED
    BY <1>3, <2>2, <2>3 DEF Resolve
<1>4. ASSUME NEW r \in Requests, Respond(r) PROVE CircuitInv' /\ ChangesForCause
  <2>1. requests[r].at # "idle"
    BY <1>4 DEF Respond
  <2>2. CASE Finish(r, FALSE)
    BY <2>1, <2>2, FinishStep
  <2>3. CASE /\ requests' = [requests EXCEPT ![r].at = "reading"]
             /\ UNCHANGED <<breaker, provider, streak, recovery, probes, strays>>
    BY <2>1, <2>3 DEF ChangesForCause, ProbesAreCounted
  <2> QED
    BY <1>4, <2>2, <2>3 DEF Respond
<1>5. ASSUME NEW r \in Requests, ReadBody(r) PROVE CircuitInv' /\ ChangesForCause
  BY <1>5, FinishStep DEF ReadBody
<1>6. ASSUME NEW r \in Requests, TimeOut(r) PROVE CircuitInv' /\ ChangesForCause
  BY <1>6 DEF TimeOut, ChangesForCause, ProbesAreCounted
<1>7. CASE ProviderChanges
  BY <1>7 DEF ProviderChanges, ChangesForCause, ProbesAreCounted
<1>8. CASE BreakerTick
  <2>1. /\ breaker' \in Breakers /\ breaker'.open = breaker.open /\ breaker'.probing = breaker.probing
        /\ breaker'.failures = breaker.failures /\ breaker'.successes = breaker.successes
    <3>1. breaker.openedFor < AdapterCircuit.recoveryTimeout /\
          breaker' = [breaker EXCEPT !.openedFor = breaker.openedFor + 1]
      BY <1>1, <1>8 DEF BreakerTick, Aged, Breakers, BreakerRecords
    <3> QED
      BY <1>1, <3>1, CircuitConstants DEF Breakers, BreakerRecords
  <2>2. UNCHANGED <<requests, provider, streak, recovery, probes, strays>>
    BY <1>8 DEF BreakerTick
  <2> QED
    BY <2>1, <2>2 DEF ChangesForCause, ProbesAreCounted, Breakers
<1>9. CASE UNCHANGED requestVars
  BY <1>9 DEF requestVars, ChangesForCause, ProbesAreCounted
<1> QED
  BY <1>2, <1>3, <1>4, <1>5, <1>6, <1>7, <1>8, <1>9 DEF RequestsNext, RequestStep

-----------------------------------------------------------------------------
(* Observations and the history.                                           *)

(* A pass that stores has a metric to store, and snapshots are finitely    *)
(* many, so that they can be counted.                                      *)
PassOK(pass) == pass \in PassRecords /\ (pass.at \in {"storing", "writing"} => pass.queue # <<>>)

PipeInv ==
  /\ PipeTypeOK
  /\ IsFiniteSet(snapshots)
  /\ \A p \in Passes : PassOK(passes[p])
  /\ RecordsAreJustified

LEMMA Factors ==
  ASSUME NEW d \in Nat \ {0}, NEW a \in Int, NEW b \in Int, d * a < d * b + d
  PROVE  a <= b
<1> SUFFICES ASSUME a > b PROVE FALSE
  OBVIOUS
<1>1. PICK k \in Nat : a = b + 1 + k
  <2>1. a - b - 1 \in Nat /\ a = b + 1 + (a - b - 1)
    OBVIOUS
  <2> QED
    BY <2>1
<1>2. d * a = d * b + d + d * k
  BY <1>1
<1>3. d * k \in Nat /\ d * b \in Int
  OBVIOUS
<1> QED
  BY <1>2, <1>3

LEMMA DayType ==
  ASSUME NEW t \in PipeTimes
  PROVE  Day(t) \in Days /\ Day(t) \in Int
<1> DEFINE D == DayLength
<1>1. D \in Nat \ {0} /\ PipeHorizon \in Nat /\ t \in Nat /\ t <= PipeHorizon
  BY PipeConstants DEF PipeTimes
<1>2. \A n \in Nat : n \div D \in Int /\ D * (n \div D) <= n /\ n < D * (n \div D) + D
  BY <1>1
<1>3. ASSUME NEW m \in Nat, NEW n \in Nat, m <= n PROVE m \div D <= n \div D
  <2>1. /\ m \div D \in Int /\ n \div D \in Int
        /\ D * (m \div D) <= m /\ n < D * (n \div D) + D
    BY <1>2, <1>3
  <2> DEFINE a == m \div D
  <2> DEFINE b == n \div D
  <2>2. a \in Int /\ b \in Int /\ D * a < D * b + D
    BY <1>1, <1>3, <2>1
  <2> HIDE DEF a, b, D
  <2> QED
    BY <1>1, <2>2, Factors DEF a, b
<1>4. 0 \div D <= t \div D /\ t \div D <= PipeHorizon \div D
  BY <1>1, <1>3
<1> QED
  BY <1>1, <1>2, <1>4 DEF Day, Days

LEMMA IdlePassOK == PassOK(IdlePass)
<1>1. (CHOOSE r \in PipeRoutes : TRUE) \in PipeRoutes /\ (CHOOSE v \in Yields : TRUE) \in Yields
  BY PipeConstants DEF PipeRoutes
<1> QED
  BY <1>1, PipeConstants DEF IdlePass, PassOK, PassRecords, PipeTimes

LEMMA Predecessor == ASSUME NEW a, NEW n \in Nat, n > 1, a = n - 1 PROVE a # 0
  OBVIOUS

LEMMA TailNotEmpty ==
  ASSUME NEW S, NEW q \in Seq(S), Len(q) > 1
  PROVE  Tail(q) \in Seq(S) /\ Tail(q) # <<>>
<1>1. Tail(q) \in Seq(S) /\ Len(Tail(q)) = Len(q) - 1
  BY q # <<>>
<1>2. Len(<<>>) = 0 /\ Len(q) \in Nat
  OBVIOUS
<1>3. Len(Tail(q)) # 0
  BY ONLY <1>1, <1>2, Predecessor, Len(q) > 1
<1>4. Tail(q) # <<>>
  BY ONLY <1>2, <1>3
<1> QED
  BY <1>1, <1>4

(* What is left of a pass when a metric has been dealt with.               *)
LEMMA StoredOK ==
  ASSUME NEW pass, PassOK(pass), pass.queue # <<>>
  PROVE  PassOK(Stored(pass))
<1>1. pass \in PassRecords /\ pass.queue \in Seq(Metrics)
  BY DEF PassOK, PassRecords
<1>2. CASE Len(pass.queue) > 1
  <2> DEFINE rest == Tail(pass.queue)
  <2>1. rest \in Seq(Metrics) /\ rest # <<>>
    BY <1>1, <1>2, TailNotEmpty
  <2>2. Stored(pass) = [pass EXCEPT !.queue = rest, !.at = "storing", !.began = 0]
    BY <1>2 DEF Stored
  <2> DEFINE stored == [at |-> "storing", left |-> pass.left, route |-> pass.route, queue |-> rest,
                        fetchedAt |-> pass.fetchedAt, value |-> pass.value, began |-> 0]
  <2>3. stored \in PassRecords
    BY <1>1, <2>1, PipeConstants DEF PassRecords, PipeTimes
  <2> HIDE DEF rest
  <2>4. Stored(pass) = stored
    <3>1. pass = [at |-> pass.at, left |-> pass.left, route |-> pass.route, queue |-> pass.queue,
                  fetchedAt |-> pass.fetchedAt, value |-> pass.value, began |-> pass.began]
      BY <1>1 DEF PassRecords
    <3> QED
      BY <2>2, <3>1
  <2> QED
    BY <2>1, <2>3, <2>4 DEF PassOK
<1>3. CASE ~(Len(pass.queue) > 1)
  <2>1. Stored(pass) = [IdlePass EXCEPT !.at = "looking", !.left = pass.left]
    BY <1>3 DEF Stored
  <2> QED
    BY <1>1, <2>1, IdlePassOK DEF PassOK, PassRecords
<1> QED
  BY <1>2, <1>3

(* A pass that moves, and a roller, without a change of the tables.        *)
LEMMA PassHandler ==
  ASSUME PipeInv, NEW p \in Passes, NEW pass, PassOK(pass),
         passes' = [passes EXCEPT ![p] = pass], begun' \in 0 .. MaxPasses,
         UNCHANGED <<pipeNow, rollers>>, UNCHANGED Tables
  PROVE  PipeInv'
<1>1. /\ passes' \in [Passes -> PassRecords]
      /\ \A q \in Passes : PassOK(passes'[q])
  BY DEF PipeInv, PipeTypeOK, PassOK
<1>2. PipeTypeOK'
  BY <1>1 DEF PipeInv, PipeTypeOK, Tables
<1> QED
  BY <1>1, <1>2
     DEF PipeInv, Tables, RecordsAreJustified, ObservationsAreComplete, ChangesAreCountedOnce,
         HistoryIsJustified

LEMMA RollerHandler ==
  ASSUME PipeInv, NEW w \in Rollers, NEW cutoff \in PipeTimes,
         rollers' = [rollers EXCEPT ![w] = cutoff],
         UNCHANGED <<pipeNow, passes, begun>>, UNCHANGED Tables
  PROVE  PipeInv'
<1>1. PipeTypeOK'
  BY DEF PipeInv, PipeTypeOK, Tables
<1> QED
  BY <1>1
     DEF PipeInv, Tables, RecordsAreJustified, ObservationsAreComplete, ChangesAreCountedOnce,
         HistoryIsJustified

(* An observation and its snapshot are stored together, and counted, unless *)
(* they are there.                                                         *)
LEMMA PersistStep ==
  ASSUME PipeInv, NEW p \in Passes, Persist(p)
  PROVE  PipeInv'
<1> DEFINE pass == passes[p]
<1> DEFINE key == KeyOf(pass)
<1> DEFINE new == [key |-> key, createdAt |-> pass.began]
<1>1. pass.at = "writing" /\ PassOK(pass) /\ pass.queue # <<>>
  BY DEF Persist, PipeInv, PassOK
<1>2. key \in Keys /\ new \in Snapshots
  <2>1. /\ pass.queue \in Seq(Metrics) /\ pass.route \in PipeRoutes /\ pass.value \in Yields
        /\ pass.fetchedAt \in PipeTimes /\ pass.began \in PipeTimes
    BY <1>1 DEF PassOK, PassRecords
  <2>2. Head(pass.queue) \in Metrics
    BY <1>1, <2>1
  <2> QED
    BY <2>1, <2>2 DEF KeyOf, Keys, Snapshots
<1>3. /\ passes' = [passes EXCEPT ![p] = Stored(pass)]
      /\ observations' = observations \cup {key}
      /\ snapshots' = snapshots \cup (IF HasSnapshot(key) THEN {} ELSE {new})
      /\ changes' = changes + (IF key \notin observations \/ ~HasSnapshot(key) THEN 1 ELSE 0)
      /\ UNCHANGED <<pipeNow, rollups, rollers, begun>>
  BY DEF Persist
<1>4. /\ PassOK(Stored(pass))
      /\ passes' \in [Passes -> PassRecords] /\ \A q \in Passes : PassOK(passes'[q])
  <2>1. PassOK(Stored(pass))
    BY <1>1, StoredOK
  <2> QED
    BY <1>3, <2>1 DEF PipeInv, PipeTypeOK, PassOK
<1>5. /\ {s.key : s \in snapshots} = observations
      /\ \A s, t \in snapshots : s.key = t.key => s = t
      /\ changes = Cardinality(snapshots) /\ IsFiniteSet(snapshots)
      /\ observations \subseteq Keys /\ snapshots \subseteq Snapshots
      /\ Cardinality(snapshots) \in Nat
  BY FS_CardinalityType
     DEF PipeInv, PipeTypeOK, RecordsAreJustified, ObservationsAreComplete, ChangesAreCountedOnce
<1>6. HasSnapshot(key) <=> key \in observations
  BY <1>5 DEF HasSnapshot
<1> HIDE DEF key, pass
<1>7. CASE HasSnapshot(key)
  <2>1. observations' = observations /\ snapshots' = snapshots /\ changes' = changes
    BY <1>3, <1>5, <1>6, <1>7
  <2>2. PipeTypeOK'
    BY <1>3, <1>4, <2>1 DEF PipeInv, PipeTypeOK
  <2> QED
    BY <1>3, <1>4, <2>1, <2>2
       DEF PipeInv, RecordsAreJustified, ObservationsAreComplete, ChangesAreCountedOnce, HistoryIsJustified
<1>8. CASE ~HasSnapshot(key)
  <2>1. /\ observations' = observations \cup {key} /\ snapshots' = snapshots \cup {new}
        /\ changes' = changes + 1 /\ new \notin snapshots /\ new.key = key
    BY <1>3, <1>8 DEF HasSnapshot
  <2>2. Cardinality(snapshots') = changes' /\ IsFiniteSet(snapshots')
    BY <1>5, <2>1, FS_AddElement
  <2>3. PipeTypeOK'
    <3>1. observations' \subseteq Keys /\ snapshots' \subseteq Snapshots /\ changes' \in Nat
      BY <1>2, <1>5, <2>1
    <3> QED
      BY <1>3, <1>4, <3>1 DEF PipeInv, PipeTypeOK
  <2>4. \A s \in snapshots : s.key # key
    BY <1>8 DEF HasSnapshot
  <2> HIDE DEF new
  <2>5. /\ {s.key : s \in snapshots'} = observations'
        /\ \A s, t \in snapshots' : s.key = t.key => s = t
    BY <1>5, <2>1, <2>4
  <2>6. HistoryIsJustified'
    BY <1>3, <2>1 DEF PipeInv, RecordsAreJustified, HistoryIsJustified
  <2> QED
    BY <1>4, <2>2, <2>3, <2>5, <2>6
       DEF PipeInv, RecordsAreJustified, ObservationsAreComplete, ChangesAreCountedOnce
<1> QED
  BY <1>7, <1>8

(* One snapshot is selected for a route and a day, and justifies its row.  *)
LEMMA SelectedFacts ==
  ASSUME PipeInv, NEW cutoff \in PipeTimes
  PROVE  /\ \A s \in Selected(cutoff) :
              /\ s \in snapshots /\ s \in Snapshots /\ s.key.route \in MorphoRoutes
              /\ s.key.at \in PipeTimes /\ Day(s.key.at) < Day(cutoff) /\ s.createdAt <= cutoff
         /\ \A s, t \in Selected(cutoff) :
              s.key.route = t.key.route /\ Day(s.key.at) = Day(t.key.at) => s = t
<1>1. \A s \in snapshots : s \in Snapshots /\ s.key \in Keys
  BY DEF PipeInv, PipeTypeOK, Snapshots
<1>2. ASSUME NEW s \in Selected(cutoff), NEW t \in Selected(cutoff),
             s.key.route = t.key.route, Day(s.key.at) = Day(t.key.at)
      PROVE  s = t
  <2>1. s \in AdmittedBy(cutoff) /\ t \in AdmittedBy(cutoff)
    BY DEF Selected
  <2>2. s \in snapshots /\ t \in snapshots /\ s.key.metric = "YIELD" /\ t.key.metric = "YIELD"
    BY <2>1 DEF AdmittedBy
  <2>3. /\ t.key.at < s.key.at \/ (t.key.at = s.key.at /\ s.key.value <= t.key.value)
        /\ s.key.at < t.key.at \/ (s.key.at = t.key.at /\ t.key.value <= s.key.value)
    BY <1>2, <2>1 DEF Selected, Closes
  <2>4. /\ s.key.at \in Int /\ t.key.at \in Int /\ s.key.value \in Int /\ t.key.value \in Int
    BY <1>1, <2>2, PipeConstants DEF Keys, PipeTimes
  <2>5. s.key.at = t.key.at /\ s.key.value = t.key.value
    BY <2>3, <2>4
  <2>6. s.key = t.key
    BY <1>1, <1>2, <2>2, <2>5 DEF Keys
  <2> QED
    BY <2>2, <2>6 DEF PipeInv, RecordsAreJustified, ObservationsAreComplete
<1>3. ASSUME NEW s \in Selected(cutoff)
      PROVE  /\ s \in snapshots /\ s \in Snapshots /\ s.key.route \in MorphoRoutes
             /\ s.key.at \in PipeTimes /\ Day(s.key.at) < Day(cutoff) /\ s.createdAt <= cutoff
  BY <1>1 DEF Selected, AdmittedBy, Keys
<1> QED
  BY <1>2, <1>3

LEMMA UpsertStep ==
  ASSUME PipeInv, NEW cutoff \in PipeTimes, Upsert(cutoff), UNCHANGED snapshots
  PROVE  rollups' \subseteq Rollups /\ HistoryIsJustified'
<1> DEFINE fresh  == {s \in Selected(cutoff) : ~\E row \in rollups : row.source = s}
<1> DEFINE Row(s) == [route |-> s.key.route, day |-> Day(s.key.at), source |-> s, cutoff |-> cutoff]
<1>1. rollups' = (rollups \ {row \in rollups : \E s \in fresh : Replaces(s, row)}) \cup {Row(s) : s \in fresh}
  BY DEF Upsert
<1>2. \A s \in fresh : s \in Selected(cutoff)
  OBVIOUS
<1> HIDE DEF fresh
<1>3. \A s \in fresh :
        /\ Row(s) \in Rollups /\ s \in snapshots /\ Day(s.key.at) < Day(cutoff) /\ s.createdAt <= cutoff
        /\ \A t \in fresh : s.key.route = t.key.route /\ Day(s.key.at) = Day(t.key.at) => s = t
  BY <1>2, SelectedFacts, DayType DEF Rollups
<1>4. \A row \in rollups' :
        \/ row \in rollups /\ \A s \in fresh : ~Replaces(s, row)
        \/ \E s \in fresh : row = Row(s)
  BY <1>1
<1>5. rollups \subseteq Rollups /\ HistoryIsJustified
  BY DEF PipeInv, PipeTypeOK, RecordsAreJustified
<1>6. rollups' \subseteq Rollups
  BY <1>3, <1>4, <1>5
<1>7. \A row \in rollups' :
        /\ row.source \in snapshots' /\ row.source.key.route = row.route
        /\ Day(row.source.key.at) = row.day /\ row.day < Day(row.cutoff)
        /\ row.source.createdAt <= row.cutoff
  BY <1>3, <1>4, <1>5 DEF HistoryIsJustified
<1>8. ASSUME NEW row \in rollups', NEW other \in rollups', other.route = row.route, other.day = row.day
      PROVE  other = row
  <2>1. CASE row \in rollups /\ other \in rollups
    BY <1>5, <1>8, <2>1 DEF HistoryIsJustified
  <2>2. ASSUME NEW x \in rollups, \A s \in fresh : ~Replaces(s, x), NEW s \in fresh
        PROVE  ~(x.route = Row(s).route /\ x.day = Row(s).day)
    BY <2>2 DEF Replaces
  <2>3. CASE (\E s \in fresh : row = Row(s)) /\ (\E s \in fresh : other = Row(s))
    BY <1>3, <1>8, <2>3
  <2> QED
    BY <1>4, <1>8, <2>1, <2>2, <2>3
<1> QED
  BY <1>6, <1>7, <1>8 DEF HistoryIsJustified

LEMMA PipeInitInv == PipeInit => PipeInv
<1> SUFFICES ASSUME PipeInit PROVE PipeInv
  OBVIOUS
<1>1. PipeTypeOK
  BY IdlePassOK, PipeConstants DEF PipeInit, PipeTypeOK, PipeTimes, PassOK
<1>2. IsFiniteSet(snapshots) /\ Cardinality(snapshots) = 0
  BY FS_EmptySet DEF PipeInit
<1> QED
  BY <1>1, <1>2, IdlePassOK
     DEF PipeInit, PipeInv, RecordsAreJustified, ObservationsAreComplete, ChangesAreCountedOnce,
         HistoryIsJustified

LEMMA PipeStep ==
  ASSUME PipeInv, [PipeNext]_pipeVars
  PROVE  PipeInv'
<1>1. /\ passes \in [Passes -> PassRecords] /\ \A p \in Passes : PassOK(passes[p])
      /\ begun \in 0 .. MaxPasses /\ pipeNow \in PipeTimes
      /\ rollers \in [Rollers -> PipeTimes \cup {-1}] /\ MaxPasses \in Nat
  BY PipeConstants DEF PipeInv, PipeTypeOK
<1>2. ASSUME NEW p \in Passes, NEW routes \in SUBSET PipeRoutes, BeginPass(p, routes) PROVE PipeInv'
  <2> DEFINE pass == [IdlePass EXCEPT !.at = "looking", !.left = routes]
  <2>1. PassOK(pass)
    BY IdlePassOK DEF PassOK, PassRecords
  <2>2. begun' \in 0 .. MaxPasses
    BY <1>1, <1>2 DEF BeginPass
  <2> QED
    BY <1>2, <2>1, <2>2, PassHandler DEF BeginPass
<1>3. ASSUME NEW p \in Passes, NEW r \in PipeRoutes, SkipRoute(p, r) PROVE PipeInv'
  <2> DEFINE pass == [passes[p] EXCEPT !.left = passes[p].left \ {r}]
  <2>1. PassOK(pass)
    BY <1>1, <1>3 DEF PassOK, PassRecords, SkipRoute
  <2>2. passes' = [passes EXCEPT ![p] = pass]
    BY <1>1, <1>3 DEF SkipRoute
  <2> HIDE DEF pass
  <2> QED
    BY <1>1, <1>3, <2>1, <2>2, PassHandler DEF SkipRoute
<1>4. ASSUME NEW p \in Passes, NEW r \in PipeRoutes, FetchRoute(p, r) PROVE PipeInv'
  <2>1. PICK v \in Yields :
          passes' = [passes EXCEPT ![p] =
                       [at |-> "storing", left |-> passes[p].left \ {r}, route |-> r, queue |-> Fetched,
                        fetchedAt |-> pipeNow, value |-> v, began |-> 0]]
    BY <1>4 DEF FetchRoute
  <2> DEFINE pass == [at |-> "storing", left |-> passes[p].left \ {r}, route |-> r, queue |-> Fetched,
                      fetchedAt |-> pipeNow, value |-> v, began |-> 0]
  <2>2. Fetched \in Seq(Metrics) /\ Fetched # <<>>
    BY DEF Fetched, Metrics
  <2>3. PassOK(pass)
    BY <1>1, <2>2, PipeConstants DEF PassOK, PassRecords, PipeTimes
  <2> QED
    BY <1>1, <1>4, <2>1, <2>3, PassHandler DEF FetchRoute
<1>5. ASSUME NEW p \in Passes, NoObservation(p) PROVE PipeInv'
  <2>1. PassOK(passes[p]) /\ passes[p].queue # <<>>
    BY <1>1, <1>5 DEF NoObservation, PassOK
  <2>2. PassOK(Stored(passes[p]))
    BY <2>1, StoredOK
  <2> QED
    BY <1>1, <1>5, <2>2, PassHandler DEF NoObservation
<1>6. ASSUME NEW p \in Passes, OpenTransaction(p) PROVE PipeInv'
  <2> DEFINE pass == [passes[p] EXCEPT !.at = "writing", !.began = pipeNow]
  <2>1. PassOK(pass)
    BY <1>1, <1>6 DEF PassOK, PassRecords, OpenTransaction
  <2>2. passes' = [passes EXCEPT ![p] = pass]
    BY <1>1, <1>6 DEF OpenTransaction
  <2> HIDE DEF pass
  <2> QED
    BY <1>1, <1>6, <2>1, <2>2, PassHandler DEF OpenTransaction
<1>7. ASSUME NEW p \in Passes, Persist(p) PROVE PipeInv'
  BY <1>7, PersistStep
<1>8. ASSUME NEW p \in Passes, Abort(p) \/ EndPass(p) PROVE PipeInv'
  BY <1>1, <1>8, IdlePassOK, PassHandler DEF Abort, EndPass
<1>9. ASSUME NEW w \in Rollers, NEW cutoff \in 0 .. pipeNow, BeginResync(w, cutoff) PROVE PipeInv'
  <2>1. cutoff \in PipeTimes
    BY <1>1, PipeConstants DEF PipeTimes
  <2> QED
    BY <1>9, <2>1, RollerHandler DEF BeginResync
<1>10. ASSUME NEW w \in Rollers, BeginRollup(w) PROVE PipeInv'
  BY <1>1, <1>10, RollerHandler DEF BeginRollup
<1>11. ASSUME NEW w \in Rollers, RunRollup(w) PROVE PipeInv'
  <2>1. rollers[w] \in PipeTimes
    BY <1>1, <1>11 DEF RunRollup
  <2>2. /\ UNCHANGED <<pipeNow, observations, snapshots, passes, changes, begun>>
        /\ rollers' = [rollers EXCEPT ![w] = -1]
        /\ Upsert(rollers[w]) \/ UNCHANGED rollups
    BY <1>11 DEF RunRollup
  <2>3. rollups' \subseteq Rollups /\ HistoryIsJustified'
    <3>1. CASE Upsert(rollers[w])
      BY <2>1, <2>2, <3>1, UpsertStep
    <3>2. CASE UNCHANGED rollups
      BY <2>2, <3>2 DEF PipeInv, PipeTypeOK, RecordsAreJustified, HistoryIsJustified
    <3> QED
      BY <2>2, <3>1, <3>2
  <2>4. rollers' \in [Rollers -> PipeTimes \cup {-1}]
    BY <1>1, <2>2
  <2>5. PipeTypeOK'
    BY <2>2, <2>3, <2>4 DEF PipeInv, PipeTypeOK
  <2> QED
    BY <2>2, <2>3, <2>5
       DEF PipeInv, RecordsAreJustified, ObservationsAreComplete, ChangesAreCountedOnce
<1>12. CASE PipeTick
  <2>1. pipeNow' \in PipeTimes /\ UNCHANGED <<passes, rollers, begun>> /\ UNCHANGED Tables
    BY <1>1, <1>12, PipeConstants DEF PipeTick, PipeTimes
  <2>2. PipeTypeOK'
    BY <2>1 DEF PipeInv, PipeTypeOK, Tables
  <2> QED
    BY <2>1, <2>2
       DEF Tables, PipeInv, RecordsAreJustified, ObservationsAreComplete, ChangesAreCountedOnce,
           HistoryIsJustified
<1>13. CASE UNCHANGED pipeVars
  BY <1>13
     DEF pipeVars, PipeInv, PipeTypeOK, RecordsAreJustified, ObservationsAreComplete,
         ChangesAreCountedOnce, HistoryIsJustified
<1> QED
  BY <1>2, <1>3, <1>4, <1>5, <1>6, <1>7, <1>8, <1>9, <1>10, <1>11, <1>12, <1>13 DEF PipeNext, PassStep

-----------------------------------------------------------------------------
(* Signals and alerts.                                                     *)

Alerts ==
  [key : Seq(Int), rows : SUBSET (1 .. MaxRows + 2), latest : 0 .. MaxRows + 2,
   baseline : 0 .. MaxRows + 2, at : RowHours, evaluatedAt : RowHours]

Pairs == Changes \cup {"VAULT_ALLOCATION_CHANGE"}

(* What the key of an alert of a condition says of the rows that are       *)
(* stored.  Rows keep their time and metric, so that it goes on saying it. *)
AlertOK(a, condition, stored) ==
  /\ condition = "PRODUCT_STATUS_CHANGE" => a.rows = {} /\ a.key[3] = a.at
  /\ condition # "PRODUCT_STATUS_CHANGE" =>
       a.latest \in DOMAIN stored /\ a.key[1] = a.latest /\ a.at = stored[a.latest].at
  /\ condition \in Pairs =>
       a.baseline \in DOMAIN stored /\ a.key[2] = a.baseline /\ a.rows = {a.latest, a.baseline}
  /\ condition \notin Pairs \cup {"PRODUCT_STATUS_CHANGE"} => a.rows = {a.latest}
  /\ condition \in Changes =>
       /\ stored[a.baseline].metric = stored[a.latest].metric
       /\ stored[a.baseline].at <= a.evaluatedAt - Lookback
       /\ stored[a.baseline].at <= stored[a.latest].at
       /\ stored[a.latest].at <= a.evaluatedAt

SignalsInv ==
  /\ SignalsTypeOK
  /\ rule.condition = "PRODUCT_STATUS_CHANGE" => Len(rows) = 2
  /\ rule.condition \notin Terms => \A i \in DOMAIN rows : rows[i].at <= hour
  /\ \A a \in alerts : AlertOK(a, rule.condition, rows)

(* Alerts outlast a change of the rows that keeps their times and metrics. *)
LEMMA AlertsKept ==
  ASSUME NEW a, NEW condition, NEW stored, NEW later, AlertOK(a, condition, stored),
         condition # "PRODUCT_STATUS_CHANGE" =>
           \A i \in DOMAIN stored :
             i \in DOMAIN later /\ later[i].at = stored[i].at /\ later[i].metric = stored[i].metric
  PROVE  AlertOK(a, condition, later)
<1>1. CASE condition = "PRODUCT_STATUS_CHANGE"
  BY <1>1 DEF AlertOK, Pairs, Changes
<1>2. CASE condition # "PRODUCT_STATUS_CHANGE"
  <2>1. condition \in Changes => condition \in Pairs
    BY DEF Pairs
  <2> QED
    BY <1>2, <2>1 DEF AlertOK
<1> QED
  BY <1>1, <1>2

(* The alert of a signal.                                                  *)
AlertOf(s) ==
  [key |-> s.key, rows |-> s.rows, latest |-> s.latest, baseline |-> s.baseline, at |-> s.at,
   evaluatedAt |-> hour]

LEMMA SignalOK ==
  ASSUME SignalsInv, NEW s \in Signals
  PROVE  AlertOf(s) \in Alerts /\ AlertOK(AlertOf(s), rule.condition, rows)
<1> DEFINE condition == rule.condition
<1> DEFINE alert == AlertOf(s)
<1>1. /\ rows \in Seq(Rows) /\ Len(rows) <= MaxRows + 2 /\ Len(rows) \in Nat /\ hour \in RowHours
      /\ DOMAIN rows = 1 .. Len(rows)
      /\ condition # "PRODUCT_STATUS_CHANGE" /\ condition \notin Terms =>
           \A i \in DOMAIN rows : rows[i].at <= hour
      /\ \A i \in DOMAIN rows :
           rows[i] \in Rows /\ rows[i].at \in RowHours /\ rows[i].value \in Int
  <2>1. \A row \in Rows : row.at \in RowHours /\ row.value \in Int
    <3>1. RowValues \subseteq Int /\ NoAmount .. 1 \subseteq Int
      BY SignalConstants DEF NoAmount
    <3> QED
      BY <3>1 DEF Rows
  <2> QED
    BY <2>1 DEF SignalsInv, SignalsTypeOK
<1>2. \A i \in DOMAIN rows :
        i \in 0 .. MaxRows + 2 /\ i \in 1 .. MaxRows + 2 /\ i \in Int
  BY <1>1, SignalConstants
<1>3. 0 \in 0 .. MaxRows + 2
  BY SignalConstants
<1> HIDE DEF condition
(* The signal of one row.                                                  *)
<1>4. ASSUME NEW i \in DOMAIN rows, condition \notin Pairs \cup {"PRODUCT_STATUS_CHANGE"},
             s.key[1] = i, s.key \in Seq(Int), s.rows = {i}, s.latest = i, s.baseline = 0, s.at = rows[i].at
      PROVE  alert \in Alerts /\ AlertOK(alert, condition, rows)
  <2>1. alert \in Alerts
    BY <1>1, <1>2, <1>3, <1>4 DEF AlertOf, Alerts
  <2>2. condition \notin Changes
    BY <1>4 DEF Pairs
  <2> QED
    BY <1>4, <2>1, <2>2 DEF AlertOf, AlertOK
(* The signal of two.                                                      *)
<1>5. ASSUME NEW i \in DOMAIN rows, NEW j \in DOMAIN rows, condition \in Pairs,
             s.key = <<i, j>>, s.rows = {i, j}, s.latest = i, s.baseline = j, s.at = rows[i].at,
             condition \in Changes =>
               /\ rows[j].metric = rows[i].metric /\ rows[j].at <= hour - Lookback
               /\ rows[j].at <= rows[i].at /\ rows[i].at <= hour
      PROVE  alert \in Alerts /\ AlertOK(alert, condition, rows)
  <2>1. alert \in Alerts
    BY <1>1, <1>2, <1>3, <1>5 DEF AlertOf, Alerts
  <2>2. condition # "PRODUCT_STATUS_CHANGE"
    BY <1>5 DEF Pairs, Changes
  <2>3. alert.key[1] = i /\ alert.key[2] = j
    BY <1>5 DEF AlertOf
  <2> QED
    BY <1>5, <2>1, <2>2, <2>3 DEF AlertOf, AlertOK
<1>6. CASE condition \in Changes
  <2>1. s \in ChangeSignals
    BY <1>6 DEF Signals, Changes, Terms, condition
  <2>2. PICK i \in AllRows, j \in AllRows :
          /\ i \in Newest(AllRows) /\ j \in Baselines(i)
          /\ s.key = <<i, j>> /\ s.rows = {i, j} /\ s.latest = i /\ s.baseline = j /\ s.at = rows[i].at
    BY <2>1 DEF ChangeSignals, Signal, Newest
  <2>3. rows[j].metric = rows[i].metric /\ rows[j].at <= hour - Lookback
    BY <2>2 DEF Baselines, Newest
  <2>4. rows[j].at <= rows[i].at
    BY <2>2 DEF Newest
  <2>5. condition # "PRODUCT_STATUS_CHANGE" /\ condition \notin Terms /\ condition \in Pairs
    BY <1>6 DEF Changes, Terms, Pairs
  <2>6. rows[i].at <= hour
    BY <1>1, <2>2, <2>5 DEF AllRows
  <2> QED
    BY <1>5, <2>2, <2>3, <2>4, <2>5, <2>6 DEF AllRows, condition
<1>7. CASE condition = "VAULT_ALLOCATION_CHANGE"
  <2>1. s \in AllocationSignals
    <3>1. rule.condition \notin Changes /\ rule.condition \notin Terms
      BY <1>7 DEF Changes, Terms, condition
    <3> QED
      BY <1>7, <3>1 DEF Signals, condition
  <2>2. PICK i \in AllRows, j \in AllRows :
          s.key = <<i, j>> /\ s.rows = {i, j} /\ s.latest = i /\ s.baseline = j /\ s.at = rows[i].at
    <3>1. PICK p \in InForceRows \X InForceRows :
            s = Signal(rows[p[1]].at >= rule.createdAt /\ rows[p[1]].value # rows[p[2]].value,
                       <<p[1], p[2]>>, {p[1], p[2]}, p[1], p[2], rows[p[1]].at)
      BY <2>1 DEF AllocationSignals
    <3>2. p[1] \in AllRows /\ p[2] \in AllRows
      BY DEF InForceRows
    <3> QED
      BY <3>1, <3>2 DEF Signal
  <2>3. condition \in Pairs /\ condition \notin Changes
    BY <1>7 DEF Pairs, Changes
  <2> QED
    BY <1>5, <2>2, <2>3 DEF AllRows, condition
<1>8. CASE condition = "PRODUCT_STATUS_CHANGE"
  <2> DEFINE at == IF rows[1].at > rows[2].at THEN rows[1].at ELSE rows[2].at
  <2>1. s \in StatusSignals
    BY <1>8 DEF Signals, Changes, Terms, condition
  <2>2. /\ s.key = <<rows[1].value, rows[2].value, at>> /\ s.rows = {} /\ s.latest = 0 /\ s.baseline = 0
        /\ s.at = at
    BY <2>1 DEF StatusSignals, Signal, StatusKey
  <2>3. 1 \in DOMAIN rows /\ 2 \in DOMAIN rows
    BY <1>1, <1>8 DEF SignalsInv, condition
  <2>4. at \in RowHours /\ rows[1].value \in Int /\ rows[2].value \in Int
    BY <1>1, <2>3
  <2>5. at \in Int
    BY <2>4 DEF RowHours
  <2> HIDE DEF at
  <2>6. s.key \in Seq(Int) /\ s.key[3] = at
    BY <2>2, <2>4, <2>5
  <2>7. alert \in Alerts
    BY <1>1, <1>3, <2>2, <2>4, <2>6 DEF AlertOf, Alerts
  <2>8. condition \notin Changes /\ condition \notin Pairs
    BY <1>8 DEF Changes, Pairs
  <2> QED
    BY <1>8, <2>2, <2>6, <2>7, <2>8 DEF AlertOf, AlertOK, condition
<1>9. CASE condition \notin Pairs \cup {"PRODUCT_STATUS_CHANGE"}
  <2>1. condition \notin Changes /\ condition # "VAULT_ALLOCATION_CHANGE" /\ condition # "PRODUCT_STATUS_CHANGE"
    BY <1>9 DEF Pairs
  <2>2. PICK i \in AllRows :
          /\ s.key[1] = i /\ s.key \in Seq(Int)
          /\ s.rows = {i} /\ s.latest = i /\ s.baseline = 0 /\ s.at = rows[i].at
    <3>1. s \in TermsSignals \/ s \in IncentiveSignals \/ s \in AgeSignals \/ s \in WarningSignals
          \/ s \in LevelSignals
      BY <2>1 DEF Signals, condition
    <3>2. Newest(AllRows) \subseteq AllRows /\ Newest(InForceRows) \subseteq AllRows
      BY DEF Newest, InForceRows
    <3>3. CASE s \in AgeSignals
      <4>1. PICK i \in AllRows : /\ s.key = <<i, IF rows[i].ok THEN 1 ELSE 0>>
                                 /\ s.rows = {i} /\ s.latest = i /\ s.baseline = 0 /\ s.at = rows[i].at
        BY <3>2, <3>3 DEF AgeSignals, Signal
      <4>2. i \in Int /\ (IF rows[i].ok THEN 1 ELSE 0) \in Int
        BY <1>2 DEF AllRows
      <4> QED
        BY <4>1, <4>2
    <3>4. CASE s \in TermsSignals \/ s \in IncentiveSignals \/ s \in WarningSignals \/ s \in LevelSignals
      <4>1. PICK i \in AllRows : /\ s.key = <<i>>
                                 /\ s.rows = {i} /\ s.latest = i /\ s.baseline = 0 /\ s.at = rows[i].at
        BY <3>2, <3>4 DEF TermsSignals, IncentiveSignals, WarningSignals, LevelSignals, Signal
      <4>2. i \in Int
        BY <1>2 DEF AllRows
      <4> QED
        BY <4>1, <4>2
    <3> QED
      BY <3>1, <3>3, <3>4
  <2> QED
    BY <1>4, <1>9, <2>2 DEF AllRows, condition
<1> QED
  BY <1>6, <1>7, <1>8, <1>9 DEF Pairs, condition

LEMMA SignalsStep ==
  ASSUME SignalsInv, [SignalsNext]_signalVars
  PROVE  SignalsInv'
<1>1. /\ rule \in [condition : SignalConditions, createdAt : RowHours] /\ hour \in RowHours
      /\ rows \in Seq(Rows) /\ Len(rows) <= MaxRows + 2 /\ DOMAIN rows = 1 .. Len(rows) /\ Len(rows) \in Nat
      /\ alerts \subseteq Alerts
      /\ MaxRows \in Nat /\ SignalHorizon \in Nat
  BY SignalConstants DEF SignalsInv, SignalsTypeOK, Alerts
<1>2. \A i \in DOMAIN rows : rows[i] \in Rows
  BY <1>1
(* A step that keeps the number of the rows, their times and their metrics. *)
<1>3. ASSUME UNCHANGED <<rule, hour, alerts>>, rows' \in Seq(Rows), Len(rows') = Len(rows),
             \A i \in DOMAIN rows : rows'[i].at = rows[i].at /\ rows'[i].metric = rows[i].metric
      PROVE  SignalsInv'
  <2>1. DOMAIN rows' = DOMAIN rows
    BY <1>1, <1>3
  <2>2. \A a \in alerts : AlertOK(a, rule.condition, rows')
    BY <1>3, <2>1, AlertsKept DEF SignalsInv
  <2>3. SignalsTypeOK'
    BY <1>1, <1>3 DEF SignalsTypeOK, Alerts
  <2>4. rule'.condition \notin Terms => \A i \in DOMAIN rows' : rows'[i].at <= hour'
    BY <1>3, <2>1 DEF SignalsInv
  <2>5. \A a \in alerts' : AlertOK(a, rule'.condition, rows')
    BY <1>3, <2>2
  <2>6. rule'.condition = "PRODUCT_STATUS_CHANGE" => Len(rows') = 2
    BY <1>3 DEF SignalsInv
  <2> QED
    BY <2>3, <2>4, <2>5, <2>6 DEF SignalsInv
<1>4. CASE StoreRow
  <2>1. PICK row \in [at : RowHours, ok : BOOLEAN, value : RowValues \cup {NoAmount}, metric : MetricsOfRows] :
          /\ rule.condition \in Terms \/ row.at <= hour
          /\ rows' = Append(rows, row)
    BY <1>4 DEF StoreRow
  <2>2. /\ UNCHANGED <<rule, hour, alerts>> /\ rule.condition # "PRODUCT_STATUS_CHANGE"
        /\ Len(rows) < MaxRows
    BY <1>4 DEF StoreRow
  <2>3. row \in Rows
    <3>1. NoAmount \in NoAmount .. 1
      BY DEF NoAmount
    <3> QED
      BY <3>1 DEF Rows, MetricsOfRows
  <2>4. /\ rows' \in Seq(Rows) /\ Len(rows') = Len(rows) + 1
        /\ \A i \in DOMAIN rows : i \in DOMAIN rows' /\ rows'[i] = rows[i]
        /\ \A i \in DOMAIN rows' : i \in DOMAIN rows \/ rows'[i] = row
    BY <1>1, <2>1, <2>3
  <2>5. \A a \in alerts' : AlertOK(a, rule'.condition, rows')
    BY <2>2, <2>4, AlertsKept DEF SignalsInv
  <2>6. Len(rows') <= MaxRows + 2
    BY <1>1, <2>2, <2>4
  <2>7. SignalsTypeOK'
    BY <1>1, <2>2, <2>4, <2>6 DEF SignalsTypeOK, Alerts
  <2>8. rule'.condition \notin Terms => \A i \in DOMAIN rows' : rows'[i].at <= hour'
    BY <2>1, <2>2, <2>4 DEF SignalsInv
  <2>9. rule'.condition # "PRODUCT_STATUS_CHANGE"
    BY <2>2
  <2> QED
    BY <2>5, <2>7, <2>8, <2>9 DEF SignalsInv
<1>5. CASE WithdrawRow
  <2>1. PICK i \in DOMAIN rows : rows' = [rows EXCEPT ![i].ok = FALSE]
    BY <1>5 DEF WithdrawRow, InForceRows, AllRows
  <2> DEFINE row == [rows[i] EXCEPT !.ok = FALSE]
  <2>2. row \in Rows /\ row.at = rows[i].at /\ row.metric = rows[i].metric
    BY <1>2 DEF Rows
  <2>3. rows' = [rows EXCEPT ![i] = row]
    BY <2>1
  <2> HIDE DEF row
  <2>4. /\ rows' \in Seq(Rows) /\ Len(rows') = Len(rows)
        /\ \A j \in DOMAIN rows : rows'[j] = IF j = i THEN row ELSE rows[j]
    BY <1>1, <2>2, <2>3
  <2>5. \A j \in DOMAIN rows : rows'[j].at = rows[j].at /\ rows'[j].metric = rows[j].metric
    BY <2>2, <2>4
  <2>6. UNCHANGED <<rule, hour, alerts>>
    BY <1>5 DEF WithdrawRow
  <2> QED
    BY <1>3, <2>4, <2>5, <2>6
<1>6. CASE EditStatus
  <2>1. PICK i \in DOMAIN rows, v \in {0, 1} : rows' = [rows EXCEPT ![i].value = v, ![i].at = hour]
    BY <1>6 DEF EditStatus, AllRows
  <2> DEFINE row == [rows[i] EXCEPT !.value = v, !.at = hour]
  <2>2. row \in Rows /\ row.at = hour
    <3>1. v \in NoAmount .. 1
      BY DEF NoAmount
    <3> QED
      BY <1>1, <1>2, <3>1 DEF Rows
  <2>3. rows' = [rows EXCEPT ![i] = row]
    BY <1>1, <2>1
  <2> HIDE DEF row
  <2>4. /\ rows' \in Seq(Rows) /\ Len(rows') = Len(rows) /\ DOMAIN rows' = DOMAIN rows
        /\ \A j \in DOMAIN rows : rows'[j] = IF j = i THEN row ELSE rows[j]
    BY <1>1, <2>2, <2>3
  <2>5. UNCHANGED <<rule, hour, alerts>> /\ rule.condition = "PRODUCT_STATUS_CHANGE"
    BY <1>6 DEF EditStatus
  <2>6. \A a \in alerts' : AlertOK(a, rule'.condition, rows')
    BY <2>5, AlertsKept DEF SignalsInv
  <2>7. SignalsTypeOK'
    BY <1>1, <2>4, <2>5 DEF SignalsTypeOK, Alerts
  <2>8. \A j \in DOMAIN rows' : rows'[j].at <= hour'
    <3>1. hour <= hour
      BY <1>1 DEF RowHours
    <3>2. \A j \in DOMAIN rows : rows[j].at <= hour
      BY <2>5 DEF SignalsInv, Terms
    <3> QED
      BY <2>2, <2>4, <2>5, <3>1, <3>2
  <2>9. Len(rows') = 2
    BY <2>4, <2>5 DEF SignalsInv
  <2> QED
    BY <2>6, <2>7, <2>8, <2>9 DEF SignalsInv
<1>7. CASE SignalTick
  <2>1. hour' \in RowHours /\ hour <= hour' /\ UNCHANGED <<rule, rows, alerts>>
    BY <1>1, <1>7 DEF SignalTick, RowHours
  <2>2. SignalsTypeOK'
    BY <1>1, <2>1 DEF SignalsTypeOK, Alerts
  <2>3. rule'.condition \notin Terms => \A i \in DOMAIN rows' : rows'[i].at <= hour'
    <3>1. \A i \in DOMAIN rows : rows[i].at \in Int
      BY <1>2 DEF Rows, RowHours
    <3>2. hour \in Int /\ hour' \in Int
      BY <1>1, <2>1 DEF RowHours
    <3> QED
      BY <2>1, <3>1, <3>2 DEF SignalsInv
  <2> QED
    BY <2>1, <2>2, <2>3 DEF SignalsInv
<1>8. CASE EvaluateRule
  <2>1. PICK s \in Signals : alerts' = alerts \cup {AlertOf(s)}
    BY <1>8 DEF EvaluateRule, AlertOf
  <2>2. UNCHANGED <<rule, hour, rows>>
    BY <1>8 DEF EvaluateRule
  <2>3. AlertOf(s) \in Alerts /\ AlertOK(AlertOf(s), rule.condition, rows)
    BY SignalOK
  <2>4. SignalsTypeOK'
    <3>1. alerts' \subseteq Alerts
      BY <1>1, <2>1, <2>3
    <3> QED
      BY <1>1, <2>2, <3>1 DEF SignalsTypeOK, Alerts
  <2>5. \A a \in alerts' : AlertOK(a, rule'.condition, rows')
    BY <2>1, <2>2, <2>3 DEF SignalsInv
  <2>6. /\ rule'.condition = "PRODUCT_STATUS_CHANGE" => Len(rows') = 2
        /\ rule'.condition \notin Terms => \A i \in DOMAIN rows' : rows'[i].at <= hour'
    BY <2>2 DEF SignalsInv
  <2> QED
    BY <2>4, <2>5, <2>6 DEF SignalsInv
<1>9. CASE UNCHANGED signalVars
  BY <1>9 DEF signalVars, SignalsInv, SignalsTypeOK
<1> QED
  BY <1>4, <1>5, <1>6, <1>7, <1>8, <1>9 DEF SignalsNext

LEMMA SignalsInitInv == SignalsInit => SignalsInv
<1> SUFFICES ASSUME SignalsInit PROVE SignalsInv
  OBVIOUS
<1> DEFINE row == [at |-> 0, ok |-> TRUE, value |-> 0, metric |-> "none"]
<1>1. rule \in [condition : SignalConditions, createdAt : RowHours] /\ hour \in RowHours
  BY SignalConstants DEF SignalsInit, RowHours
<1>2. row \in Rows
  BY SignalConstants DEF Rows, RowHours, NoAmount
<1>3. CASE rule.condition = "PRODUCT_STATUS_CHANGE"
  <2>1. rows = [i \in 1 .. 2 |-> row]
    BY <1>3 DEF SignalsInit
  <2> HIDE DEF row
  <2>2. rows \in Seq(Rows) /\ Len(rows) = 2 /\ \A i \in DOMAIN rows : rows[i] = row
    BY <1>2, <2>1
  <2>3. SignalsTypeOK
    BY <1>1, <2>2, SignalConstants DEF SignalsInit, SignalsTypeOK
  <2> QED
    BY <1>3, <2>2, <2>3 DEF SignalsInit, SignalsInv, row
<1>4. CASE rule.condition # "PRODUCT_STATUS_CHANGE"
  <2>1. rows = <<>>
    BY <1>4 DEF SignalsInit
  <2>2. SignalsTypeOK
    BY <1>1, <2>1, SignalConstants DEF SignalsInit, SignalsTypeOK
  <2> QED
    BY <1>4, <2>1, <2>2 DEF SignalsInit, SignalsInv
<1> QED
  BY <1>3, <1>4

LEMMA SignalsInvImplies == SignalsInv => SignalsAreEvidence
<1> SUFFICES ASSUME SignalsInv PROVE SignalsAreEvidence
  OBVIOUS
<1>1. \A a \in alerts : AlertOK(a, rule.condition, rows)
  BY DEF SignalsInv
<1>2. ASSUME NEW a \in alerts, NEW b \in alerts, a.key = b.key
      PROVE  a.rows = b.rows /\ a.at = b.at
  <2>1. AlertOK(a, rule.condition, rows) /\ AlertOK(b, rule.condition, rows)
    BY <1>1
  <2>2. CASE rule.condition = "PRODUCT_STATUS_CHANGE"
    BY <1>2, <2>1, <2>2 DEF AlertOK
  <2>3. CASE rule.condition # "PRODUCT_STATUS_CHANGE" /\ rule.condition \in Pairs
    BY <1>2, <2>1, <2>3 DEF AlertOK
  <2>4. CASE rule.condition # "PRODUCT_STATUS_CHANGE" /\ rule.condition \notin Pairs
    BY <1>2, <2>1, <2>4 DEF AlertOK
  <2> QED
    BY <2>2, <2>3, <2>4
<1>3. ChangesSpanTheLookback
  BY <1>1 DEF ChangesSpanTheLookback, AlertOK
<1> QED
  BY <1>2, <1>3 DEF SignalsAreEvidence, KeysNameTheirEvidence

-----------------------------------------------------------------------------
(* The theorems.                                                           *)

(* However requests overlap, the circuit opens after as many failures in a *)
(* row as its threshold and for nothing else, closes after successes in a  *)
(* row only, and counts the requests that probe.                           *)
THEOREM CircuitCounts == RequestsSpec => CircuitKeepsCount
<1>1. CircuitInv /\ [RequestsNext]_requestVars => CircuitInv'
  BY CircuitStep
<1>2. CircuitInv => OpensOnFailuresInARow /\ ProbesAreCounted
  BY DEF CircuitInv, OpensOnFailuresInARow
<1>3. CircuitInv /\ [RequestsNext]_requestVars =>
        [OpensOnFailuresInARow' /\ ChangesForCause /\ ProbesAreCounted']_requestVars
  <2>1. CircuitInv' => OpensOnFailuresInARow' /\ ProbesAreCounted'
    BY DEF CircuitInv, OpensOnFailuresInARow
  <2> QED
    BY <2>1, CircuitStep
<1> QED
  BY <1>1, <1>3, CircuitInitInv, PTL DEF RequestsSpec, CircuitKeepsCount

(* However passes and rollups overlap, are repeated and are interrupted,   *)
(* observations and snapshots correspond, changes are counted once, and a  *)
(* day of the history is one of its yields that was there at its cutoff.   *)
THEOREM RecordsStayJustified == PipeSpec => []RecordsAreJustified
<1>1. PipeInv /\ [PipeNext]_pipeVars => PipeInv'
  BY PipeStep
<1>2. PipeInv => RecordsAreJustified
  BY DEF PipeInv
<1> QED
  BY <1>1, <1>2, PipeInitInv, PTL DEF PipeSpec

(* In whatever order rows arrive and are withdrawn, a key stands for one   *)
(* piece of evidence, and a change is over at least the lookback.          *)
THEOREM AlertsHaveEvidence == SignalsSpec => []SignalsAreEvidence
<1>1. SignalsInv /\ [SignalsNext]_signalVars => SignalsInv'
  BY SignalsStep
<1> QED
  BY <1>1, SignalsInitInv, SignalsInvImplies, PTL DEF SignalsSpec

(* The three parts together, which run one at a time: the condition that   *)
(* PipelineInit names while no rule is evaluated has to be one of them.    *)
THEOREM PipelineTyped ==
  ASSUME "APY_ABOVE" \in SignalConditions
  PROVE  PipelineSpec => []PipelineTypeOK
<1> DEFINE Inv == CircuitInv /\ PipeInv /\ SignalsInv
<1>1. PipelineInit => Inv
  <2> SUFFICES ASSUME PipelineInit PROVE Inv
    OBVIOUS
  <2>1. SignalsInv
    <3>1. CASE part = "signals"
      BY <3>1, SignalsInitInv DEF PipelineInit
    <3>2. CASE part # "signals"
      <4>1. rule = [condition |-> "APY_ABOVE", createdAt |-> 0] /\ hour = 0 /\ rows = <<>> /\ alerts = {}
        BY <3>2 DEF PipelineInit
      <4> QED
        BY <4>1, SignalConstants DEF SignalsInv, SignalsTypeOK, RowHours
    <3> QED
      BY <3>1, <3>2
  <2> QED
    BY <2>1, CircuitInitInv, PipeInitInv DEF PipelineInit
<1>2. Inv /\ [PipelineNext]_pipelineVars => Inv'
  <2>1. [PipelineNext]_pipelineVars =>
          [RequestsNext]_requestVars /\ [PipeNext]_pipeVars /\ [SignalsNext]_signalVars
    BY DEF PipelineNext, pipelineVars, OfRequests, OfPipe, OfSignals
  <2> QED
    BY <2>1, CircuitStep, PipeStep, SignalsStep
<1>3. Inv => PipelineTypeOK
  BY DEF CircuitInv, PipeInv, SignalsInv, PipelineTypeOK
<1> HIDE DEF Inv
<1> QED
  BY <1>1, <1>2, <1>3, PTL DEF PipelineSpec
=============================================================================
