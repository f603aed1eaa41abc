---------------------------- MODULE CircuitBreaker ----------------------------
(***************************************************************************)
(* The circuit breaker of packages/data-adapters/src/circuit-breaker.ts,   *)
(* as operators on its four fields.  Its clock is kept as the time since   *)
(* the circuit opened, as far as the breaker can tell: up to the recovery  *)
(* timeout.  Its failure count is kept up to the failure threshold, the    *)
(* one number it is compared with.                                         *)
(***************************************************************************)
EXTENDS Integers

BreakerOptions == [failureThreshold : Nat \ {0}, successThreshold : Nat \ {0},
                   recoveryTimeout : Nat \ {0}]

BreakerRecords(options) ==
  [failures  : 0 .. options.failureThreshold,
   successes : 0 .. options.successThreshold - 1,
   openedFor : 0 .. options.recoveryTimeout,
   open      : BOOLEAN,
   probing   : BOOLEAN]

ClosedBreaker ==
  [failures |-> 0, successes |-> 0, openedFor |-> 0, open |-> FALSE, probing |-> FALSE]

BreakerState(breaker, options) ==
  CASE ~breaker.open -> "CLOSED"
    [] breaker.open /\ breaker.openedFor >= options.recoveryTimeout -> "HALF_OPEN"
    [] breaker.open /\ breaker.openedFor < options.recoveryTimeout -> "OPEN"

(* A request is let through by a closed circuit, and one at a time by a    *)
(* half-open one.                                                          *)
Admits(breaker, options) ==
  \/ BreakerState(breaker, options) = "CLOSED"
  \/ BreakerState(breaker, options) = "HALF_OPEN" /\ ~breaker.probing

(* A bug: nothing tells that the one request is under way.                 *)
AdmittedUnflagged(breaker, options) == breaker

Admitted(breaker, options) ==
  [breaker EXCEPT !.probing = @ \/ BreakerState(breaker, options) = "HALF_OPEN"]

(* A bug: one success is enough, however many were asked for.              *)
RecordSuccessAtOnce(breaker, options) ==
  IF BreakerState(breaker, options) = "HALF_OPEN" THEN ClosedBreaker
  ELSE [breaker EXCEPT !.failures = 0]

(* A bug: the count of successes survives the circuit's closing.           *)
RecordSuccessKept(breaker, options) ==
  IF BreakerState(breaker, options) = "HALF_OPEN"
  THEN IF breaker.successes + 1 >= options.successThreshold
       THEN [breaker EXCEPT !.failures = 0, !.successes = @ + 1, !.open = FALSE, !.openedFor = 0]
       ELSE [breaker EXCEPT !.successes = @ + 1]
  ELSE [breaker EXCEPT !.failures = 0]

RecordSuccess(breaker, options) ==
  IF BreakerState(breaker, options) = "HALF_OPEN"
  THEN IF breaker.successes + 1 >= options.successThreshold
       THEN [breaker EXCEPT !.failures = 0, !.successes = 0, !.open = FALSE, !.openedFor = 0]
       ELSE [breaker EXCEPT !.successes = @ + 1]
  ELSE [breaker EXCEPT !.failures = 0]

FailureCount(breaker, options) ==
  IF breaker.failures < options.failureThreshold THEN breaker.failures + 1 ELSE breaker.failures

(* A bug: a failure of a half-open circuit is only counted.                *)
RecordFailureCounted(breaker, options) ==
  LET failures == FailureCount(breaker, options) IN
  IF ~breaker.open /\ failures >= options.failureThreshold + 1
  THEN [breaker EXCEPT !.successes = 0, !.failures = failures, !.open = TRUE, !.openedFor = 0]
  ELSE [breaker EXCEPT !.successes = 0, !.failures = failures]

RecordFailure(breaker, options) ==
  LET failures == FailureCount(breaker, options) IN
  IF \/ BreakerState(breaker, options) = "HALF_OPEN"
     \/ failures >= options.failureThreshold
  THEN [breaker EXCEPT !.successes = 0, !.failures = failures, !.open = TRUE, !.openedFor = 0]
  ELSE [breaker EXCEPT !.successes = 0, !.failures = failures]

(* A bug: a request that fails leaves the half-open flag behind.           *)
SettledSuccessesOnly(breaker, options, succeeded) ==
  IF succeeded THEN [RecordSuccess(breaker, options) EXCEPT !.probing = FALSE]
  ELSE RecordFailure(breaker, options)

(* The try, catch and finally around a request: whoever finishes clears    *)
(* the flag of the half-open circuit.                                      *)
Settled(breaker, options, succeeded) ==
  [(IF succeeded THEN RecordSuccess(breaker, options) ELSE RecordFailure(breaker, options))
     EXCEPT !.probing = FALSE]

Aged(breaker, options) ==
  IF breaker.open /\ breaker.openedFor < options.recoveryTimeout
  THEN [breaker EXCEPT !.openedFor = @ + 1]
  ELSE breaker
=============================================================================
