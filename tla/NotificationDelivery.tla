------------------------ MODULE NotificationDelivery ------------------------
(***************************************************************************)
(* Delivery of alert notifications                                         *)
(* (apps/worker/src/notification-delivery-service.ts) by workers that run  *)
(* concurrently, against users who disable and re-enable destinations      *)
(* (apps/web .../notification-destinations/route.ts).                      *)
(*                                                                         *)
(* A worker's pass is a chain of awaited statements.  Everything it knows  *)
(* of a delivery it read before it claimed the row, and the statements     *)
(* that record a result name the row's id alone; the actions keep both     *)
(* facts.  Time is a set of flags: which attempts have been ATTEMPTING for *)
(* fifteen minutes, which retries are still backing off, what has expired. *)
(***************************************************************************)
EXTENDS Naturals

CONSTANTS
  Deliveries,     \* rows of notification_deliveries on external channels
  TestDeliveries, \* those created by the test-notification route
  Destinations,
  Workers,
  MaxAttempts,    \* MAX_NOTIFICATION_DELIVERY_ATTEMPTS
  Target,         \* the destination of each delivery
  Nothing,        \* no delivery
  Faults          \* subset of FaultKinds

FaultKinds ==
  {"crash",          \* a worker dies, or a statement of its pass throws
   "slow",           \* a live attempt takes more than fifteen minutes
   "expiry",         \* deliveries reach their thirty-day expiry
   "configuration"}  \* key or ciphertext of a destination is unusable

ASSUME DeliveryConstants ==
  /\ TestDeliveries \subseteq Deliveries
  /\ MaxAttempts \in Nat \ {0}
  /\ Target \in [Deliveries -> Destinations]
  /\ Nothing \notin Deliveries
  /\ Faults \subseteq FaultKinds

VARIABLES
  status,      \* notification_deliveries.status
  attempts,    \* attempt_count, counted up to MaxAttempts
  backingOff,  \* deliveries whose next_attempt_at lies ahead
  overdue,     \* ATTEMPTING deliveries last attempted over 15 minutes ago
  expired,     \* deliveries past their expiry
  disabled, verified,   \* destinations with disabled_at, verified_at set
  workers,     \* what each worker is doing
  dispatched,  \* how often a delivery was handed to its provider (capped)
  accepted     \* deliveries a provider has accepted at least once

rows  == <<status, attempts, backingOff, overdue>>
users == <<disabled, verified>>
seen  == <<dispatched, accepted>>
vars  == <<rows, expired, users, workers, seen>>

Claimable == {"QUEUED", "RETRYABLE_FAILURE"}
Settled   == {"DELIVERED", "PERMANENT_FAILURE", "SUPPRESSED", "CANCELLED"}
Statuses  == Claimable \cup {"ATTEMPTING"} \cup Settled

Results == {"none", "DELIVERED", "RETRYABLE_FAILURE", "SUPPRESSED", "PERMANENT_FAILURE"}

Places ==
  {"idle", "expiring", "selecting", "delivering", "read", "claimed", "sent"}

\* read: what the candidate query returned; barred: the destination was
\* disabled when the row was claimed (a history variable).
Candidate == [attempts : 0 .. MaxAttempts, disabled : BOOLEAN, verified : BOOLEAN, expired : BOOLEAN]

NoCandidate == [attempts |-> 0, disabled |-> FALSE, verified |-> FALSE, expired |-> FALSE]

Idle == [at |-> "idle", todo |-> {}, delivery |-> Nothing, read |-> NoCandidate,
         result |-> "none", barred |-> FALSE]

\* What the code asks of a count is whether it is below the limit.
CountUpTo(limit, n) == IF n < limit THEN n ELSE limit

DispatchBound == MaxAttempts + 1

TypeOK ==
  /\ status \in [Deliveries -> Statuses]
  /\ attempts \in [Deliveries -> 0 .. MaxAttempts]
  /\ backingOff \subseteq Deliveries /\ overdue \subseteq Deliveries
  /\ expired \subseteq Deliveries
  /\ disabled \subseteq Destinations /\ verified \subseteq Destinations
  /\ workers \in [Workers ->
       [at : Places, todo : SUBSET Deliveries, delivery : Deliveries \cup {Nothing},
        read : Candidate, result : Results, barred : BOOLEAN]]
  /\ dispatched \in [Deliveries -> 0 .. DispatchBound]
  /\ accepted \subseteq Deliveries

Init ==
  /\ status = [d \in Deliveries |-> "QUEUED"]
  /\ attempts = [d \in Deliveries |-> 0]
  /\ backingOff = {} /\ overdue = {} /\ expired = {}
  /\ disabled \in SUBSET Destinations
  /\ verified = {}
  /\ workers = [w \in Workers |-> Idle]
  /\ dispatched = [d \in Deliveries |-> 0]
  /\ accepted = {}

-----------------------------------------------------------------------------
(* Time.                                                                   *)

InHand(d) ==
  \E w \in Workers : workers[w].at \in {"claimed", "sent"} /\ workers[w].delivery = d

AttemptGrowsOld(d) ==
  /\ status[d] = "ATTEMPTING" /\ d \notin overdue
  /\ ~InHand(d) \/ "slow" \in Faults
  /\ overdue' = overdue \cup {d}
  /\ UNCHANGED <<status, attempts, backingOff, expired, users, workers, seen>>

BackoffElapsed(d) ==
  /\ d \in backingOff
  /\ backingOff' = backingOff \ {d}
  /\ UNCHANGED <<status, attempts, overdue, expired, users, workers, seen>>

Expire(d) ==
  /\ "expiry" \in Faults
  /\ d \notin expired
  /\ expired' = expired \cup {d}
  /\ UNCHANGED <<rows, users, workers, seen>>

-----------------------------------------------------------------------------
(* The user, through the web application.                                  *)

(* One transaction: the destination, and its deliveries not yet claimed.   *)
Disable(x) ==
  /\ disabled' = disabled \cup {x}
  /\ status' = [d \in Deliveries |->
       IF Target[d] = x /\ status[d] \in Claimable THEN "CANCELLED" ELSE status[d]]
  /\ UNCHANGED <<attempts, backingOff, overdue, expired, verified, workers, seen>>

(* Storing the same destination again enables it and keeps its verification*)
Enable(x) ==
  /\ x \in disabled
  /\ disabled' = disabled \ {x}
  /\ UNCHANGED <<rows, expired, verified, workers, seen>>

-----------------------------------------------------------------------------
(* A pass of deliverDueNotifications.                                      *)

(* A bug: attempts are reclaimed however young they are.                   *)
ReclaimAtOnce(w) ==
  /\ workers[w].at = "idle"
  /\ status' = [d \in Deliveries |->
       IF status[d] = "ATTEMPTING" THEN "RETRYABLE_FAILURE" ELSE status[d]]
  /\ overdue' = {}
  /\ backingOff' = backingOff \ overdue
  /\ workers' = [workers EXCEPT ![w].at = "expiring"]
  /\ UNCHANGED <<attempts, expired, users, seen>>

(* A bug: interrupted attempts are left as they are.                       *)
ReclaimNothing(w) ==
  /\ workers[w].at = "idle"
  /\ workers' = [workers EXCEPT ![w].at = "expiring"]
  /\ UNCHANGED <<rows, expired, users, seen>>

Reclaim(w) ==
  /\ workers[w].at = "idle"
  /\ status' = [d \in Deliveries |->
       IF status[d] = "ATTEMPTING" /\ d \in overdue THEN "RETRYABLE_FAILURE" ELSE status[d]]
  /\ overdue' = {}
  /\ backingOff' = backingOff \ overdue
  /\ workers' = [workers EXCEPT ![w].at = "expiring"]
  /\ UNCHANGED <<attempts, expired, users, seen>>

CancelExpired(w) ==
  /\ workers[w].at = "expiring"
  /\ status' = [d \in Deliveries |->
       IF status[d] \in Claimable /\ d \in expired THEN "CANCELLED" ELSE status[d]]
  /\ workers' = [workers EXCEPT ![w].at = "selecting"]
  /\ UNCHANGED <<attempts, backingOff, overdue, expired, users, seen>>

SelectDue(w) ==
  LET due == {d \in Deliveries : status[d] \in Claimable /\ d \notin expired \cup backingOff} IN
  /\ workers[w].at = "selecting"
  /\ workers' = [workers EXCEPT ![w] = [@ EXCEPT !.at = "delivering", !.todo = due]]
  /\ UNCHANGED <<rows, expired, users, seen>>

EndPass(w) ==
  /\ workers[w].at = "delivering" /\ workers[w].todo = {}
  /\ workers' = [workers EXCEPT ![w] = Idle]
  /\ UNCHANGED <<rows, expired, users, seen>>

-----------------------------------------------------------------------------
(* deliverNotificationById.                                                *)

(* Done with this delivery: on to the rest of the batch.                   *)
Release(w) ==
  workers' = [workers EXCEPT ![w] = [Idle EXCEPT !.at = "delivering", !.todo = workers[w].todo]]

(* What the candidate query returns.                                       *)
CandidateRow(d) ==
  [attempts |-> attempts[d], disabled |-> Target[d] \in disabled,
   verified |-> Target[d] \in verified, expired |-> d \in expired]

(* A row that is not claimable is skipped.                                 *)
Read(w) ==
  \E d \in workers[w].todo :
    /\ workers[w].at = "delivering"
    /\ workers' = [workers EXCEPT ![w] =
         IF status[d] \in Claimable
         THEN [workers[w] EXCEPT !.at = "read", !.todo = @ \ {d}, !.delivery = d,
                        !.read = CandidateRow(d)]
         ELSE [workers[w] EXCEPT !.todo = @ \ {d}]]
    /\ UNCHANGED <<rows, expired, users, seen>>

(* Found expired: the update names the id alone.                           *)
Lapse(w) ==
  /\ workers[w].at = "read" /\ workers[w].read.expired
  /\ status' = [status EXCEPT ![workers[w].delivery] = "CANCELLED"]
  /\ Release(w)
  /\ UNCHANGED <<attempts, backingOff, overdue, expired, users, seen>>

(* A bug: the update is not conditional.                                   *)
ClaimAnyway(w) ==
  LET d == workers[w].delivery IN
  /\ workers[w].at = "read" /\ ~workers[w].read.expired
  /\ status' = [status EXCEPT ![d] = "ATTEMPTING"]
  /\ attempts' = [attempts EXCEPT ![d] = CountUpTo(MaxAttempts, workers[w].read.attempts + 1)]
  /\ backingOff' = backingOff \ {d}
  /\ overdue' = overdue \ {d}
  /\ workers' = [workers EXCEPT ![w] = [@ EXCEPT !.at = "claimed",
                                                 !.barred = Target[d] \in disabled]]
  /\ UNCHANGED <<expired, users, seen>>

(* The conditional update that lets one worker in.                         *)
Claim(w) ==
  LET d == workers[w].delivery IN
  /\ workers[w].at = "read" /\ ~workers[w].read.expired
  /\ status[d] \in Claimable
  /\ status' = [status EXCEPT ![d] = "ATTEMPTING"]
  /\ attempts' = [attempts EXCEPT ![d] = CountUpTo(MaxAttempts, workers[w].read.attempts + 1)]
  /\ backingOff' = backingOff \ {d}
  /\ overdue' = overdue \ {d}
  /\ workers' = [workers EXCEPT ![w] = [@ EXCEPT !.at = "claimed",
                                                 !.barred = Target[d] \in disabled]]
  /\ UNCHANGED <<expired, users, seen>>

ClaimFails(w) ==
  /\ workers[w].at = "read" /\ ~workers[w].read.expired
  /\ status[workers[w].delivery] \notin Claimable
  /\ Release(w)
  /\ UNCHANGED <<rows, expired, users, seen>>

(* Bugs: one of the two checks is missing.                                 *)
AdmittedUntested(w) == ~workers[w].read.disabled

AdmittedDisabled(w) == workers[w].delivery \in TestDeliveries \/ workers[w].read.verified

(* Whether the checks after the claim, on what was read before it, let the *)
(* delivery through.                                                       *)
Admitted(w) ==
  /\ ~workers[w].read.disabled
  /\ workers[w].delivery \in TestDeliveries \/ workers[w].read.verified

Refuse(w) ==
  /\ workers[w].at = "claimed"
  /\ \E outcome \in {"CANCELLED", "SUPPRESSED", "PERMANENT_FAILURE"} :
       /\ \/ ~Admitted(w) /\ outcome = IF workers[w].read.disabled THEN "CANCELLED" ELSE "SUPPRESSED"
          \/ Admitted(w) /\ "configuration" \in Faults /\ outcome # "CANCELLED"
       /\ status' = [status EXCEPT ![workers[w].delivery] = outcome]
  /\ Release(w)
  /\ UNCHANGED <<attempts, backingOff, overdue, expired, users, seen>>

(* The provider may accept a message and the worker still time out.        *)
Dispatch(w) ==
  LET d == workers[w].delivery IN
  /\ workers[w].at = "claimed" /\ Admitted(w)
  /\ \E result \in Results \ {"none"} :
       /\ workers' = [workers EXCEPT ![w] = [@ EXCEPT !.at = "sent", !.result = result]]
       /\ \/ result \in {"DELIVERED", "RETRYABLE_FAILURE"} /\ accepted' = accepted \cup {d}
          \/ result # "DELIVERED" /\ UNCHANGED accepted
  /\ dispatched' = [dispatched EXCEPT ![d] = CountUpTo(DispatchBound, @ + 1)]
  /\ UNCHANGED <<rows, expired, users>>

RetryAllowedOnceMore(attempt) == attempt <= MaxAttempts

RetryAllowed(attempt) == attempt < MaxAttempts

OutcomeOf(result, attempt) ==
  IF result = "RETRYABLE_FAILURE" /\ ~RetryAllowed(attempt) THEN "PERMANENT_FAILURE" ELSE result

(* The outcome becomes the row's status, whatever the status is by now.    *)
RecordResult(w) ==
  LET d       == workers[w].delivery
      outcome == OutcomeOf(workers[w].result, workers[w].read.attempts + 1)
  IN
  /\ workers[w].at = "sent"
  /\ status' = [status EXCEPT ![d] = outcome]
  /\ backingOff' = backingOff \cup {x \in {d} : outcome = "RETRYABLE_FAILURE"}
  /\ verified' = verified \cup
       {x \in {Target[d]} : outcome = "DELIVERED" /\ d \in TestDeliveries /\ ~workers[w].read.verified}
  /\ Release(w)
  /\ UNCHANGED <<attempts, overdue, expired, disabled, seen>>

Crash(w) ==
  /\ "crash" \in Faults
  /\ workers[w].at # "idle"
  /\ workers' = [workers EXCEPT ![w] = Idle]
  /\ UNCHANGED <<rows, expired, users, seen>>

Deliver(w) ==
  \/ Read(w) \/ Lapse(w) \/ Claim(w) \/ ClaimFails(w) \/ Refuse(w) \/ Dispatch(w)
  \/ RecordResult(w)

Next ==
  \/ \E d \in Deliveries : AttemptGrowsOld(d) \/ BackoffElapsed(d) \/ Expire(d)
  \/ \E x \in Destinations : Disable(x) \/ Enable(x)
  \/ \E w \in Workers :
       Reclaim(w) \/ CancelExpired(w) \/ SelectDue(w) \/ EndPass(w) \/ Deliver(w) \/ Crash(w)

Spec == Init /\ [][Next]_vars

(* Time passes, the alert schedule starts passes, and a pass that crashes  *)
(* again and again gets through its first two statements some time.        *)
Fairness ==
  /\ \A d \in Deliveries : WF_vars(AttemptGrowsOld(d)) /\ WF_vars(Expire(d))
  /\ \A w \in Workers :
       /\ WF_vars(SelectDue(w)) /\ WF_vars(EndPass(w)) /\ WF_vars(Deliver(w))
       /\ SF_vars(Reclaim(w)) /\ SF_vars(CancelExpired(w))

FairSpec == Spec /\ Fairness

-----------------------------------------------------------------------------
(* Properties.                                                             *)

(* At most one live worker is between the claim of a delivery and the      *)
(* statement that records its result: the claim excludes, and a reclaim    *)
(* only frees deliveries whose worker is gone.                             *)
OneAttemptAtATime ==
  \A v, w \in Workers :
    /\ workers[v].at \in {"claimed", "sent"} /\ workers[w].at \in {"claimed", "sent"}
    /\ workers[v].delivery = workers[w].delivery
    => v = w

(* An ordinary alert is handed to a provider only after the provider has   *)
(* accepted a test message to the same destination (SECURITY.md:246).      *)
OrdinaryAfterTest ==
  \A d \in Deliveries \ TestDeliveries : dispatched[d] > 0 =>
    \E t \in TestDeliveries : Target[t] = Target[d] /\ t \in accepted

(* A delivered notification stays delivered: it is not claimed, reclaimed, *)
(* cancelled or failed again, and so not sent twice.                       *)
DeliveredIsFinal ==
  [][\A d \in Deliveries : status[d] = "DELIVERED" => status'[d] = "DELIVERED"]_vars

(* A delivery claimed while its destination is disabled is not sent:       *)
(* disabling cancels what is queued or retryable (SECURITY.md:246).        *)
NothingSentWhileDisabled ==
  \A w \in Workers : workers[w].at = "sent" => ~workers[w].barred

(* Retries are bounded (REQUIREMENTS.md:555): a failed attempt is retried  *)
(* only while its delivery has been handed to a provider fewer than        *)
(* MaxAttempts times.  (An attempt whose worker died is reclaimed however  *)
(* many there were; that is not a failed attempt.)                         *)
AttemptFailed(d) ==
  status[d] = "ATTEMPTING" /\ d \notin overdue /\ status'[d] = "RETRYABLE_FAILURE"

RetriesAreBounded ==
  [][\A d \in Deliveries : AttemptFailed(d) => dispatched[d] < MaxAttempts]_vars

(* Every delivery is settled in the end, even if its worker dies in the    *)
(* middle of an attempt.                                                   *)
EveryDeliverySettles == \A d \in Deliveries : <>(status[d] \in Settled)
=============================================================================
