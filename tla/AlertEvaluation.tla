--------------------------- MODULE AlertEvaluation ---------------------------
(***************************************************************************)
(* Evaluation of alert rules: EVALUATE_ALERTS of apps/worker/src/          *)
(* handlers.ts, run by several workers at a time, and the users' changes   *)
(* of rules and destinations (apps/web .../v1/alerts/route.ts).            *)
(*                                                                         *)
(* A pass reads every active rule once, then takes the rules one by one    *)
(* with that copy in hand: whether a rule is cooling down is decided on    *)
(* what the rule was when the pass began.  A rule that triggers writes     *)
(* its event, the event's deliveries and its own state in a transaction.   *)
(* What happens to a delivery after that is NotificationDelivery.          *)
(***************************************************************************)
EXTENDS Naturals

CONSTANTS
  Evaluators,    \* EVALUATE_ALERTS handlers that may run at once
  Rules,
  Destinations,
  Attached,      \* the destinations of each rule
  Cooldown,      \* a rule's cooldown, in ticks of the clock
  Lifetime,      \* thirty days, in ticks: a delivery expires that long after its event
  Horizon,       \* bound on the clock
  LastKey,       \* bound on the observations a rule is shown
  Leftovers,     \* events an older release stored without their deliveries
  Crashes,       \* BOOLEAN: evaluators die, or lose the database, anywhere
  Nobody         \* no rule

ASSUME AlertConstants ==
  /\ Attached \in [Rules -> SUBSET Destinations]
  /\ Cooldown \in Nat /\ Lifetime \in Nat \ {0}
  /\ Horizon \in Nat /\ LastKey \in Nat \ {0}
  /\ Nobody \notin Rules
  /\ Crashes \in BOOLEAN

Times == 0 .. Horizon
Keys  == 1 .. LastKey
Never == Horizon + 1

VARIABLES
  now,
  signal,         \* what loadAlertSignal finds for each rule
  active, archived,       \* rules that are enabled; rules deleted by their user
  lastTriggered,  \* alert_rules.last_triggered_at
  evaluation,     \* alert_rules.configuration.lastEvaluation
  events,         \* alert_events
  deliveries,     \* notification_deliveries
  disabled,       \* destinations with disabled_at set
  evaluators,     \* what each evaluator is doing
  stopped,        \* when each rule was last disabled or deleted (updated_at)
  withheld        \* destinations that have been disabled at some time

ruleState == <<lastTriggered, evaluation>>
outbox    == <<events, deliveries>>
choices   == <<active, archived, disabled, stopped, withheld>>
vars      == <<now, signal, choices, ruleState, outbox, evaluators>>

Outcomes    == {"UNAVAILABLE", "NO_TRIGGER", "TRIGGERED"}
Evaluations == {"CURRENT", "COOLDOWN", "TRIGGERED", "UNAVAILABLE"}

Event    == [rule : Rules, key : Keys, at : Times]
Delivery == [rule : Rules, key : Keys, to : Destinations]

ASSUME LeftoversAreEvents ==
  /\ Leftovers \subseteq Event
  /\ \A ev, other \in Leftovers : ev.rule = other.rule /\ ev.key = other.key => ev = other

Idle == [at |-> "idle", began |-> 0, todo |-> {}, last |-> [r \in Rules |-> Never],
         rule |-> Nobody, key |-> 1, verdict |-> "CURRENT", to |-> {}]

TypeOK ==
  /\ now \in Times
  /\ signal \in [Rules -> [outcome : Outcomes, key : Keys]]
  /\ active \subseteq Rules /\ archived \subseteq Rules \ active
  /\ lastTriggered \in [Rules -> Times \cup {Never}]
  /\ evaluation \in [Rules -> [status : Evaluations, at : Times]]
  /\ events \subseteq Event /\ deliveries \subseteq Delivery
  /\ disabled \subseteq withheld /\ withheld \subseteq Destinations
  /\ evaluators \in [Evaluators ->
       [at : {"idle", "evaluating", "decided", "storing"}, began : Times, todo : SUBSET Rules,
        last : [Rules -> Times \cup {Never}], rule : Rules \cup {Nobody}, key : Keys,
        verdict : Evaluations, to : SUBSET Destinations]]
  /\ stopped \in [Rules -> Times]

Init ==
  /\ now = 0
  /\ signal \in [Rules -> [outcome : {"NO_TRIGGER", "TRIGGERED"}, key : {1}]]
  /\ active = Rules /\ archived = {}
  /\ lastTriggered = [r \in Rules |-> Never]
  /\ evaluation = [r \in Rules |-> [status |-> "CURRENT", at |-> 0]]
  /\ events = Leftovers /\ deliveries = {}
  /\ disabled = {} /\ withheld = {}
  /\ evaluators = [e \in Evaluators |-> Idle]
  /\ stopped = [r \in Rules |-> 0]

-----------------------------------------------------------------------------
(* The clock, the observations, the users.                                 *)

Tick ==
  /\ now < Horizon
  /\ now' = now + 1
  /\ UNCHANGED <<signal, choices, ruleState, outbox, evaluators>>

(* A newer observation, or the same one seen differently as time passes.   *)
Observe(r) ==
  /\ \E outcome \in Outcomes, key \in Keys :
       /\ key \in {signal[r].key, signal[r].key + 1}
       /\ signal' = [signal EXCEPT ![r] = [outcome |-> outcome, key |-> key]]
  /\ UNCHANGED <<now, choices, ruleState, outbox, evaluators>>

Resume(r) ==
  /\ r \notin active \cup archived
  /\ active' = active \cup {r}
  /\ UNCHANGED <<now, signal, archived, disabled, stopped, withheld, ruleState, outbox, evaluators>>

Pause(r) ==
  /\ r \in active
  /\ active' = active \ {r}
  /\ stopped' = [stopped EXCEPT ![r] = now]
  /\ UNCHANGED <<now, signal, archived, disabled, withheld, ruleState, outbox, evaluators>>

Delete(r) ==
  /\ r \notin archived
  /\ archived' = archived \cup {r}
  /\ active' = active \ {r}
  /\ stopped' = [stopped EXCEPT ![r] = now]
  /\ UNCHANGED <<now, signal, disabled, withheld, ruleState, outbox, evaluators>>

DisableDestination(x) ==
  /\ x \notin disabled
  /\ disabled' = disabled \cup {x} /\ withheld' = withheld \cup {x}
  /\ UNCHANGED <<now, signal, active, archived, stopped, ruleState, outbox, evaluators>>

EnableDestination(x) ==
  /\ x \in disabled
  /\ disabled' = disabled \ {x}
  /\ UNCHANGED <<now, signal, active, archived, stopped, withheld, ruleState, outbox, evaluators>>

-----------------------------------------------------------------------------
(* A pass.                                                                 *)

Move(e, step) == evaluators' = [evaluators EXCEPT ![e] = step]

(* A bug: every rule, whatever its user asked for.                         *)
LoadAllRules(e) ==
  /\ evaluators[e].at = "idle"
  /\ Move(e, [Idle EXCEPT !.at = "evaluating", !.began = now, !.todo = Rules,
                          !.last = lastTriggered])
  /\ UNCHANGED <<now, signal, choices, ruleState, outbox>>

Load(e) ==
  /\ evaluators[e].at = "idle"
  /\ Move(e, [Idle EXCEPT !.at = "evaluating", !.began = now, !.todo = active,
                          !.last = lastTriggered])
  /\ UNCHANGED <<now, signal, choices, ruleState, outbox>>

CoolingDownOneShort(last, at) == last # Never /\ at - last + 1 < Cooldown

CoolingDown(last, at) == last # Never /\ at - last < Cooldown

Verdict(outcome, last, at) ==
  CASE outcome = "UNAVAILABLE" -> "UNAVAILABLE"
    [] outcome = "NO_TRIGGER"  -> "CURRENT"
    [] outcome = "TRIGGERED"   -> IF CoolingDown(last, at) THEN "COOLDOWN" ELSE "TRIGGERED"

(* The signal is read now, the rule was read when the pass began.  The key *)
(* of what does not trigger, and the copy of a rule dealt with, are        *)
(* forgotten.                                                              *)
Evaluate(e, r) ==
  LET pass    == evaluators[e]
      verdict == Verdict(signal[r].outcome, pass.last[r], pass.began)
  IN
  /\ pass.at = "evaluating" /\ r \in pass.todo
  /\ Move(e, [pass EXCEPT !.at = "decided", !.todo = @ \ {r}, !.last = [@ EXCEPT ![r] = Never],
                          !.rule = r, !.verdict = verdict,
                          !.key = IF verdict = "TRIGGERED" THEN signal[r].key ELSE 1])
  /\ UNCHANGED <<now, signal, choices, ruleState, outbox>>

(* Done with this rule: on to the next.                                    *)
NextRule(e) ==
  Move(e, [Idle EXCEPT !.at = "evaluating", !.began = evaluators[e].began,
                       !.todo = evaluators[e].todo, !.last = evaluators[e].last])

Record(e) ==
  LET pass == evaluators[e] IN
  /\ pass.at = "decided" /\ pass.verdict # "TRIGGERED"
  /\ evaluation' = [evaluation EXCEPT ![pass.rule] = [status |-> pass.verdict, at |-> pass.began]]
  /\ NextRule(e)
  /\ UNCHANGED <<now, signal, choices, lastTriggered, outbox>>

(* The transaction begins: its event is stored, or found, which makes      *)
(* others with the same event wait, and the destinations are read.         *)
BeginTrigger(e) ==
  LET pass == evaluators[e] IN
  /\ pass.at = "decided" /\ pass.verdict = "TRIGGERED"
  /\ \A other \in Evaluators : evaluators[other].at = "storing" =>
       <<evaluators[other].rule, evaluators[other].key>> # <<pass.rule, pass.key>>
  /\ Move(e, [pass EXCEPT !.at = "storing", !.to = Attached[pass.rule] \ disabled])
  /\ UNCHANGED <<now, signal, choices, ruleState, outbox>>

(* A bug: no look at what is there.                                        *)
StoredEventAnew(r, k, at) == [rule |-> r, key |-> k, at |-> at]

(* The event of an observation: the one there is, or a new one.            *)
StoredEvent(r, k, at) ==
  LET existing == {ev \in events : ev.rule = r /\ ev.key = k}
  IN  IF existing = {} THEN [rule |-> r, key |-> k, at |-> at] ELSE CHOOSE ev \in existing : TRUE

(* A bug: a day instead of thirty.                                         *)
RowsAreValidForADay(event, to) == to = {} \/ event.at + 1 > now

(* A row that would expire before it is created breaks a CHECK of its      *)
(* table; PostgreSQL looks at that before it looks for a conflict.         *)
RowsAreValid(event, to) == to = {} \/ event.at + Lifetime > now

(* A bug: the deliveries are written when the event is new, and not repaired. *)
RowsForNewEvents(event, to) ==
  {[rule |-> event.rule, key |-> event.key, to |-> x] : x \in {y \in to : event \notin events}}

RowsFor(event, to) == {[rule |-> event.rule, key |-> event.key, to |-> x] : x \in to}

CommitTrigger(e) ==
  LET pass  == evaluators[e]
      event == StoredEvent(pass.rule, pass.key, pass.began)
  IN
  /\ pass.at = "storing" /\ RowsAreValid(event, pass.to)
  /\ events' = events \cup {event}
  /\ deliveries' = deliveries \cup RowsFor(event, pass.to)
  /\ lastTriggered' = [lastTriggered EXCEPT ![pass.rule] = event.at]
  /\ evaluation' = [evaluation EXCEPT ![pass.rule] = [status |-> "TRIGGERED", at |-> pass.began]]
  /\ NextRule(e)
  /\ UNCHANGED <<now, signal, choices>>

(* The transaction is rolled back and its error ends the pass.             *)
AbortTrigger(e) ==
  LET pass == evaluators[e] IN
  /\ pass.at = "storing"
  /\ ~RowsAreValid(StoredEvent(pass.rule, pass.key, pass.began), pass.to)
  /\ Move(e, Idle)
  /\ UNCHANGED <<now, signal, choices, ruleState, outbox>>

EndPass(e) ==
  /\ evaluators[e].at = "evaluating" /\ evaluators[e].todo = {}
  /\ Move(e, Idle)
  /\ UNCHANGED <<now, signal, choices, ruleState, outbox>>

Crash(e) ==
  /\ Crashes
  /\ evaluators[e].at # "idle"
  /\ Move(e, Idle)
  /\ UNCHANGED <<now, signal, choices, ruleState, outbox>>

Step(e) ==
  \/ Load(e) \/ (\E r \in Rules : Evaluate(e, r)) \/ Record(e)
  \/ BeginTrigger(e) \/ CommitTrigger(e) \/ AbortTrigger(e) \/ EndPass(e)

Next ==
  \/ Tick
  \/ \E r \in Rules : Observe(r) \/ Resume(r) \/ Pause(r) \/ Delete(r)
  \/ \E x \in Destinations : DisableDestination(x) \/ EnableDestination(x)
  \/ \E e \in Evaluators : Step(e) \/ Crash(e)

Spec == Init /\ [][Next]_vars

(* The schedule starts passes and handlers run to their end; an evaluator  *)
(* may die at a step again and again, but not every time.                  *)
FairSpec ==
  /\ Spec
  /\ \A e \in Evaluators :
       /\ WF_vars(Step(e))
       /\ SF_vars(\E r \in Rules : Evaluate(e, r)) /\ SF_vars(Record(e))
       /\ SF_vars(BeginTrigger(e)) /\ SF_vars(CommitTrigger(e))

-----------------------------------------------------------------------------
(* Properties.                                                             *)

(* However often an observation is evaluated, by whomever, a rule has one  *)
(* event for it (TEST_PLAN.md:293).                                        *)
OneEventPerObservation ==
  \A ev, other \in events : ev.rule = other.rule /\ ev.key = other.key => ev = other

(* A rule that says it triggered has an event of that time, and the event  *)
(* has a delivery for each destination of the rule that was never          *)
(* disabled, also if an older release stored it without (ARCHITECTURE.md:163). *)
TriggeredIsDelivered ==
  \A r \in Rules : lastTriggered[r] # Never =>
    \E ev \in events :
      /\ ev.rule = r /\ ev.at = lastTriggered[r]
      /\ \A x \in Attached[r] \ withheld : [rule |-> r, key |-> ev.key, to |-> x] \in deliveries

(* A rule that its user stopped triggers only in a pass that was under way *)
(* when it was stopped (the disable control of REQUIREMENTS.md:555).       *)
StoppedRuleIsQuiet ==
  [][\A ev \in events' \ events : ev.rule \notin active => ev.at <= stopped[ev.rule]]_vars

(* Two events of a rule are at least its cooldown apart (ARCHITECTURE.md:217). *)
CooldownRespected ==
  \A ev, other \in events :
    ev.rule = other.rule /\ ev.at <= other.at /\ ev # other => other.at - ev.at >= Cooldown

(* Some evaluator finishes with r.                                         *)
Evaluated(r) == \E e \in Evaluators : evaluators[e].rule = r /\ (Record(e) \/ CommitTrigger(e))

(* The observation that triggers r now did so thirty days ago.             *)
RestsOnOldEvent(r) ==
  \E ev \in events : ev.rule = r /\ ev.key = signal[r].key /\ ev.at + Lifetime <= now

(* A rule that stays active is evaluated again and again, whatever crashes *)
(* and whatever its user disables, unless an observation of some rule is   *)
(* evaluated thirty days after its event: nothing else stops a pass        *)
(* (ARCHITECTURE.md:163).                                                  *)
OnlyOldEventsStopRules ==
  \A r \in Rules :
    <>[](r \in active /\ \A q \in Rules : ~RestsOnOldEvent(q)) => []<><<Evaluated(r)>>_vars

(* A rule that stays active is evaluated again and again.                  *)
RulesKeepBeingEvaluated ==
  \A r \in Rules : <>[](r \in active) => []<><<Evaluated(r)>>_vars
=============================================================================
