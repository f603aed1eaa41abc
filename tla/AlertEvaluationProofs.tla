------------------------ MODULE AlertEvaluationProofs ------------------------
(* Proofs about AlertEvaluation.                                           *)
EXTENDS AlertEvaluation, TLAPS

(* A pass deals with rules that are active, or that were stopped after it  *)
(* began.                                                                  *)
PassesInv ==
  \A e \in Evaluators : evaluators[e].at # "idle" =>
    /\ evaluators[e].began <= now
    /\ \A r \in evaluators[e].todo \cup ({evaluators[e].rule} \ {Nobody}) :
         r \in active \/ evaluators[e].began <= stopped[r]
    /\ evaluators[e].at \in {"decided", "storing"} => evaluators[e].rule \in Rules

IndInv == TypeOK /\ OneEventPerObservation /\ PassesInv

USE DEF Times, Keys, Never

(* An idle evaluator is well formed.                                       *)
LEMMA IdleType ==
  Idle \in [at : {"idle", "evaluating", "decided", "storing"}, began : Times, todo : SUBSET Rules,
            last : [Rules -> Times \cup {Never}], rule : Rules \cup {Nobody}, key : Keys,
            verdict : Evaluations, to : SUBSET Destinations]
  BY AlertConstants DEF Idle, Evaluations

(* The event of an observation is of that observation, and if it is not    *)
(* stored yet it carries the given time and no stored event is of it.      *)
LEMMA StoredEventFacts ==
  ASSUME events \subseteq Event, NEW r \in Rules, NEW k \in Keys, NEW at \in Times
  PROVE  LET ev == StoredEvent(r, k, at) IN
         /\ ev \in Event /\ ev.rule = r /\ ev.key = k
         /\ ev \notin events =>
              ev.at = at /\ \A other \in events : ~(other.rule = r /\ other.key = k)
<1> DEFINE existing == {ev \in events : ev.rule = r /\ ev.key = k}
<1>1. CASE existing = {}
  <2>1. StoredEvent(r, k, at) = [rule |-> r, key |-> k, at |-> at]
    BY <1>1 DEF StoredEvent
  <2> QED
    BY <1>1, <2>1 DEF Event
<1>2. CASE existing # {}
  <2>1. StoredEvent(r, k, at) = CHOOSE ev \in existing : TRUE
    BY <1>2 DEF StoredEvent
  <2>2. StoredEvent(r, k, at) \in existing
    BY <1>2, <2>1
  <2> QED
    BY <2>2
<1> QED
  BY <1>1, <1>2

LEMMA InitIndInv == Init => IndInv
<1> SUFFICES ASSUME Init PROVE IndInv
  OBVIOUS
<1>1. TypeOK
  BY AlertConstants, LeftoversAreEvents, IdleType DEF Init, TypeOK, Outcomes, Evaluations, Delivery
<1>2. OneEventPerObservation
  BY LeftoversAreEvents DEF Init, OneEventPerObservation
<1>3. PassesInv
  BY DEF Init, PassesInv, Idle
<1> QED
  BY <1>1, <1>2, <1>3 DEF IndInv

-----------------------------------------------------------------------------
(* Passes, taken together for the steps that only move an evaluator.       *)

Pass ==
  [at : {"idle", "evaluating", "decided", "storing"}, began : Times, todo : SUBSET Rules,
   last : [Rules -> Times \cup {Never}], rule : Rules \cup {Nobody}, key : Keys,
   verdict : Evaluations, to : SUBSET Destinations]

LEMMA VerdictType ==
  ASSUME NEW outcome \in Outcomes, NEW last, NEW at
  PROVE  Verdict(outcome, last, at) \in Evaluations
  BY DEF Verdict, Outcomes, Evaluations

(* An evaluator that goes on to the next rule is well formed.              *)
LEMMA NextRuleType ==
  ASSUME TypeOK, NEW e \in Evaluators, NextRule(e)
  PROVE  evaluators' \in [Evaluators -> Pass]
  BY IdleType DEF TypeOK, NextRule, Move, Idle, Pass

LEMMA TypeStep ==
  ASSUME TypeOK, PassesInv, [Next]_vars
  PROVE  TypeOK'
<1> USE AlertConstants
<1>1. CASE Tick
  BY <1>1 DEF TypeOK, Tick, choices, ruleState, outbox
<1>2. ASSUME NEW r \in Rules, Observe(r) PROVE TypeOK'
  BY <1>2 DEF TypeOK, Observe, choices, ruleState, outbox
<1>3. ASSUME NEW r \in Rules, Resume(r) PROVE TypeOK'
  BY <1>3 DEF TypeOK, Resume, ruleState, outbox
<1>4. ASSUME NEW r \in Rules, Pause(r) PROVE TypeOK'
  BY <1>4 DEF TypeOK, Pause, ruleState, outbox
<1>5. ASSUME NEW r \in Rules, Delete(r) PROVE TypeOK'
  BY <1>5 DEF TypeOK, Delete, ruleState, outbox
<1>6. ASSUME NEW x \in Destinations, DisableDestination(x) PROVE TypeOK'
  BY <1>6 DEF TypeOK, DisableDestination, ruleState, outbox
<1>7. ASSUME NEW x \in Destinations, EnableDestination(x) PROVE TypeOK'
  BY <1>7 DEF TypeOK, EnableDestination, ruleState, outbox
<1>8. ASSUME NEW e \in Evaluators, Load(e) PROVE TypeOK'
  <2>1. evaluators' \in [Evaluators -> Pass]
    BY <1>8, IdleType DEF TypeOK, Load, Move, Idle, Pass
  <2> QED
    BY <1>8, <2>1 DEF TypeOK, Load, Pass, choices, ruleState, outbox
<1>9. ASSUME NEW e \in Evaluators, NEW r \in Rules, Evaluate(e, r) PROVE TypeOK'
  <2>1. Verdict(signal[r].outcome, evaluators[e].last[r], evaluators[e].began) \in Evaluations
    BY VerdictType DEF TypeOK
  <2> DEFINE verdict == Verdict(signal[r].outcome, evaluators[e].last[r], evaluators[e].began)
             key     == IF verdict = "TRIGGERED" THEN signal[r].key ELSE 1
             last    == [evaluators[e].last EXCEPT ![r] = Never]
             todo    == evaluators[e].todo \ {r}
  <2>7. todo \in SUBSET Rules
    BY DEF TypeOK
  <2>3. key \in Keys /\ last \in [Rules -> Times \cup {Never}]
    BY DEF TypeOK
  <2>4. evaluators' = [evaluators EXCEPT ![e] =
          [evaluators[e] EXCEPT !.at = "decided", !.todo = todo, !.last = last,
                                !.rule = r, !.verdict = verdict, !.key = key]]
    BY <1>9 DEF Evaluate, Move
  <2>5. verdict \in Evaluations
    BY <2>1
  <2> HIDE DEF verdict, key, last, todo
  <2>6. [evaluators[e] EXCEPT !.at = "decided", !.todo = todo, !.last = last,
                              !.rule = r, !.verdict = verdict, !.key = key] \in Pass
    <3>1. evaluators[e] \in Pass
      BY DEF TypeOK, Pass
    <3> QED
      BY <3>1, <2>3, <2>5, <2>7 DEF Pass
  <2>2. evaluators' \in [Evaluators -> Pass]
    BY <2>4, <2>6 DEF TypeOK, Pass
  <2> QED
    BY <1>9, <2>2 DEF TypeOK, Evaluate, Pass, choices, ruleState, outbox
<1>10. ASSUME NEW e \in Evaluators, Record(e) PROVE TypeOK'
  <2>1. evaluators' \in [Evaluators -> Pass]
    BY <1>10, NextRuleType DEF Record
  <2>2. evaluation' \in [Rules -> [status : Evaluations, at : Times]]
    BY <1>10 DEF TypeOK, Record
  <2> QED
    BY <1>10, <2>1, <2>2 DEF TypeOK, Record, Pass, choices, outbox
<1>11. ASSUME NEW e \in Evaluators, BeginTrigger(e) PROVE TypeOK'
  <2>3. evaluators[e].at = "decided"
    BY <1>11 DEF BeginTrigger
  <2>4. evaluators[e].rule \in Rules
    BY <2>3 DEF PassesInv
  <2> DEFINE to == Attached[evaluators[e].rule] \ disabled
  <2>1. to \in SUBSET Destinations
    BY <2>4
  <2>5. evaluators' = [evaluators EXCEPT ![e] = [evaluators[e] EXCEPT !.at = "storing", !.to = to]]
    BY <1>11 DEF BeginTrigger, Move
  <2> HIDE DEF to
  <2>6. evaluators[e] \in Pass /\ evaluators \in [Evaluators -> Pass]
    BY DEF TypeOK, Pass
  <2>7. [evaluators[e] EXCEPT !.at = "storing", !.to = to] \in Pass
    BY <2>1, <2>6 DEF Pass
  <2>2. evaluators' \in [Evaluators -> Pass]
    BY <2>5, <2>6, <2>7
  <2> QED
    BY <1>11, <2>2 DEF TypeOK, BeginTrigger, Pass, choices, ruleState, outbox
<1>12. ASSUME NEW e \in Evaluators, CommitTrigger(e) PROVE TypeOK'
  <2> DEFINE pass  == evaluators[e]
             event == StoredEvent(pass.rule, pass.key, pass.began)
  <2>1. pass.rule \in Rules /\ pass.key \in Keys /\ pass.began \in Times
    BY <1>12 DEF PassesInv, CommitTrigger, TypeOK
  <2>2. event \in Event
    BY <2>1, StoredEventFacts DEF TypeOK
  <2>3. evaluators' \in [Evaluators -> Pass]
    BY <1>12, NextRuleType DEF CommitTrigger
  <2>4. RowsFor(event, pass.to) \subseteq Delivery
    BY <2>2 DEF RowsFor, Event, Delivery, TypeOK
  <2>5. events' = events \cup {event} /\ deliveries' = deliveries \cup RowsFor(event, pass.to)
    BY <1>12 DEF CommitTrigger
  <2>6. /\ lastTriggered' = [lastTriggered EXCEPT ![pass.rule] = event.at]
        /\ evaluation' = [evaluation EXCEPT ![pass.rule] = [status |-> "TRIGGERED", at |-> pass.began]]
    BY <1>12 DEF CommitTrigger
  <2>7. UNCHANGED <<now, signal, choices>>
    BY <1>12 DEF CommitTrigger
  <2> HIDE DEF event
  <2>8. /\ lastTriggered' \in [Rules -> Times \cup {Never}]
        /\ evaluation' \in [Rules -> [status : Evaluations, at : Times]]
    BY <2>1, <2>2, <2>6 DEF TypeOK, Event, Evaluations
  <2> QED
    BY <2>2, <2>3, <2>4, <2>5, <2>7, <2>8 DEF TypeOK, Pass, choices
<1>13. ASSUME NEW e \in Evaluators, evaluators' = [evaluators EXCEPT ![e] = Idle],
              UNCHANGED <<now, signal, choices, ruleState, outbox>>
       PROVE  TypeOK'
  <2>1. evaluators' \in [Evaluators -> Pass]
    BY <1>13, IdleType DEF TypeOK, Pass
  <2> QED
    BY <1>13, <2>1 DEF TypeOK, Pass, choices, ruleState, outbox
<1>14. CASE UNCHANGED vars
  BY <1>14 DEF TypeOK, vars, choices, ruleState, outbox
<1> QED
  BY <1>1, <1>2, <1>3, <1>4, <1>5, <1>6, <1>7, <1>8, <1>9, <1>10, <1>11, <1>12, <1>13, <1>14
     DEF Next, Step, AbortTrigger, EndPass, Crash, Move

(* Only a commit adds an event, and it adds the one StoredEvent names.     *)
LEMMA EventsStep ==
  ASSUME TypeOK, PassesInv, [Next]_vars
  PROVE  \/ events' = events
         \/ \E e \in Evaluators :
              /\ evaluators[e].at = "storing"
              /\ evaluators[e].rule \in Rules /\ evaluators[e].key \in Keys
              /\ evaluators[e].began \in Times
              /\ events' = events \cup
                   {StoredEvent(evaluators[e].rule, evaluators[e].key, evaluators[e].began)}
<1>1. CASE \E e \in Evaluators : CommitTrigger(e)
  <2>1. PICK e \in Evaluators : CommitTrigger(e)
    BY <1>1
  <2>2. evaluators[e].at = "storing"
    BY <2>1 DEF CommitTrigger
  <2>3. /\ evaluators[e].rule \in Rules /\ evaluators[e].key \in Keys
        /\ evaluators[e].began \in Times
    BY <2>2 DEF PassesInv, TypeOK
  <2>4. events' = events \cup
          {StoredEvent(evaluators[e].rule, evaluators[e].key, evaluators[e].began)}
    BY <2>1 DEF CommitTrigger
  <2> QED
    BY <2>2, <2>3, <2>4
<1>2. CASE ~\E e \in Evaluators : CommitTrigger(e)
  BY <1>2 DEF Next, vars, outbox, Tick, Observe, Resume, Pause, Delete, DisableDestination,
      EnableDestination, Step, Load, Evaluate, Record, BeginTrigger, AbortTrigger, EndPass, Crash
<1> QED
  BY <1>1, <1>2

LEMMA OneEventStep ==
  ASSUME TypeOK, OneEventPerObservation, PassesInv, [Next]_vars
  PROVE  OneEventPerObservation'
<1>1. CASE events' = events
  BY <1>1 DEF OneEventPerObservation
<1>2. CASE events' # events
  <2>1. PICK e \in Evaluators :
          /\ evaluators[e].rule \in Rules /\ evaluators[e].key \in Keys
          /\ evaluators[e].began \in Times
          /\ events' = events \cup
               {StoredEvent(evaluators[e].rule, evaluators[e].key, evaluators[e].began)}
    BY <1>2, EventsStep
  <2> DEFINE event == StoredEvent(evaluators[e].rule, evaluators[e].key, evaluators[e].began)
  <2>2. \A other \in events : ~(other.rule = event.rule /\ other.key = event.key)
    BY <1>2, <2>1, StoredEventFacts DEF TypeOK
  <2> HIDE DEF event
  <2> QED
    BY <2>1, <2>2 DEF OneEventPerObservation, event
<1> QED
  BY <1>1, <1>2

(* The evaluator that moves is the only one whose pass a handler changes.  *)
LEMMA PassesHandler ==
  ASSUME TypeOK, PassesInv, NEW e \in Evaluators, NEW pass,
         evaluators' = [evaluators EXCEPT ![e] = pass],
         UNCHANGED <<now, active, stopped>>,
         pass.at # "idle" =>
           /\ pass.began <= now
           /\ \A r \in pass.todo \cup ({pass.rule} \ {Nobody}) : r \in active \/ pass.began <= stopped[r]
           /\ pass.at \in {"decided", "storing"} => pass.rule \in Rules
  PROVE  PassesInv'
<1> SUFFICES ASSUME NEW f \in Evaluators, evaluators'[f].at # "idle"
             PROVE  /\ evaluators'[f].began <= now'
                    /\ \A r \in evaluators'[f].todo \cup ({evaluators'[f].rule} \ {Nobody}) :
                         r \in active' \/ evaluators'[f].began <= stopped'[r]
                    /\ evaluators'[f].at \in {"decided", "storing"} => evaluators'[f].rule \in Rules
  BY DEF PassesInv
<1>1. CASE f = e
  <2>1. evaluators'[f] = pass
    BY <1>1 DEF TypeOK
  <2> QED
    BY <2>1
<1>2. CASE f # e
  <2>1. evaluators'[f] = evaluators[f]
    BY <1>2 DEF TypeOK
  <2> QED
    BY <2>1 DEF PassesInv
<1> QED
  BY <1>1, <1>2

LEMMA PassesStep ==
  ASSUME TypeOK, PassesInv, [Next]_vars
  PROVE  PassesInv'
<1> USE AlertConstants
<1>1. CASE Tick
  BY <1>1 DEF TypeOK, PassesInv, Tick, choices
<1>2. ASSUME NEW r \in Rules, Observe(r) PROVE PassesInv'
  BY <1>2 DEF PassesInv, Observe, choices
<1>3. ASSUME NEW r \in Rules, Resume(r) PROVE PassesInv'
  BY <1>3 DEF PassesInv, Resume
<1>4. ASSUME NEW r \in Rules, Pause(r) \/ Delete(r) PROVE PassesInv'
  <2>1. /\ stopped' = [stopped EXCEPT ![r] = now] /\ active' = active \ {r}
        /\ UNCHANGED <<now, evaluators>>
    BY <1>4 DEF Pause, Delete
  <2> QED
    BY <2>1 DEF TypeOK, PassesInv
<1>5. ASSUME NEW x \in Destinations, DisableDestination(x) \/ EnableDestination(x) PROVE PassesInv'
  BY <1>5 DEF PassesInv, DisableDestination, EnableDestination
<1>6. ASSUME NEW e \in Evaluators, Load(e) PROVE PassesInv'
  <2> DEFINE pass == [Idle EXCEPT !.at = "evaluating", !.began = now, !.todo = active,
                                  !.last = lastTriggered]
  <2>1. evaluators' = [evaluators EXCEPT ![e] = pass] /\ UNCHANGED <<now, active, stopped>>
    BY <1>6 DEF Load, Move, choices
  <2>2. pass.at = "evaluating" /\ pass.began = now /\ pass.todo = active /\ pass.rule = Nobody
    BY DEF Idle
  <2>3. pass.began <= now
    BY <2>2 DEF TypeOK
  <2>4. \A r \in pass.todo \cup ({pass.rule} \ {Nobody}) : r \in active
    BY <2>2
  <2>5. pass.at \notin {"decided", "storing"}
    BY <2>2
  <2> HIDE DEF pass
  <2> QED
    BY <2>1, <2>3, <2>4, <2>5, PassesHandler
<1>7. ASSUME NEW e \in Evaluators, NEW r \in Rules, Evaluate(e, r) PROVE PassesInv'
  <2> DEFINE verdict == Verdict(signal[r].outcome, evaluators[e].last[r], evaluators[e].began)
             key     == IF verdict = "TRIGGERED" THEN signal[r].key ELSE 1
             last    == [evaluators[e].last EXCEPT ![r] = Never]
             todo    == evaluators[e].todo \ {r}
             pass    == [evaluators[e] EXCEPT !.at = "decided", !.todo = todo, !.last = last,
                                              !.rule = r, !.verdict = verdict, !.key = key]
  <2>4. evaluators' = [evaluators EXCEPT ![e] = pass]
    BY <1>7 DEF Evaluate, Move
  <2>5. evaluators[e] \in Pass
    BY DEF TypeOK, Pass
  <2> HIDE DEF verdict, key, last
  <2>1. pass.began = evaluators[e].began /\ pass.todo = todo /\ pass.rule = r
    BY <2>5 DEF Pass
  <2> HIDE DEF pass
  <2>2. UNCHANGED <<now, active, stopped>> /\ evaluators[e].at = "evaluating" /\ r \in evaluators[e].todo
    BY <1>7 DEF Evaluate, choices
  <2>3. pass.began <= now /\ \A q \in pass.todo \cup ({pass.rule} \ {Nobody}) :
          q \in active \/ pass.began <= stopped[q]
    BY <2>1, <2>2 DEF PassesInv
  <2> QED
    BY <2>1, <2>2, <2>3, <2>4, PassesHandler
<1>8. ASSUME NEW e \in Evaluators, Record(e) \/ CommitTrigger(e) PROVE PassesInv'
  <2> DEFINE pass == [Idle EXCEPT !.at = "evaluating", !.began = evaluators[e].began,
                                  !.todo = evaluators[e].todo, !.last = evaluators[e].last]
  <2>1. evaluators' = [evaluators EXCEPT ![e] = pass] /\ UNCHANGED <<now, active, stopped>>
    BY <1>8 DEF Record, CommitTrigger, NextRule, Move, choices
  <2>2. /\ pass.at = "evaluating" /\ pass.began = evaluators[e].began
        /\ pass.todo = evaluators[e].todo /\ pass.rule = Nobody
    BY DEF Idle
  <2>3. evaluators[e].at # "idle"
    BY <1>8 DEF Record, CommitTrigger
  <2> HIDE DEF pass
  <2> QED
    BY <2>1, <2>2, <2>3, PassesHandler DEF PassesInv
<1>9. ASSUME NEW e \in Evaluators, BeginTrigger(e) PROVE PassesInv'
  <2> DEFINE to   == Attached[evaluators[e].rule] \ disabled
             pass == [evaluators[e] EXCEPT !.at = "storing", !.to = to]
  <2>3. evaluators' = [evaluators EXCEPT ![e] = pass]
    BY <1>9 DEF BeginTrigger, Move
  <2>4. evaluators[e] \in Pass
    BY DEF TypeOK, Pass
  <2> HIDE DEF to
  <2>1. /\ pass.began = evaluators[e].began /\ pass.todo = evaluators[e].todo
        /\ pass.rule = evaluators[e].rule
    BY <2>4 DEF Pass
  <2> HIDE DEF pass
  <2>2. UNCHANGED <<now, active, stopped>> /\ evaluators[e].at = "decided"
    BY <1>9 DEF BeginTrigger, choices
  <2> QED
    BY <2>1, <2>2, <2>3, PassesHandler DEF PassesInv
<1>10. ASSUME NEW e \in Evaluators, AbortTrigger(e) \/ EndPass(e) \/ Crash(e) PROVE PassesInv'
  <2>1. evaluators' = [evaluators EXCEPT ![e] = Idle] /\ UNCHANGED <<now, active, stopped>>
    BY <1>10 DEF AbortTrigger, EndPass, Crash, Move, choices
  <2>2. Idle.at = "idle"
    BY DEF Idle
  <2> QED
    BY <2>1, <2>2, PassesHandler
<1>11. CASE UNCHANGED vars
  BY <1>11 DEF PassesInv, vars, choices
<1> QED
  BY <1>1, <1>2, <1>3, <1>4, <1>5, <1>6, <1>7, <1>8, <1>9, <1>10, <1>11 DEF Next, Step

-----------------------------------------------------------------------------
(* The theorems.                                                           *)

THEOREM Inductive == Spec => []IndInv
<1>1. IndInv /\ [Next]_vars => IndInv'
  BY TypeStep, OneEventStep, PassesStep DEF IndInv
<1> QED
  BY <1>1, InitIndInv, PTL DEF Spec

(* The variables of the evaluation have their types.                       *)
THEOREM TypeCorrect == Spec => []TypeOK
<1>1. IndInv => TypeOK
  BY DEF IndInv
<1> QED
  BY <1>1, Inductive, PTL

(* However many evaluators run and crash, no observation has two events of *)
(* a rule.                                                                 *)
THEOREM ObservationsTriggerOnce == Spec => []OneEventPerObservation
<1>1. IndInv => OneEventPerObservation
  BY DEF IndInv
<1> QED
  BY <1>1, Inductive, PTL

(* A stopped rule triggers only in passes that began before it was stopped.*)
THEOREM StoppedRulesTriggerLate == Spec => StoppedRuleIsQuiet
<1>1. ASSUME IndInv, [Next]_vars, NEW ev \in events' \ events, ev.rule \notin active
      PROVE  ev.at <= stopped[ev.rule]
  <2>1. PICK e \in Evaluators :
          /\ evaluators[e].at = "storing"
          /\ evaluators[e].rule \in Rules /\ evaluators[e].key \in Keys
          /\ evaluators[e].began \in Times
          /\ events' = events \cup
               {StoredEvent(evaluators[e].rule, evaluators[e].key, evaluators[e].began)}
    BY <1>1, EventsStep DEF IndInv
  <2>2. ev = StoredEvent(evaluators[e].rule, evaluators[e].key, evaluators[e].began)
    BY <1>1, <2>1
  <2>3. ev.rule = evaluators[e].rule /\ ev.at = evaluators[e].began
    BY <1>1, <2>1, <2>2, StoredEventFacts DEF IndInv, TypeOK
  <2> QED
    BY <1>1, <2>1, <2>3, AlertConstants DEF IndInv, PassesInv
<1>2. IndInv /\ [Next]_vars =>
        [\A ev \in events' \ events : ev.rule \notin active => ev.at <= stopped[ev.rule]]_vars
  BY <1>1
<1> QED
  BY <1>2, Inductive, PTL DEF Spec, StoppedRuleIsQuiet

-----------------------------------------------------------------------------
(* Deliveries.                                                             *)

(* A trigger that is being stored names every destination of its rule that *)
(* was never disabled.                                                     *)
StoringInv ==
  \A e \in Evaluators : evaluators[e].at = "storing" =>
    Attached[evaluators[e].rule] \ withheld \subseteq evaluators[e].to

DeliveredInv == StoringInv /\ TriggeredIsDelivered

(* What the evaluator that moves must keep, as no handler but a commit     *)
(* touches the outbox.                                                     *)
LEMMA StoringHandler ==
  ASSUME TypeOK, StoringInv, NEW e \in Evaluators, NEW pass,
         evaluators' = [evaluators EXCEPT ![e] = pass], UNCHANGED withheld,
         pass.at = "storing" => Attached[pass.rule] \ withheld \subseteq pass.to
  PROVE  StoringInv'
<1> SUFFICES ASSUME NEW f \in Evaluators, evaluators'[f].at = "storing"
             PROVE  Attached[evaluators'[f].rule] \ withheld' \subseteq evaluators'[f].to
  BY DEF StoringInv
<1>1. CASE f = e
  <2>1. evaluators'[f] = pass
    BY <1>1 DEF TypeOK
  <2> QED
    BY <2>1
<1>2. CASE f # e
  <2>1. evaluators'[f] = evaluators[f]
    BY <1>2 DEF TypeOK
  <2> QED
    BY <2>1 DEF StoringInv
<1> QED
  BY <1>1, <1>2

LEMMA StoringStep ==
  ASSUME TypeOK, StoringInv, [Next]_vars
  PROVE  StoringInv'
<1>1. CASE UNCHANGED <<evaluators, withheld>>
  BY <1>1 DEF StoringInv
<1>2. ASSUME NEW x \in Destinations, DisableDestination(x) PROVE StoringInv'
  BY <1>2 DEF StoringInv, DisableDestination
<1>3. ASSUME NEW e \in Evaluators, Load(e) \/ Record(e) \/ CommitTrigger(e) PROVE StoringInv'
  <2> DEFINE first == [Idle EXCEPT !.at = "evaluating", !.began = now, !.todo = active,
                                   !.last = lastTriggered]
             next  == [Idle EXCEPT !.at = "evaluating", !.began = evaluators[e].began,
                                   !.todo = evaluators[e].todo, !.last = evaluators[e].last]
  <2>1. UNCHANGED withheld
    BY <1>3 DEF Load, Record, CommitTrigger, choices
  <2>2. \/ evaluators' = [evaluators EXCEPT ![e] = first]
        \/ evaluators' = [evaluators EXCEPT ![e] = next]
    BY <1>3 DEF Load, Record, CommitTrigger, NextRule, Move
  <2>3. first.at = "evaluating" /\ next.at = "evaluating"
    BY DEF Idle
  <2> HIDE DEF first, next
  <2> QED
    BY <2>1, <2>2, <2>3, StoringHandler
<1>4. ASSUME NEW e \in Evaluators, NEW r \in Rules, Evaluate(e, r) PROVE StoringInv'
  <2> DEFINE verdict == Verdict(signal[r].outcome, evaluators[e].last[r], evaluators[e].began)
             key     == IF verdict = "TRIGGERED" THEN signal[r].key ELSE 1
             last    == [evaluators[e].last EXCEPT ![r] = Never]
             todo    == evaluators[e].todo \ {r}
             pass    == [evaluators[e] EXCEPT !.at = "decided", !.todo = todo, !.last = last,
                                              !.rule = r, !.verdict = verdict, !.key = key]
  <2>1. evaluators' = [evaluators EXCEPT ![e] = pass]
    BY <1>4 DEF Evaluate, Move
  <2>2. evaluators[e] \in Pass
    BY DEF TypeOK, Pass
  <2> HIDE DEF verdict, key, last, todo
  <2>3. pass.at = "decided"
    BY <2>2 DEF Pass
  <2>4. UNCHANGED withheld
    BY <1>4 DEF Evaluate, choices
  <2> HIDE DEF pass
  <2> QED
    BY <2>1, <2>3, <2>4, StoringHandler
<1>5. ASSUME NEW e \in Evaluators, BeginTrigger(e) PROVE StoringInv'
  <2> DEFINE to   == Attached[evaluators[e].rule] \ disabled
             pass == [evaluators[e] EXCEPT !.at = "storing", !.to = to]
  <2>1. evaluators' = [evaluators EXCEPT ![e] = pass] /\ UNCHANGED withheld
    BY <1>5 DEF BeginTrigger, Move, choices
  <2>2. evaluators[e] \in Pass
    BY DEF TypeOK, Pass
  <2>3. Attached[evaluators[e].rule] \ withheld \subseteq to
    BY DEF TypeOK
  <2> HIDE DEF to
  <2>4. pass.rule = evaluators[e].rule /\ pass.to = to
    BY <2>2 DEF Pass
  <2> HIDE DEF pass
  <2> QED
    BY <2>1, <2>3, <2>4, StoringHandler
<1>6. ASSUME NEW e \in Evaluators, AbortTrigger(e) \/ EndPass(e) \/ Crash(e) PROVE StoringInv'
  <2>1. evaluators' = [evaluators EXCEPT ![e] = Idle] /\ UNCHANGED withheld
    BY <1>6 DEF AbortTrigger, EndPass, Crash, Move, choices
  <2>2. Idle.at = "idle"
    BY DEF Idle
  <2> QED
    BY <2>1, <2>2, StoringHandler
<1> QED
  BY <1>1, <1>2, <1>3, <1>4, <1>5, <1>6
     DEF Next, Step, vars, choices, Tick, Observe, Resume, Pause, Delete, EnableDestination

(* A rule's state changes only with its event and the event's deliveries;  *)
(* nothing is taken out of the outbox.                                     *)
LEMMA TriggeredStep ==
  ASSUME TypeOK, PassesInv, DeliveredInv, [Next]_vars
  PROVE  TriggeredIsDelivered'
<1> USE AlertConstants
<1>1. ASSUME NEW e \in Evaluators, CommitTrigger(e) PROVE TriggeredIsDelivered'
  <2> DEFINE rule  == evaluators[e].rule
             key   == evaluators[e].key
             event == StoredEvent(rule, key, evaluators[e].began)
  <2>1. evaluators[e].at = "storing"
    BY <1>1 DEF CommitTrigger
  <2>2. rule \in Rules /\ key \in Keys /\ evaluators[e].began \in Times
    BY <2>1 DEF PassesInv, TypeOK
  <2>3. event \in Event /\ event.rule = rule /\ event.key = key
    BY <2>2, StoredEventFacts DEF TypeOK
  <2>4. /\ events' = events \cup {event}
        /\ deliveries' = deliveries \cup RowsFor(event, evaluators[e].to)
        /\ lastTriggered' = [lastTriggered EXCEPT ![rule] = event.at]
        /\ UNCHANGED withheld
    BY <1>1 DEF CommitTrigger, choices
  <2>5. Attached[rule] \ withheld \subseteq evaluators[e].to
    BY <2>1 DEF DeliveredInv, StoringInv
  <2> HIDE DEF event
  <2>6. \A x \in Attached[rule] \ withheld : [rule |-> rule, key |-> event.key, to |-> x] \in deliveries'
    BY <2>3, <2>4, <2>5 DEF RowsFor
  <2> SUFFICES ASSUME NEW r \in Rules, lastTriggered'[r] # Never
               PROVE  \E ev \in events' :
                        /\ ev.rule = r /\ ev.at = lastTriggered'[r]
                        /\ \A x \in Attached[r] \ withheld' :
                             [rule |-> r, key |-> ev.key, to |-> x] \in deliveries'
    BY DEF TriggeredIsDelivered
  <2>7. CASE r = rule
    <3>1. lastTriggered'[r] = event.at
      BY <2>4, <2>7 DEF TypeOK
    <3> QED
      BY <2>3, <2>4, <2>6, <2>7, <3>1
  <2>8. CASE r # rule
    <3>1. lastTriggered'[r] = lastTriggered[r]
      BY <2>4, <2>8 DEF TypeOK
    <3> QED
      BY <2>4, <3>1 DEF DeliveredInv, TriggeredIsDelivered
  <2> QED
    BY <2>7, <2>8
<1>2. CASE ~\E e \in Evaluators : CommitTrigger(e)
  <2>1. UNCHANGED <<events, deliveries, lastTriggered>> /\ withheld \subseteq withheld'
    BY <1>2 DEF Next, vars, outbox, ruleState, choices, Tick, Observe, Resume, Pause, Delete,
         DisableDestination, EnableDestination, Step, Load, Evaluate, Record, BeginTrigger,
         AbortTrigger, EndPass, Crash
  <2> QED
    BY <2>1 DEF DeliveredInv, TriggeredIsDelivered
<1> QED
  BY <1>1, <1>2

(* A rule that says it triggered has an event of that time, with a         *)
(* delivery for each of its destinations that was never disabled, whatever *)
(* crashes and whatever an older release has left.                         *)
THEOREM TriggersAreDelivered == Spec => []TriggeredIsDelivered
<1>1. Init => DeliveredInv
  BY AlertConstants DEF Init, Idle, DeliveredInv, StoringInv, TriggeredIsDelivered
<1>2. IndInv /\ DeliveredInv /\ [Next]_vars => DeliveredInv'
  BY StoringStep, TriggeredStep DEF IndInv, DeliveredInv
<1>3. DeliveredInv => TriggeredIsDelivered
  BY DEF DeliveredInv
<1> QED
  BY <1>1, <1>2, <1>3, Inductive, PTL DEF Spec

-----------------------------------------------------------------------------
(* The cooldown, for one evaluator at a time.                              *)

(* Events of a rule are in the order of their observations, none is of an  *)
(* observation to come, and the rule has triggered at the last of them.    *)
HistoryInv ==
  /\ \A ev \in events :
       /\ ev.key <= signal[ev.rule].key
       /\ lastTriggered[ev.rule] # Never /\ ev.at <= lastTriggered[ev.rule]
  /\ \A ev, other \in events : ev.rule = other.rule /\ ev.key <= other.key => ev.at <= other.at

(* The copies of a pass are still what is stored; a trigger that it is     *)
(* about is not cooling down, and its observation is the latest.           *)
CopyOK(pass, signals, triggered, stored) ==
  /\ \A r \in pass.todo : pass.last[r] = triggered[r]
  /\ pass.at \in {"decided", "storing"} => pass.rule \notin pass.todo
  /\ pass.at = "storing" => pass.verdict = "TRIGGERED"
  /\ pass.at \in {"decided", "storing"} /\ pass.verdict = "TRIGGERED" =>
       /\ ~CoolingDown(triggered[pass.rule], pass.began)
       /\ pass.key <= signals[pass.rule].key
       /\ \A ev \in stored : ev.rule = pass.rule => ev.key <= pass.key

CopiesInv ==
  \A e \in Evaluators : evaluators[e].at # "idle" =>
    CopyOK(evaluators[e], signal, lastTriggered, events)

CooldownInv == HistoryInv /\ CopiesInv /\ CooldownRespected

OneEvaluator == \A e, f \in Evaluators : e = f

(* A commit, whose facts the steps below share: the event it stores is of  *)
(* the latest observation, and if it is new it comes after the cooldown.   *)
LEMMA CommitFacts ==
  ASSUME TypeOK, PassesInv, CooldownInv, NEW e \in Evaluators, CommitTrigger(e)
  PROVE  LET pass == evaluators[e]
             event == StoredEvent(pass.rule, pass.key, pass.began)
         IN
         /\ pass.rule \in Rules /\ event \in Event /\ event.rule = pass.rule
         /\ pass.rule \notin pass.todo
         /\ event.key <= signal[event.rule].key
         /\ \A ev \in events : ev.rule = event.rule => ev.key <= event.key /\ ev.at <= event.at
         /\ event \notin events => \A ev \in events : ev.rule = event.rule =>
              ev.key # event.key /\ event.at - ev.at >= Cooldown
<1> DEFINE pass  == evaluators[e]
           event == StoredEvent(pass.rule, pass.key, pass.began)
<1>1. pass.at = "storing"
  BY DEF CommitTrigger
<1>2. pass.rule \in Rules /\ pass.key \in Keys /\ pass.began \in Times
  BY <1>1 DEF PassesInv, TypeOK
<1>3. /\ event \in Event /\ event.rule = pass.rule /\ event.key = pass.key
      /\ event \notin events => event.at = pass.began /\
           \A other \in events : ~(other.rule = pass.rule /\ other.key = pass.key)
  BY <1>2, StoredEventFacts DEF TypeOK
<1>4. /\ pass.rule \notin pass.todo
      /\ ~CoolingDown(lastTriggered[pass.rule], pass.began)
      /\ pass.key <= signal[pass.rule].key
      /\ \A ev \in events : ev.rule = pass.rule => ev.key <= pass.key
  BY <1>1 DEF CooldownInv, CopiesInv, CopyOK
<1>5. \A ev \in events : ev.rule = pass.rule =>
        pass.began - ev.at >= Cooldown /\ ev.at <= pass.began
  <2> SUFFICES ASSUME NEW ev \in events, ev.rule = pass.rule
               PROVE  pass.began - ev.at >= Cooldown /\ ev.at <= pass.began
    OBVIOUS
  <2> DEFINE last == lastTriggered[pass.rule]
  <2>1. last # Never /\ ev.at <= last
    BY DEF CooldownInv, HistoryInv
  <2>2. ~(pass.began - last < Cooldown)
    BY <1>4, <2>1 DEF CoolingDown
  <2>3. last \in Nat /\ ev.at \in Nat /\ pass.began \in Nat /\ Cooldown \in Nat
    BY <1>2, AlertConstants DEF TypeOK, Event
  <2> QED
    BY <2>1, <2>2, <2>3
<1> HIDE DEF event
<1>6. CASE event \in events
  BY <1>2, <1>3, <1>4, <1>6 DEF CooldownInv, HistoryInv, event
<1>7. CASE event \notin events
  BY <1>2, <1>3, <1>4, <1>5, <1>7 DEF event
<1> QED
  BY <1>6, <1>7

LEMMA HistoryStep ==
  ASSUME TypeOK, PassesInv, CooldownInv, [Next]_vars
  PROVE  HistoryInv' /\ CooldownRespected'
<1> USE AlertConstants
<1>1. ASSUME NEW e \in Evaluators, CommitTrigger(e) PROVE HistoryInv' /\ CooldownRespected'
  <2> DEFINE rule  == evaluators[e].rule
             event == StoredEvent(rule, evaluators[e].key, evaluators[e].began)
  <2>1. /\ events' = events \cup {event}
        /\ lastTriggered' = [lastTriggered EXCEPT ![rule] = event.at]
        /\ UNCHANGED signal
    BY <1>1 DEF CommitTrigger
  <2>2. /\ rule \in Rules /\ event \in Event /\ event.rule = rule
        /\ event.key <= signal[event.rule].key
        /\ \A ev \in events : ev.rule = event.rule => ev.key <= event.key /\ ev.at <= event.at
        /\ event \notin events => \A ev \in events : ev.rule = event.rule =>
             ev.key # event.key /\ event.at - ev.at >= Cooldown
    BY <1>1, CommitFacts
  <2> HIDE DEF event
  <2>3. events \subseteq Event
    BY DEF TypeOK
  <2>4. ASSUME NEW ev \in events'
        PROVE  /\ ev.key <= signal'[ev.rule].key
               /\ lastTriggered'[ev.rule] # Never /\ ev.at <= lastTriggered'[ev.rule]
    <3>1. CASE ev.rule = rule
      <4>1. lastTriggered'[ev.rule] = event.at /\ event.at \in Times
        BY <2>1, <2>2, <3>1 DEF TypeOK, Event
      <4>2. ev.at <= event.at
        BY <2>1, <2>2, <3>1, <4>1
      <4>3. ev.key <= signal[ev.rule].key
        BY <2>1, <2>2, <2>4 DEF CooldownInv, HistoryInv
      <4> QED
        BY <2>1, <4>1, <4>2, <4>3
    <3>2. CASE ev.rule # rule
      <4>1. ev \in events /\ lastTriggered'[ev.rule] = lastTriggered[ev.rule]
        BY <2>1, <2>2, <2>3, <2>4, <3>2 DEF TypeOK, Event
      <4> QED
        BY <2>1, <4>1 DEF CooldownInv, HistoryInv
    <3> QED
      BY <3>1, <3>2
  <2>5. ASSUME NEW ev \in events', NEW other \in events',
               ev.rule = other.rule, ev.key <= other.key
        PROVE  ev.at <= other.at
    <3>1. event.at \in Nat /\ event.key \in Nat /\ ev.key \in Nat /\ other.key \in Nat
      BY <2>1, <2>2, <2>3 DEF Event
    <3>2. CASE ev \in events /\ other \in events
      BY <2>5, <3>2 DEF CooldownInv, HistoryInv
    <3>3. CASE other = event
      BY <2>1, <2>2, <2>5, <3>1, <3>3
    <3>4. CASE ev = event /\ event \notin events /\ other # event
      BY <2>1, <2>2, <2>5, <3>1, <3>4
    <3> QED
      BY <2>1, <3>2, <3>3, <3>4
  <2>6. ASSUME NEW ev \in events', NEW other \in events',
               ev.rule = other.rule, ev.at <= other.at, ev # other
        PROVE  other.at - ev.at >= Cooldown
    <3>1. event.at \in Nat /\ ev.at \in Nat /\ other.at \in Nat
      BY <2>1, <2>2, <2>3 DEF Event
    <3>2. CASE ev \in events /\ other \in events
      BY <2>6, <3>2 DEF CooldownInv, CooldownRespected
    <3>3. CASE event \notin events /\ other = event
      BY <2>1, <2>2, <2>6, <3>3
    <3>4. CASE event \notin events /\ ev = event
      BY <2>1, <2>2, <2>6, <3>1, <3>4
    <3> QED
      BY <2>1, <3>2, <3>3, <3>4
  <2> QED
    BY <2>4, <2>5, <2>6 DEF HistoryInv, CooldownRespected
<1>2. ASSUME NEW r \in Rules, Observe(r) PROVE HistoryInv' /\ CooldownRespected'
  <2>1. UNCHANGED <<events, lastTriggered>>
    BY <1>2 DEF Observe, ruleState, outbox
  <2>2. PICK outcome \in Outcomes, key \in Keys :
          /\ key \in {signal[r].key, signal[r].key + 1}
          /\ signal' = [signal EXCEPT ![r] = [outcome |-> outcome, key |-> key]]
    BY <1>2 DEF Observe
  <2>3. \A q \in Rules : signal'[q].key \in Nat /\ signal[q].key \in Nat
                            /\ signal[q].key <= signal'[q].key
    BY <2>2 DEF TypeOK
  <2>4. \A ev \in events : ev.rule \in Rules /\ ev.key \in Nat
    BY DEF TypeOK, Event
  <2> QED
    BY <2>1, <2>3, <2>4 DEF CooldownInv, HistoryInv, CooldownRespected
<1>3. CASE ~(\E e \in Evaluators : CommitTrigger(e)) /\ ~(\E r \in Rules : Observe(r))
  <2>1. UNCHANGED <<events, lastTriggered, signal>>
    BY <1>3 DEF Next, vars, outbox, ruleState, choices, Tick, Resume, Pause, Delete,
         DisableDestination, EnableDestination, Step, Load, Evaluate, Record, BeginTrigger,
         AbortTrigger, EndPass, Crash
  <2> QED
    BY <2>1 DEF CooldownInv, HistoryInv, CooldownRespected
<1> QED
  BY <1>1, <1>2, <1>3

(* One evaluator moves, and there is no other.                             *)
LEMMA CopiesHandler ==
  ASSUME TypeOK, OneEvaluator, NEW e \in Evaluators, NEW pass,
         evaluators' = [evaluators EXCEPT ![e] = pass],
         pass.at # "idle" => CopyOK(pass, signal', lastTriggered', events')
  PROVE  CopiesInv'
<1>1. \A f \in Evaluators : evaluators'[f] = pass
  BY DEF TypeOK, OneEvaluator
<1> QED
  BY <1>1 DEF CopiesInv

LEMMA CopiesStep ==
  ASSUME TypeOK, PassesInv, CooldownInv, OneEvaluator, [Next]_vars
  PROVE  CopiesInv'
<1> USE AlertConstants
<1>1. CASE UNCHANGED <<signal, lastTriggered, events, evaluators>>
  BY <1>1 DEF CooldownInv, CopiesInv, CopyOK
<1>2. ASSUME NEW r \in Rules, Observe(r) PROVE CopiesInv'
  <2>1. UNCHANGED <<events, lastTriggered, evaluators>>
    BY <1>2 DEF Observe, ruleState, outbox
  <2>2. PICK outcome \in Outcomes, key \in Keys :
          /\ key \in {signal[r].key, signal[r].key + 1}
          /\ signal' = [signal EXCEPT ![r] = [outcome |-> outcome, key |-> key]]
    BY <1>2 DEF Observe
  <2>3. \A q \in Rules : signal'[q].key \in Nat /\ signal[q].key \in Nat
                            /\ signal[q].key <= signal'[q].key
    BY <2>2 DEF TypeOK
  <2> SUFFICES ASSUME NEW e \in Evaluators, evaluators[e].at # "idle" 
               PROVE  CopyOK(evaluators[e], signal', lastTriggered', events')
    BY <2>1 DEF CopiesInv
  <2>4. evaluators[e].key \in Nat
    BY DEF TypeOK
  <2>5. evaluators[e].at \in {"decided", "storing"} => evaluators[e].rule \in Rules
    BY DEF PassesInv
  <2> QED
    BY <2>1, <2>3, <2>4, <2>5 DEF CooldownInv, CopiesInv, CopyOK
<1>3. ASSUME NEW e \in Evaluators, Load(e) PROVE CopiesInv'
  <2> DEFINE pass == [Idle EXCEPT !.at = "evaluating", !.began = now, !.todo = active,
                                  !.last = lastTriggered]
  <2>1. evaluators' = [evaluators EXCEPT ![e] = pass] /\ UNCHANGED lastTriggered
    BY <1>3 DEF Load, Move, ruleState
  <2>2. pass.at = "evaluating" /\ pass.last = lastTriggered
    BY DEF Idle
  <2> HIDE DEF pass
  <2>3. CopyOK(pass, signal', lastTriggered', events')
    BY <2>1, <2>2 DEF CopyOK
  <2> QED
    BY <2>1, <2>3, CopiesHandler
<1>4. ASSUME NEW e \in Evaluators, NEW r \in Rules, Evaluate(e, r) PROVE CopiesInv'
  <2> DEFINE verdict == Verdict(signal[r].outcome, evaluators[e].last[r], evaluators[e].began)
             key     == IF verdict = "TRIGGERED" THEN signal[r].key ELSE 1
             last    == [evaluators[e].last EXCEPT ![r] = Never]
             todo    == evaluators[e].todo \ {r}
             pass    == [evaluators[e] EXCEPT !.at = "decided", !.todo = todo, !.last = last,
                                              !.rule = r, !.verdict = verdict, !.key = key]
  <2>1. evaluators' = [evaluators EXCEPT ![e] = pass]
    BY <1>4 DEF Evaluate, Move
  <2>2. /\ UNCHANGED <<signal, lastTriggered, events>>
        /\ evaluators[e].at = "evaluating" /\ r \in evaluators[e].todo
    BY <1>4 DEF Evaluate, ruleState, outbox
  <2>3. evaluators[e] \in Pass
    BY DEF TypeOK, Pass
  <2>4. \A q \in evaluators[e].todo : evaluators[e].last[q] = lastTriggered[q]
    BY <2>2 DEF CooldownInv, CopiesInv, CopyOK
  <2>5. \A q \in todo : last[q] = lastTriggered[q]
    BY <2>3, <2>4 DEF Pass
  <2>6. verdict = "TRIGGERED" => ~CoolingDown(lastTriggered[r], evaluators[e].began)
    BY <2>2, <2>4 DEF Verdict, TypeOK, Outcomes
  <2>7. verdict = "TRIGGERED" =>
          /\ key <= signal[r].key
          /\ \A ev \in events : ev.rule = r => ev.key <= key
    BY DEF CooldownInv, HistoryInv, TypeOK
  <2>10. r \notin todo
    OBVIOUS
  <2> HIDE DEF verdict, key, last, todo
  <2>8. /\ pass.at = "decided" /\ pass.todo = todo /\ pass.last = last /\ pass.rule = r
        /\ pass.verdict = verdict /\ pass.key = key /\ pass.began = evaluators[e].began
    BY <2>3 DEF Pass
  <2> HIDE DEF pass
  <2>9. CopyOK(pass, signal', lastTriggered', events')
    BY <2>2, <2>5, <2>6, <2>7, <2>8, <2>10 DEF CopyOK, CoolingDown
  <2> QED
    BY <2>1, <2>9, CopiesHandler
<1>5. ASSUME NEW e \in Evaluators, Record(e) \/ CommitTrigger(e) PROVE CopiesInv'
  <2> DEFINE pass == [Idle EXCEPT !.at = "evaluating", !.began = evaluators[e].began,
                                  !.todo = evaluators[e].todo, !.last = evaluators[e].last]
  <2>1. evaluators' = [evaluators EXCEPT ![e] = pass]
    BY <1>5 DEF Record, CommitTrigger, NextRule, Move
  <2>2. pass.at = "evaluating" /\ pass.todo = evaluators[e].todo /\ pass.last = evaluators[e].last
    BY DEF Idle
  <2>3. \A q \in evaluators[e].todo : evaluators[e].last[q] = lastTriggered[q]
    BY <1>5 DEF Record, CommitTrigger, CooldownInv, CopiesInv, CopyOK
  <2>4. \A q \in evaluators[e].todo : lastTriggered'[q] = lastTriggered[q]
    <3>1. CASE Record(e)
      BY <3>1 DEF Record
    <3>2. CASE CommitTrigger(e)
      <4>1. evaluators[e].rule \notin evaluators[e].todo
        BY <3>2, CommitFacts
      <4>2. PICK at : lastTriggered' = [lastTriggered EXCEPT ![evaluators[e].rule] = at]
        BY <3>2 DEF CommitTrigger
      <4> QED
        BY <4>1, <4>2 DEF TypeOK
    <3> QED
      BY <1>5, <3>1, <3>2
  <2> HIDE DEF pass
  <2>5. CopyOK(pass, signal', lastTriggered', events')
    BY <2>2, <2>3, <2>4 DEF CopyOK
  <2> QED
    BY <2>1, <2>5, CopiesHandler
<1>6. ASSUME NEW e \in Evaluators, BeginTrigger(e) PROVE CopiesInv'
  <2> DEFINE to   == Attached[evaluators[e].rule] \ disabled
             pass == [evaluators[e] EXCEPT !.at = "storing", !.to = to]
  <2>1. /\ evaluators' = [evaluators EXCEPT ![e] = pass]
        /\ UNCHANGED <<signal, lastTriggered, events>>
        /\ evaluators[e].at = "decided" /\ evaluators[e].verdict = "TRIGGERED"
    BY <1>6 DEF BeginTrigger, Move, ruleState, outbox
  <2>2. evaluators[e] \in Pass
    BY DEF TypeOK, Pass
  <2> HIDE DEF to
  <2>3. /\ pass.at = "storing" /\ pass.todo = evaluators[e].todo /\ pass.last = evaluators[e].last
        /\ pass.rule = evaluators[e].rule /\ pass.verdict = evaluators[e].verdict
        /\ pass.key = evaluators[e].key /\ pass.began = evaluators[e].began
    BY <2>2 DEF Pass
  <2>4. CopyOK(evaluators[e], signal, lastTriggered, events)
    BY <2>1 DEF CooldownInv, CopiesInv
  <2> HIDE DEF pass
  <2>5. CopyOK(pass, signal', lastTriggered', events')
    BY <2>1, <2>3, <2>4 DEF CopyOK, CoolingDown
  <2> QED
    BY <2>1, <2>5, CopiesHandler
<1>7. ASSUME NEW e \in Evaluators, AbortTrigger(e) \/ EndPass(e) \/ Crash(e) PROVE CopiesInv'
  <2>1. evaluators' = [evaluators EXCEPT ![e] = Idle]
    BY <1>7 DEF AbortTrigger, EndPass, Crash, Move
  <2>2. Idle.at = "idle"
    BY DEF Idle
  <2> QED
    BY <2>1, <2>2, CopiesHandler
<1> QED
  BY <1>1, <1>2, <1>3, <1>4, <1>5, <1>6, <1>7
     DEF Next, Step, vars, choices, ruleState, outbox, Tick, Resume, Pause, Delete,
         DisableDestination, EnableDestination

(* Two events of a rule are at least its cooldown apart when evaluators do *)
(* not overlap, however they crash, and no older release left events       *)
(* without the state of their rules.                                       *)
THEOREM CooldownsAreKept ==
  ASSUME OneEvaluator, Leftovers = {}
  PROVE  Spec => []CooldownRespected
<1>1. Init => CooldownInv
  BY DEF Init, Idle, CooldownInv, HistoryInv, CopiesInv, CooldownRespected
<1>2. IndInv /\ CooldownInv /\ [Next]_vars => CooldownInv'
  BY HistoryStep, CopiesStep DEF IndInv, CooldownInv
<1>3. CooldownInv => CooldownRespected
  BY DEF CooldownInv
<1> QED
  BY <1>1, <1>2, <1>3, Inductive, PTL DEF Spec
=============================================================================
