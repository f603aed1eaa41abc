---------------------- MODULE NotificationDeliveryProofs ----------------------
(***************************************************************************)
(* TLAPS proofs about the delivery of notifications, for any workers,      *)
(* deliveries and destinations.                                            *)
(*                                                                         *)
(* Nothing but the status of its row says that a delivery is in hand.  The *)
(* claim excludes others as long as no live attempt is taken for a dead    *)
(* one, which is NobodyIsSlow; and what was recorded stands as long as no  *)
(* delivery lapses, which is NothingExpires.  What is read before the      *)
(* claim stays true until then only for a worker that is alone, OneWorker. *)
(***************************************************************************)
EXTENDS NotificationDelivery, TLAPS

NobodyIsSlow   == "slow" \notin Faults
NothingExpires == "expiry" \notin Faults

WorkerRecord ==
  [at : Places, todo : SUBSET Deliveries, delivery : Deliveries \cup {Nothing},
   read : Candidate, result : Results, barred : BOOLEAN]

InHandOf(w) == workers[w].at \in {"claimed", "sent"}

WorksOnDelivery ==
  \A w \in Workers :
    /\ workers[w].at \in {"read", "claimed", "sent"} => workers[w].delivery \in Deliveries
    /\ workers[w].at = "sent" => workers[w].result # "none"

Typed == TypeOK /\ WorksOnDelivery

-----------------------------------------------------------------------------
(* Types.                                                                  *)

LEMMA IdleType == Idle \in WorkerRecord
BY DeliveryConstants DEF Idle, WorkerRecord, NoCandidate, Candidate, Places, Results

LEMMA CountType ==
  ASSUME NEW limit \in Nat, NEW n \in Nat
  PROVE  CountUpTo(limit, n) \in 0 .. limit
BY DEF CountUpTo

LEMMA CandidateRowType ==
  ASSUME attempts \in [Deliveries -> 0 .. MaxAttempts], NEW d \in Deliveries
  PROVE  CandidateRow(d) \in Candidate
BY DEF CandidateRow, Candidate

LEMMA InitTyped == Init => Typed
<1> SUFFICES ASSUME Init PROVE Typed
  OBVIOUS
<1>1. workers \in [Workers -> WorkerRecord]
  BY IdleType DEF Init
<1>2. 0 \in 0 .. MaxAttempts /\ 0 \in 0 .. DispatchBound
  BY DeliveryConstants DEF DispatchBound
<1> QED
  BY <1>1, <1>2
     DEF Init, Typed, TypeOK, WorkerRecord, WorksOnDelivery, Idle, Statuses, Claimable

(* A worker on its way, or done with a delivery.                           *)
LEMMA MovesTyped ==
  ASSUME Typed, NEW w \in Workers, NEW at \in Places, NEW todo \in SUBSET Deliveries,
         NEW old \in {workers[w], Idle}, at \notin {"read", "claimed", "sent"},
         workers' = [workers EXCEPT ![w] = [old EXCEPT !.at = at, !.todo = todo]]
  PROVE  workers' \in [Workers -> WorkerRecord] /\ WorksOnDelivery'
<1>1. workers \in [Workers -> WorkerRecord]
  BY DEF Typed, TypeOK, WorkerRecord
<1>2. old \in WorkerRecord
  BY <1>1, IdleType
<1> DEFINE new == [old EXCEPT !.at = at, !.todo = todo]
<1>3. new \in WorkerRecord /\ new.at = at
  BY <1>2 DEF WorkerRecord
<1>4. workers' = [workers EXCEPT ![w] = new]
  OBVIOUS
<1> HIDE DEF new
<1> QED
  BY <1>1, <1>3, <1>4 DEF Typed, WorksOnDelivery

LEMMA NextTyped ==
  ASSUME Typed, [Next]_vars
  PROVE  Typed'
<1> DEFINE W == workers' \in [Workers -> WorkerRecord] /\ WorksOnDelivery'
           S == status' \in [Deliveries -> Statuses] /\ backingOff' \subseteq Deliveries
                /\ overdue' \subseteq Deliveries /\ expired' \subseteq Deliveries
           A == attempts' \in [Deliveries -> 0 .. MaxAttempts]
           D == /\ disabled' \subseteq Destinations /\ verified' \subseteq Destinations
                /\ dispatched' \in [Deliveries -> 0 .. DispatchBound]
                /\ accepted' \subseteq Deliveries
<1>1. /\ status \in [Deliveries -> Statuses] /\ backingOff \subseteq Deliveries
      /\ overdue \subseteq Deliveries /\ expired \subseteq Deliveries
      /\ attempts \in [Deliveries -> 0 .. MaxAttempts]
      /\ disabled \subseteq Destinations /\ verified \subseteq Destinations
      /\ workers \in [Workers -> WorkerRecord]
      /\ dispatched \in [Deliveries -> 0 .. DispatchBound]
      /\ accepted \subseteq Deliveries /\ WorksOnDelivery
  BY DEF Typed, TypeOK, WorkerRecord
<1>2. W /\ S /\ A /\ D => Typed'
  BY DEF Typed, TypeOK, WorkerRecord
<1> USE DEF Statuses, Claimable, Settled
<1>3. UNCHANGED workers => W
  BY <1>1 DEF WorksOnDelivery
<1>4. ASSUME NEW d \in Deliveries, AttemptGrowsOld(d) \/ BackoffElapsed(d) \/ Expire(d)
      PROVE  W /\ S /\ A /\ D
  BY <1>1, <1>3, <1>4 DEF AttemptGrowsOld, BackoffElapsed, Expire, rows, users, seen
<1>5. ASSUME NEW x \in Destinations, Disable(x) \/ Enable(x)
      PROVE  W /\ S /\ A /\ D
  BY <1>1, <1>3, <1>5 DEF Disable, Enable, rows, users, seen
<1>6. ASSUME NEW w \in Workers, Release(w) PROVE W
  <2>1. workers' = [workers EXCEPT ![w] = [Idle EXCEPT !.at = "delivering", !.todo = workers[w].todo]]
    BY <1>6 DEF Release
  <2>2. workers[w].todo \in SUBSET Deliveries /\ "delivering" \in Places
    BY <1>1 DEF WorkerRecord, Places
  <2> QED  BY <2>1, <2>2, MovesTyped
<1>7. ASSUME NEW w \in Workers, Reclaim(w) PROVE W /\ S /\ A /\ D
  <2>1. workers' = [workers EXCEPT ![w] = [workers[w] EXCEPT !.at = "expiring",
                                                            !.todo = workers[w].todo]]
    BY <1>1, <1>7 DEF Reclaim, WorkerRecord
  <2>2. workers[w].todo \in SUBSET Deliveries /\ "expiring" \in Places
    BY <1>1 DEF WorkerRecord, Places
  <2>3. W
    BY <2>1, <2>2, MovesTyped
  <2>4. S
    BY <1>1, <1>7 DEF Reclaim
  <2> QED  BY <1>1, <1>7, <2>3, <2>4 DEF Reclaim, users, seen
<1>8. ASSUME NEW w \in Workers, CancelExpired(w) PROVE W /\ S /\ A /\ D
  <2>1. workers' = [workers EXCEPT ![w] = [workers[w] EXCEPT !.at = "selecting",
                                                            !.todo = workers[w].todo]]
    BY <1>1, <1>8 DEF CancelExpired, WorkerRecord
  <2>2. workers[w].todo \in SUBSET Deliveries /\ "selecting" \in Places
    BY <1>1 DEF WorkerRecord, Places
  <2>3. W
    BY <2>1, <2>2, MovesTyped
  <2> QED  BY <1>1, <1>8, <2>3 DEF CancelExpired, users, seen
<1>9. ASSUME NEW w \in Workers, SelectDue(w) PROVE W /\ S /\ A /\ D
  <2>1. PICK due \in SUBSET Deliveries :
          workers' = [workers EXCEPT ![w] = [workers[w] EXCEPT !.at = "delivering", !.todo = due]]
    BY <1>9 DEF SelectDue
  <2>2. "delivering" \in Places
    BY DEF Places
  <2>3. W
    BY <2>1, <2>2, MovesTyped
  <2> QED  BY <1>1, <1>9, <2>3 DEF SelectDue, rows, users, seen
<1>10. ASSUME NEW w \in Workers, EndPass(w) \/ Crash(w) PROVE W /\ S /\ A /\ D
  <2>1. workers' = [workers EXCEPT ![w] = Idle]
    BY <1>10 DEF EndPass, Crash
  <2>2. Idle.at = "idle"
    BY DEF Idle
  <2>3. W
    BY <1>1, <2>1, <2>2, IdleType DEF WorksOnDelivery
  <2> QED  BY <1>1, <1>10, <2>3 DEF EndPass, Crash, rows, users, seen
<1>11. ASSUME NEW w \in Workers, Read(w) PROVE W /\ S /\ A /\ D
  <2>1. PICK d \in Deliveries : workers' = [workers EXCEPT ![w] =
          IF status[d] \in Claimable
          THEN [workers[w] EXCEPT !.at = "read", !.todo = @ \ {d}, !.delivery = d,
                                  !.read = CandidateRow(d)]
          ELSE [workers[w] EXCEPT !.todo = @ \ {d}]]
    BY <1>1, <1>11 DEF Read, WorkerRecord
  <2>2. CandidateRow(d) \in Candidate
    BY <1>1, CandidateRowType
  <2> DEFINE new  == [workers[w] EXCEPT !.at = "read", !.todo = @ \ {d}, !.delivery = d,
                                        !.read = CandidateRow(d)]
             kept == [workers[w] EXCEPT !.todo = @ \ {d}]
  <2>3. new \in WorkerRecord /\ new.at = "read" /\ new.delivery = d
    BY <1>1, <2>2 DEF WorkerRecord, Places
  <2>4. kept \in WorkerRecord /\ kept.at = "delivering"
    BY <1>1, <1>11 DEF Read, WorkerRecord
  <2>5. CASE status[d] \in Claimable
    <3>1. workers' = [workers EXCEPT ![w] = new]
      BY <2>1, <2>5
    <3> HIDE DEF new
    <3> QED  BY <1>1, <1>11, <2>3, <3>1 DEF WorksOnDelivery, Read, rows, users, seen
  <2>6. CASE status[d] \notin Claimable
    <3>1. workers' = [workers EXCEPT ![w] = kept]
      BY <2>1, <2>6
    <3> HIDE DEF kept
    <3> QED  BY <1>1, <1>11, <2>4, <3>1 DEF WorksOnDelivery, Read, rows, users, seen
  <2> QED  BY <2>5, <2>6
<1>12. ASSUME NEW w \in Workers, Lapse(w) PROVE W /\ S /\ A /\ D
  BY <1>1, <1>6, <1>12 DEF Lapse, users, seen
<1>13. ASSUME NEW w \in Workers, Claim(w) PROVE W /\ S /\ A /\ D
  <2> DEFINE barred == Target[workers[w].delivery] \in disabled
  <2>1. barred \in BOOLEAN
    OBVIOUS
  <2>2. workers' = [workers EXCEPT ![w] = [workers[w] EXCEPT !.at = "claimed", !.barred = barred]]
    BY <1>13 DEF Claim
  <2> HIDE DEF barred
  <2>3. workers' \in [Workers -> WorkerRecord]
    BY <1>1, <2>1, <2>2 DEF WorkerRecord, Places
  <2>4. workers[w].delivery \in Deliveries
    BY <1>1, <1>13 DEF Claim, WorksOnDelivery
  <2>5. /\ \A v \in Workers : v # w => workers'[v] = workers[v]
        /\ workers'[w].delivery = workers[w].delivery /\ workers'[w].at = "claimed"
    BY <1>1, <1>13 DEF Claim, WorkerRecord
  <2>6. W
    BY <1>1, <2>3, <2>4, <2>5 DEF WorksOnDelivery
  <2>7. workers[w].read.attempts + 1 \in Nat /\ MaxAttempts \in Nat
    BY <1>1, DeliveryConstants DEF WorkerRecord, Candidate
  <2>8. CountUpTo(MaxAttempts, workers[w].read.attempts + 1) \in 0 .. MaxAttempts
    BY <2>7, CountType
  <2>9. A
    BY <1>1, <1>13, <2>8 DEF Claim
  <2> QED  BY <1>1, <1>13, <2>6, <2>9 DEF Claim, users, seen
<1>14. ASSUME NEW w \in Workers, ClaimFails(w) PROVE W /\ S /\ A /\ D
  BY <1>1, <1>6, <1>14 DEF ClaimFails, rows, users, seen
<1>15. ASSUME NEW w \in Workers, Refuse(w) PROVE W /\ S /\ A /\ D
  BY <1>1, <1>6, <1>15 DEF Refuse, users, seen
<1>16. ASSUME NEW w \in Workers, Dispatch(w) PROVE W /\ S /\ A /\ D
  <2>1. PICK result \in Results \ {"none"} :
          /\ workers' = [workers EXCEPT ![w] = [@ EXCEPT !.at = "sent", !.result = result]]
          /\ accepted' = accepted \cup {workers[w].delivery} \/ accepted' = accepted
    BY <1>16 DEF Dispatch
  <2> DEFINE new == [workers[w] EXCEPT !.at = "sent", !.result = result]
  <2>2. workers[w].delivery \in Deliveries
    BY <1>1, <1>16 DEF Dispatch, WorksOnDelivery
  <2>3. new \in WorkerRecord /\ new.delivery = workers[w].delivery /\ new.result # "none"
    BY <1>1 DEF WorkerRecord, Places
  <2>4. workers' = [workers EXCEPT ![w] = new]
    BY <2>1
  <2> HIDE DEF new
  <2>5. W
    BY <1>1, <2>2, <2>3, <2>4 DEF WorksOnDelivery
  <2>6. dispatched[workers[w].delivery] + 1 \in Nat /\ DispatchBound \in Nat
    BY <1>1, <2>2, DeliveryConstants DEF DispatchBound
  <2>7. CountUpTo(DispatchBound, dispatched[workers[w].delivery] + 1) \in 0 .. DispatchBound
    BY <2>6, CountType
  <2>8. dispatched' \in [Deliveries -> 0 .. DispatchBound]
    BY <1>1, <1>16, <2>7 DEF Dispatch
  <2> QED  BY <1>1, <1>16, <2>1, <2>2, <2>5, <2>8 DEF Dispatch, rows, users
<1>17. ASSUME NEW w \in Workers, RecordResult(w) PROVE W /\ S /\ A /\ D
  <2>1. workers[w].delivery \in Deliveries /\ Target[workers[w].delivery] \in Destinations
    BY <1>1, <1>17, DeliveryConstants DEF RecordResult, WorksOnDelivery
  <2> DEFINE outcome == OutcomeOf(workers[w].result, workers[w].read.attempts + 1)
  <2>2. workers[w].result \in Results
    BY <1>1 DEF WorkerRecord
  <2>3. status' = [status EXCEPT ![workers[w].delivery] = outcome] /\ workers[w].at = "sent"
    BY <1>17 DEF RecordResult
  <2>4. outcome \in Statuses
    BY <1>1, <2>2, <2>3 DEF OutcomeOf, Results, WorksOnDelivery
  <2> HIDE DEF outcome
  <2>5. S
    BY <1>1, <1>17, <2>1, <2>3, <2>4 DEF RecordResult
  <2> QED  BY <1>1, <1>6, <1>17, <2>1, <2>5 DEF RecordResult, seen
<1>18. CASE UNCHANGED vars
  BY <1>1, <1>2, <1>3, <1>18 DEF vars, rows, users, seen
<1> QED
  BY <1>2, <1>4, <1>5, <1>7, <1>8, <1>9, <1>10, <1>11, <1>12, <1>13, <1>14, <1>15, <1>16, <1>17,
     <1>18 DEF Next, Deliver

-----------------------------------------------------------------------------
(* Nobody can claim what is in hand, or free it.                           *)
HandsOff ==
  \A w \in Workers : InHandOf(w) =>
    /\ status[workers[w].delivery] \notin Claimable
    /\ workers[w].delivery \notin overdue \/ status[workers[w].delivery] # "ATTEMPTING"

AloneInv == Typed /\ HandsOff /\ OneAttemptAtATime

(* A step in which no delivery comes into somebody's hand.                 *)
LEMMA NothingTaken ==
  ASSUME AloneInv, Typed',
         \A w \in Workers : InHandOf(w)' =>
           InHandOf(w) /\ workers'[w].delivery = workers[w].delivery,
         \A w \in Workers : InHandOf(w)' =>
           /\ status'[workers[w].delivery] \notin Claimable
           /\ workers[w].delivery \notin overdue' \/ status'[workers[w].delivery] # "ATTEMPTING"
  PROVE  AloneInv'
<1>1. HandsOff'
  BY DEF HandsOff
<1>2. OneAttemptAtATime'
  BY DEF AloneInv, OneAttemptAtATime, InHandOf
<1> QED  BY <1>1, <1>2 DEF AloneInv

LEMMA InitAloneInv == Init => AloneInv
<1> SUFFICES ASSUME Init PROVE AloneInv
  OBVIOUS
<1>1. \A w \in Workers : workers[w].at = "idle"
  BY DEF Init, Idle
<1> QED
  BY <1>1, InitTyped DEF AloneInv, HandsOff, OneAttemptAtATime, InHandOf

LEMMA NextAloneInv ==
  ASSUME NobodyIsSlow, AloneInv, [Next]_vars
  PROVE  AloneInv'
<1>1. /\ Typed /\ HandsOff /\ OneAttemptAtATime
      /\ status \in [Deliveries -> Statuses] /\ workers \in [Workers -> WorkerRecord]
      /\ \A w \in Workers : InHandOf(w) => workers[w].delivery \in Deliveries
  BY DEF AloneInv, Typed, TypeOK, WorkerRecord, WorksOnDelivery, InHandOf
<1>2. Typed'
  BY <1>1, NextTyped
<1> DEFINE Same(w) == InHandOf(w)' => InHandOf(w) /\ workers'[w].delivery = workers[w].delivery
           Safe(w) == InHandOf(w)' =>
             /\ status'[workers[w].delivery] \notin Claimable
             /\ workers[w].delivery \notin overdue' \/ status'[workers[w].delivery] # "ATTEMPTING"
<1>3. (\A w \in Workers : Same(w) /\ Safe(w)) => AloneInv'
  BY <1>2, NothingTaken
<1>4. workers' = workers => \A w \in Workers : Same(w)
  BY DEF InHandOf
<1>5. ASSUME NEW w \in Workers, NEW new \in WorkerRecord,
             workers' = [workers EXCEPT ![w] = new], new.at \notin {"claimed", "sent"}
      PROVE  /\ \A v \in Workers : Same(v)
             /\ ~InHandOf(w)' /\ \A v \in Workers \ {w} : workers'[v] = workers[v]
  BY <1>1, <1>5 DEF InHandOf
<1>6. ASSUME NEW d \in Deliveries, AttemptGrowsOld(d) \/ BackoffElapsed(d) \/ Expire(d)
      PROVE  AloneInv'
  <2>1. workers' = workers /\ status' = status
    BY <1>6 DEF AttemptGrowsOld, BackoffElapsed, Expire, rows
  <2>2. overdue' = overdue \/ (overdue' = overdue \cup {d} /\ ~InHand(d))
    BY <1>6 DEF AttemptGrowsOld, BackoffElapsed, Expire, rows, NobodyIsSlow
  <2>3. \A w \in Workers : Safe(w)
    BY <1>1, <2>1, <2>2 DEF HandsOff, InHandOf, InHand
  <2> QED  BY <1>3, <1>4, <2>1, <2>3
<1>7. ASSUME NEW x \in Destinations, Disable(x) \/ Enable(x) PROVE AloneInv'
  <2>1. workers' = workers /\ overdue' = overdue
    BY <1>7 DEF Disable, Enable, rows
  <2>2. \A d \in Deliveries : status'[d] = status[d] \/ status'[d] = "CANCELLED"
    BY <1>1, <1>7 DEF Disable, Enable, rows
  <2>3. \A w \in Workers : Safe(w)
    BY <1>1, <2>1, <2>2 DEF HandsOff, InHandOf, Claimable
  <2> QED  BY <1>3, <1>4, <2>1, <2>3
<1>8. ASSUME NEW w \in Workers, Reclaim(w) PROVE AloneInv'
  <2> DEFINE new == [workers[w] EXCEPT !.at = "expiring"]
  <2>1. new \in WorkerRecord /\ new.at = "expiring" /\ workers' = [workers EXCEPT ![w] = new]
    BY <1>1, <1>8 DEF Reclaim, WorkerRecord, Places
  <2> HIDE DEF new
  <2>2. overdue' = {} /\ \A d \in Deliveries :
          status'[d] = status[d] \/ (status[d] = "ATTEMPTING" /\ d \in overdue)
    BY <1>1, <1>8 DEF Reclaim
  <2>3. \A v \in Workers : Same(v)
    BY <1>5, <2>1
  <2>4. \A v \in Workers : Safe(v)
    BY <1>1, <2>2, <2>3 DEF HandsOff
  <2> QED  BY <1>3, <2>3, <2>4
<1>9. ASSUME NEW w \in Workers, CancelExpired(w) PROVE AloneInv'
  <2> DEFINE new == [workers[w] EXCEPT !.at = "selecting"]
  <2>1. new \in WorkerRecord /\ new.at = "selecting" /\ workers' = [workers EXCEPT ![w] = new]
    BY <1>1, <1>9 DEF CancelExpired, WorkerRecord, Places
  <2> HIDE DEF new
  <2>2. overdue' = overdue /\ \A d \in Deliveries : status'[d] = status[d] \/ status[d] \in Claimable
    BY <1>1, <1>9 DEF CancelExpired
  <2>3. \A v \in Workers : Same(v)
    BY <1>5, <2>1
  <2>4. \A v \in Workers : Safe(v)
    BY <1>1, <2>2, <2>3 DEF HandsOff
  <2> QED  BY <1>3, <2>3, <2>4
<1>10. ASSUME NEW w \in Workers, NEW new \in WorkerRecord,
              workers' = [workers EXCEPT ![w] = new], new.at \notin {"claimed", "sent"},
              status' = status, overdue' = overdue
       PROVE  AloneInv'
  <2>1. \A v \in Workers : Same(v)
    BY <1>5, <1>10
  <2>2. \A v \in Workers : Safe(v)
    BY <1>1, <1>10, <2>1 DEF HandsOff
  <2> QED  BY <1>3, <2>1, <2>2
<1>11. ASSUME NEW w \in Workers, EndPass(w) \/ Crash(w) PROVE AloneInv'
  <2>1. Idle.at = "idle" /\ Idle \in WorkerRecord
    BY IdleType DEF Idle
  <2> QED  BY <1>10, <1>11, <2>1 DEF EndPass, Crash, rows
<1>12. ASSUME NEW w \in Workers, SelectDue(w) PROVE AloneInv'
  <2> DEFINE due == {d \in Deliveries : status[d] \in Claimable /\ d \notin expired \cup backingOff}
             new == [workers[w] EXCEPT !.at = "delivering", !.todo = due]
  <2>1. new \in WorkerRecord /\ new.at = "delivering" /\ workers' = [workers EXCEPT ![w] = new]
    BY <1>1, <1>12 DEF SelectDue, WorkerRecord, Places
  <2> HIDE DEF new
  <2> QED  BY <1>10, <1>12, <2>1 DEF SelectDue, rows
<1>13. ASSUME NEW w \in Workers, Release(w)
       PROVE  \E new \in WorkerRecord :
                new.at \notin {"claimed", "sent"} /\ workers' = [workers EXCEPT ![w] = new]
  <2> DEFINE new == [Idle EXCEPT !.at = "delivering", !.todo = workers[w].todo]
  <2>1. new \in WorkerRecord /\ new.at = "delivering"
    BY <1>1, IdleType DEF WorkerRecord, Places
  <2>2. workers' = [workers EXCEPT ![w] = new]
    BY <1>13 DEF Release
  <2> HIDE DEF new
  <2> QED  BY <2>1, <2>2
<1>14. ASSUME NEW w \in Workers, ClaimFails(w) PROVE AloneInv'
  BY <1>10, <1>13, <1>14 DEF ClaimFails, rows
<1>15. ASSUME NEW w \in Workers, Read(w) PROVE AloneInv'
  <2>1. \A v \in Workers : v # w => workers'[v] = workers[v]
    BY <1>1, <1>15 DEF Read
  <2>2. workers'[w].at \in {"read", "delivering"}
    BY <1>1, <1>15 DEF Read, WorkerRecord
  <2>3. status' = status /\ overdue' = overdue
    BY <1>15 DEF Read, rows
  <2>4. \A v \in Workers : Same(v)
    BY <2>1, <2>2 DEF InHandOf
  <2>5. \A v \in Workers : Safe(v)
    BY <1>1, <2>3, <2>4 DEF HandsOff
  <2> QED  BY <1>3, <2>4, <2>5
<1>16. ASSUME NEW w \in Workers, Lapse(w) \/ Refuse(w) PROVE AloneInv'
  <2>1. Release(w) /\ overdue' = overdue
    BY <1>16 DEF Lapse, Refuse
  <2>2. PICK outcome \in {"CANCELLED", "SUPPRESSED", "PERMANENT_FAILURE"} :
          status' = [status EXCEPT ![workers[w].delivery] = outcome]
    BY <1>16 DEF Lapse, Refuse
  <2>3. \A v \in Workers : Same(v)
    BY <1>5, <1>13, <2>1
  <2>4. \A d \in Deliveries : status'[d] = status[d] \/ status'[d] = outcome
    BY <1>1, <2>2
  <2>5. \A v \in Workers : Safe(v)
    BY <1>1, <2>1, <2>3, <2>4 DEF HandsOff, Claimable
  <2> QED  BY <1>3, <2>3, <2>5
<1>17. ASSUME NEW w \in Workers, Claim(w) PROVE AloneInv'
  <2> DEFINE d == workers[w].delivery
  <2>1. d \in Deliveries /\ status[d] \in Claimable
    BY <1>1, <1>17 DEF Claim, Typed, WorksOnDelivery
  <2>2. /\ \A v \in Workers : v # w => workers'[v] = workers[v]
        /\ workers'[w].delivery = d
    BY <1>1, <1>17 DEF Claim, WorkerRecord
  <2>3. \A v \in Workers : InHandOf(v) => workers[v].delivery # d
    BY <1>1, <2>1 DEF HandsOff
  <2>4. /\ status'[d] = "ATTEMPTING" /\ d \notin overdue'
        /\ \A e \in Deliveries : e # d => status'[e] = status[e]
        /\ overdue' \subseteq overdue
    BY <1>1, <1>17, <2>1 DEF Claim
  <2>5. HandsOff'
    <3> SUFFICES ASSUME NEW v \in Workers, InHandOf(v)'
                 PROVE  /\ status'[workers'[v].delivery] \notin Claimable
                        /\ \/ workers'[v].delivery \notin overdue'
                           \/ status'[workers'[v].delivery] # "ATTEMPTING"
      BY DEF HandsOff
    <3>1. CASE v = w
      BY <2>2, <2>4, <3>1 DEF Claimable
    <3>2. CASE v # w
      <4>1. InHandOf(v) /\ workers'[v].delivery = workers[v].delivery
        BY <2>2, <3>2 DEF InHandOf
      <4> QED  BY <1>1, <2>3, <2>4, <4>1 DEF HandsOff
    <3> QED  BY <3>1, <3>2
  <2>6. OneAttemptAtATime'
    BY <1>1, <2>2, <2>3 DEF OneAttemptAtATime, InHandOf
  <2> QED  BY <1>2, <2>5, <2>6 DEF AloneInv
<1>18. ASSUME NEW w \in Workers, Dispatch(w) PROVE AloneInv'
  <2>1. status' = status /\ overdue' = overdue /\ InHandOf(w)
    BY <1>18 DEF Dispatch, rows, InHandOf
  <2>2. /\ \A v \in Workers : v # w => workers'[v] = workers[v]
        /\ workers'[w].delivery = workers[w].delivery
    BY <1>1, <1>18 DEF Dispatch, WorkerRecord
  <2>3. \A v \in Workers : Same(v)
    BY <2>1, <2>2 DEF InHandOf
  <2>4. \A v \in Workers : Safe(v)
    BY <1>1, <2>1, <2>3 DEF HandsOff
  <2> QED  BY <1>3, <2>3, <2>4
<1>19. ASSUME NEW w \in Workers, RecordResult(w) PROVE AloneInv'
  <2>1. Release(w) /\ overdue' = overdue /\ InHandOf(w)
    BY <1>19 DEF RecordResult, InHandOf
  <2>2. \A v \in Workers : Same(v)
    BY <1>5, <1>13, <2>1
  <2>3. \A e \in Deliveries : e # workers[w].delivery => status'[e] = status[e]
    BY <1>1, <1>19 DEF RecordResult
  <2>4. ~InHandOf(w)'
    BY <1>5, <1>13, <2>1
  <2>5. \A v \in Workers : InHandOf(v) /\ v # w => workers[v].delivery # workers[w].delivery
    BY <1>1, <2>1 DEF OneAttemptAtATime, InHandOf
  <2>6. \A v \in Workers : Safe(v)
    BY <1>1, <2>1, <2>2, <2>3, <2>4, <2>5 DEF HandsOff
  <2> QED  BY <1>3, <2>2, <2>6
<1>20. CASE UNCHANGED vars
  <2>1. workers' = workers /\ status' = status /\ overdue' = overdue
    BY <1>20 DEF vars, rows
  <2>2. \A w \in Workers : Safe(w)
    BY <1>1, <2>1 DEF HandsOff, InHandOf
  <2> QED  BY <1>3, <1>4, <2>1, <2>2
<1> QED
  BY <1>6, <1>7, <1>8, <1>9, <1>11, <1>12, <1>14, <1>15, <1>16, <1>17, <1>18, <1>19, <1>20
     DEF Next, Deliver

(* As long as no live attempt takes fifteen minutes, a delivery is in the  *)
(* hand of one worker at most.                                             *)
THEOREM AttemptsAlone ==
  ASSUME NobodyIsSlow
  PROVE  Spec => []OneAttemptAtATime
<1>1. AloneInv => OneAttemptAtATime
  BY DEF AloneInv
<1>2. AloneInv /\ [Next]_vars => AloneInv'
  BY NextAloneInv
<1> QED  BY <1>1, <1>2, InitAloneInv, PTL DEF Spec

-----------------------------------------------------------------------------
(* Whoever takes a destination for verified knows of an accepted test.     *)
Tested(x) == \E t \in TestDeliveries : Target[t] = x /\ t \in accepted

VerifiedWasTested == \A x \in verified : Tested(x)

WorkersKnowOfTests ==
  \A w \in Workers :
    /\ workers[w].at \in {"read", "claimed", "sent"} /\ workers[w].read.verified =>
         Tested(Target[workers[w].delivery])
    /\ workers[w].at = "sent" /\ workers[w].result = "DELIVERED" => workers[w].delivery \in accepted

TestInv == Typed /\ VerifiedWasTested /\ WorkersKnowOfTests /\ OrdinaryAfterTest

LEMMA InitTestInv == Init => TestInv
<1> SUFFICES ASSUME Init PROVE TestInv
  OBVIOUS
<1>1. \A w \in Workers : workers[w].at = "idle"
  BY DEF Init, Idle
<1> QED
  BY <1>1, InitTyped
     DEF Init, TestInv, VerifiedWasTested, WorkersKnowOfTests, OrdinaryAfterTest

(* A worker that reads or sends nothing knows nothing.                     *)
LEMMA NothingSent ==
  ASSUME TestInv, Typed', UNCHANGED <<verified, dispatched, accepted>>,
         NEW w \in Workers, \A v \in Workers : v # w => workers'[v] = workers[v],
         \/ workers'[w].at \notin {"read", "claimed", "sent"}
         \/ /\ workers[w].at \in {"read", "claimed"} /\ workers'[w].at # "sent"
            /\ workers'[w].delivery = workers[w].delivery
            /\ workers'[w].read = workers[w].read
  PROVE  TestInv'
BY DEF TestInv, VerifiedWasTested, WorkersKnowOfTests, OrdinaryAfterTest, Tested

LEMMA NextTestInv ==
  ASSUME TestInv, [Next]_vars
  PROVE  TestInv'
<1>1. /\ Typed /\ VerifiedWasTested /\ WorkersKnowOfTests /\ OrdinaryAfterTest
      /\ workers \in [Workers -> WorkerRecord]
      /\ dispatched \in [Deliveries -> 0 .. DispatchBound]
  BY DEF TestInv, Typed, TypeOK, WorkerRecord
<1>2. Typed'
  BY <1>1, NextTyped
<1>3. CASE UNCHANGED <<verified, dispatched, accepted, workers>>
  BY <1>1, <1>2, <1>3
     DEF TestInv, VerifiedWasTested, WorkersKnowOfTests, OrdinaryAfterTest, Tested
<1>4. ASSUME NEW w \in Workers, Release(w)
      PROVE  /\ workers'[w].at = "delivering"
             /\ \A v \in Workers : v # w => workers'[v] = workers[v]
  BY <1>1, <1>4 DEF Release, Idle
<1>5. ASSUME NEW w \in Workers, Reclaim(w) \/ CancelExpired(w) \/ SelectDue(w) PROVE TestInv'
  <2>1. /\ workers'[w].at \in {"expiring", "selecting", "delivering"}
        /\ \A v \in Workers : v # w => workers'[v] = workers[v]
    <3>1. CASE Reclaim(w)
      BY <1>1, <3>1 DEF Reclaim, WorkerRecord
    <3>2. CASE CancelExpired(w)
      BY <1>1, <3>2 DEF CancelExpired, WorkerRecord
    <3>3. CASE SelectDue(w)
      BY <1>1, <3>3 DEF SelectDue, WorkerRecord
    <3> QED  BY <1>5, <3>1, <3>2, <3>3
  <2>2. UNCHANGED <<verified, dispatched, accepted>>
    BY <1>5 DEF Reclaim, CancelExpired, SelectDue, users, seen
  <2> QED  BY <1>2, <2>1, <2>2, NothingSent
<1>6. ASSUME NEW w \in Workers, EndPass(w) \/ Crash(w) PROVE TestInv'
  <2>1. /\ workers'[w].at = "idle"
        /\ \A v \in Workers : v # w => workers'[v] = workers[v]
    BY <1>1, <1>6 DEF EndPass, Crash, Idle
  <2>2. UNCHANGED <<verified, dispatched, accepted>>
    BY <1>6 DEF EndPass, Crash, users, seen
  <2> QED  BY <1>2, <2>1, <2>2, NothingSent
<1>7. ASSUME NEW w \in Workers, Lapse(w) \/ ClaimFails(w) \/ Refuse(w) PROVE TestInv'
  <2>1. Release(w) /\ UNCHANGED <<verified, dispatched, accepted>>
    BY <1>7 DEF Lapse, ClaimFails, Refuse, users, seen
  <2> QED  BY <1>2, <1>4, <2>1, NothingSent
<1>8. ASSUME NEW w \in Workers, Claim(w) PROVE TestInv'
  <2>1. /\ workers[w].at = "read" /\ workers'[w].at = "claimed"
        /\ workers'[w].delivery = workers[w].delivery /\ workers'[w].read = workers[w].read
        /\ \A v \in Workers : v # w => workers'[v] = workers[v]
    BY <1>1, <1>8 DEF Claim, WorkerRecord
  <2>2. UNCHANGED <<verified, dispatched, accepted>>
    BY <1>8 DEF Claim, users, seen
  <2> QED  BY <1>2, <2>1, <2>2, NothingSent
<1>9. ASSUME NEW w \in Workers, Read(w) PROVE TestInv'
  <2>1. PICK d \in Deliveries : workers' = [workers EXCEPT ![w] =
          IF status[d] \in Claimable
          THEN [workers[w] EXCEPT !.at = "read", !.todo = @ \ {d}, !.delivery = d,
                                  !.read = CandidateRow(d)]
          ELSE [workers[w] EXCEPT !.todo = @ \ {d}]]
    BY <1>1, <1>9 DEF Read, WorkerRecord
  <2>2. /\ UNCHANGED <<verified, dispatched, accepted>> /\ workers[w].at = "delivering"
        /\ \A v \in Workers : v # w => workers'[v] = workers[v]
    BY <1>1, <1>9 DEF Read, users, seen
  <2>3. CASE status[d] \in Claimable
    <3>1. /\ workers'[w].at = "read" /\ workers'[w].delivery = d
          /\ workers'[w].read = CandidateRow(d)
      BY <1>1, <2>1, <2>3 DEF WorkerRecord
    <3>2. CandidateRow(d).verified => Target[d] \in verified
      BY DEF CandidateRow
    <3> QED
      BY <1>1, <1>2, <2>2, <3>1, <3>2
         DEF TestInv, VerifiedWasTested, WorkersKnowOfTests, OrdinaryAfterTest, Tested
  <2>4. CASE status[d] \notin Claimable
    <3>1. workers'[w].at = "delivering"
      BY <1>1, <2>1, <2>2, <2>4 DEF WorkerRecord
    <3> QED  BY <1>2, <2>2, <3>1, NothingSent
  <2> QED  BY <2>3, <2>4
<1>10. ASSUME NEW w \in Workers, Dispatch(w) PROVE TestInv'
  <2> DEFINE d == workers[w].delivery
  <2>1. /\ workers[w].at = "claimed" /\ Admitted(w) /\ d \in Deliveries /\ verified' = verified
        /\ \A v \in Workers : v # w => workers'[v] = workers[v]
    BY <1>1, <1>10 DEF Dispatch, Typed, WorksOnDelivery, users
  <2>2. /\ workers'[w].at = "sent" /\ workers'[w].delivery = d /\ workers'[w].read = workers[w].read
        /\ workers'[w].result = "DELIVERED" => d \in accepted'
        /\ accepted \subseteq accepted'
    BY <1>1, <1>10 DEF Dispatch, WorkerRecord
  <2>3. \A e \in Deliveries : e # d => dispatched'[e] = dispatched[e]
    BY <1>1, <1>10, <2>1 DEF Dispatch
  <2>4. \A x : Tested(x) => Tested(x)'
    BY <2>2 DEF Tested
  <2>5. d \notin TestDeliveries => Tested(Target[d])
    BY <1>1, <2>1 DEF Admitted, WorkersKnowOfTests
  <2>6. VerifiedWasTested'
    BY <1>1, <2>1, <2>4 DEF VerifiedWasTested
  <2>7. WorkersKnowOfTests'
    BY <1>1, <2>1, <2>2, <2>4 DEF WorkersKnowOfTests
  <2>8. OrdinaryAfterTest'
    <3> SUFFICES ASSUME NEW e \in Deliveries \ TestDeliveries, dispatched'[e] > 0
                 PROVE  Tested(Target[e])'
      BY DEF OrdinaryAfterTest, Tested
    <3>1. CASE e = d
      BY <2>4, <2>5, <3>1
    <3>2. CASE e # d
      BY <1>1, <2>3, <2>4, <3>2 DEF OrdinaryAfterTest, Tested
    <3> QED  BY <3>1, <3>2
  <2> QED  BY <1>2, <2>6, <2>7, <2>8 DEF TestInv
<1>11. ASSUME NEW w \in Workers, RecordResult(w) PROVE TestInv'
  <2> DEFINE d == workers[w].delivery
             outcome == OutcomeOf(workers[w].result, workers[w].read.attempts + 1)
  <2>1. /\ workers[w].at = "sent" /\ UNCHANGED <<dispatched, accepted>> /\ Release(w)
        /\ verified' = verified \cup
             {x \in {Target[d]} : outcome = "DELIVERED" /\ d \in TestDeliveries
                                   /\ ~workers[w].read.verified}
    BY <1>11 DEF RecordResult, seen
  <2>2. outcome = "DELIVERED" => workers[w].result = "DELIVERED"
    BY DEF OutcomeOf
  <2> HIDE DEF outcome
  <2>3. \A x \in verified' : x \in verified \/ (x = Target[d] /\ d \in TestDeliveries /\ d \in accepted)
    BY <1>1, <2>1, <2>2 DEF WorkersKnowOfTests
  <2>4. VerifiedWasTested'
    BY <1>1, <2>1, <2>3 DEF VerifiedWasTested, Tested
  <2>5. WorkersKnowOfTests' /\ OrdinaryAfterTest'
    BY <1>1, <1>4, <2>1 DEF WorkersKnowOfTests, OrdinaryAfterTest, Tested
  <2> QED  BY <1>2, <2>4, <2>5 DEF TestInv
<1>12. ASSUME NEW d \in Deliveries, AttemptGrowsOld(d) \/ BackoffElapsed(d) \/ Expire(d)
       PROVE  TestInv'
  BY <1>3, <1>12 DEF AttemptGrowsOld, BackoffElapsed, Expire, users, seen
<1>13. ASSUME NEW x \in Destinations, Disable(x) \/ Enable(x) PROVE TestInv'
  BY <1>3, <1>13 DEF Disable, Enable, seen
<1>14. CASE UNCHANGED vars
  BY <1>3, <1>14 DEF vars, users, seen
<1> QED
  BY <1>5, <1>6, <1>7, <1>8, <1>9, <1>10, <1>11, <1>12, <1>13, <1>14 DEF Next, Deliver

(* No ordinary alert is handed to a provider before a test message to the  *)
(* same destination was accepted, whatever happens meanwhile.              *)
THEOREM AlertsAfterTests == Spec => []OrdinaryAfterTest
<1>1. TestInv => OrdinaryAfterTest
  BY DEF TestInv
<1>2. TestInv /\ [Next]_vars => TestInv'
  BY NextTestInv
<1> QED  BY <1>1, <1>2, InitTestInv, PTL DEF Spec

-----------------------------------------------------------------------------
(* Where nothing expires, a delivery in hand is ATTEMPTING.                *)
StandsInv ==
  /\ AloneInv /\ expired = {}
  /\ \A w \in Workers :
       /\ workers[w].at = "read" => ~workers[w].read.expired
       /\ InHandOf(w) => status[workers[w].delivery] = "ATTEMPTING"

LEMMA InitStandsInv == Init => StandsInv
<1> SUFFICES ASSUME Init PROVE StandsInv
  OBVIOUS
<1>1. \A w \in Workers : workers[w].at = "idle"
  BY DEF Init, Idle
<1> QED
  BY <1>1, InitAloneInv DEF Init, StandsInv, InHandOf

(* What a step does to the status of a row.                                *)
LEMMA StatusStep ==
  ASSUME StandsInv, NothingExpires, [Next]_vars, NEW d \in Deliveries, status'[d] # status[d]
  PROVE  \/ status[d] \in Claimable
         \/ status[d] = "ATTEMPTING" /\ d \in overdue
         \/ \E w \in Workers : InHandOf(w) /\ workers[w].delivery = d /\ ~InHandOf(w)'
<1>1. /\ Typed /\ HandsOff /\ OneAttemptAtATime
      /\ status \in [Deliveries -> Statuses] /\ workers \in [Workers -> WorkerRecord]
  BY DEF StandsInv, AloneInv, Typed, TypeOK, WorkerRecord
<1>2. ASSUME NEW x \in Destinations, Disable(x) PROVE status[d] \in Claimable
  BY <1>1, <1>2 DEF Disable
<1>3. ASSUME NEW w \in Workers, Reclaim(w) PROVE status[d] = "ATTEMPTING" /\ d \in overdue
  BY <1>1, <1>3 DEF Reclaim
<1>4. ASSUME NEW w \in Workers, CancelExpired(w) PROVE status[d] \in Claimable
  BY <1>1, <1>4 DEF CancelExpired
<1>5. ASSUME NEW w \in Workers, Claim(w) PROVE status[d] \in Claimable
  BY <1>1, <1>5 DEF Claim
<1>6. ASSUME NEW w \in Workers, Refuse(w) \/ RecordResult(w)
      PROVE  InHandOf(w) /\ workers[w].delivery = d /\ ~InHandOf(w)'
  <2>1. InHandOf(w) /\ Release(w)
    BY <1>6 DEF Refuse, RecordResult, InHandOf
  <2>2. workers'[w].at = "delivering"
    BY <1>1, <2>1 DEF Release, Idle
  <2>3. workers[w].delivery = d
    BY <1>1, <1>6 DEF Refuse, RecordResult
  <2> QED  BY <2>1, <2>2, <2>3 DEF InHandOf
<1>7. ASSUME NEW w \in Workers, Lapse(w) PROVE FALSE
  BY <1>7 DEF Lapse, StandsInv
<1>8. CASE status' = status
  BY <1>8
<1>9. ASSUME NEW x \in Destinations, Enable(x) PROVE FALSE
  BY <1>8, <1>9 DEF Enable, rows
<1>10. ASSUME NEW e \in Deliveries, AttemptGrowsOld(e) \/ BackoffElapsed(e) \/ Expire(e)
       PROVE  FALSE
  BY <1>8, <1>10 DEF AttemptGrowsOld, BackoffElapsed, Expire, rows
<1>11. ASSUME NEW w \in Workers,
              \/ SelectDue(w) \/ EndPass(w) \/ Crash(w) \/ Read(w) \/ ClaimFails(w) \/ Dispatch(w)
       PROVE  FALSE
  BY <1>8, <1>11 DEF SelectDue, EndPass, Crash, Read, ClaimFails, Dispatch, rows
<1>12. CASE UNCHANGED vars
  BY <1>8, <1>12 DEF vars, rows
<1> QED
  BY <1>2, <1>3, <1>4, <1>5, <1>6, <1>7, <1>9, <1>10, <1>11, <1>12 DEF Next, Deliver

(* How a worker comes to read or to hold a delivery.                       *)
LEMMA WorkerStep ==
  ASSUME StandsInv, [Next]_vars, NEW w \in Workers, workers'[w].at \in {"read", "claimed", "sent"}
  PROVE  \/ /\ workers'[w].at = "read" /\ workers[w].at # "read"
            /\ workers'[w].read.expired => expired # {}
         \/ /\ workers'[w].at = "read" /\ workers[w].at = "read"
            /\ workers'[w].read = workers[w].read
         \/ /\ workers'[w].at = "claimed" /\ workers'[w].delivery \in Deliveries
            /\ status'[workers'[w].delivery] = "ATTEMPTING"
         \/ InHandOf(w) /\ InHandOf(w)' /\ workers'[w].delivery = workers[w].delivery
<1>1. /\ Typed /\ status \in [Deliveries -> Statuses] /\ workers \in [Workers -> WorkerRecord]
  BY DEF StandsInv, AloneInv, Typed, TypeOK, WorkerRecord
<1>2. CASE workers'[w] = workers[w]
  BY <1>2 DEF InHandOf
<1>3. ASSUME NEW v \in Workers, v # w,
             \/ Reclaim(v) \/ CancelExpired(v) \/ SelectDue(v) \/ EndPass(v) \/ Crash(v)
      PROVE  workers'[w] = workers[w]
  BY <1>1, <1>3 DEF Reclaim, CancelExpired, SelectDue, EndPass, Crash
<1>4. ASSUME NEW v \in Workers, v # w, Deliver(v) PROVE workers'[w] = workers[w]
  BY <1>1, <1>4
     DEF Deliver, Read, Lapse, Claim, ClaimFails, Refuse, Dispatch, RecordResult, Release
<1>5. ~(Lapse(w) \/ ClaimFails(w) \/ Refuse(w) \/ RecordResult(w))
  <2> SUFFICES ASSUME Release(w) PROVE FALSE
    BY DEF Lapse, ClaimFails, Refuse, RecordResult
  <2> QED  BY <1>1 DEF Release, Idle
<1>6. ~(EndPass(w) \/ Crash(w))
  BY <1>1 DEF EndPass, Crash, Idle
<1>7. ~Reclaim(w)
  BY <1>1 DEF Reclaim, WorkerRecord
<1>8. ~CancelExpired(w)
  BY <1>1 DEF CancelExpired, WorkerRecord
<1>9. ~SelectDue(w)
  BY <1>1 DEF SelectDue, WorkerRecord
<1>10. CASE Read(w)
  <2>1. PICK d \in Deliveries : workers' = [workers EXCEPT ![w] =
          IF status[d] \in Claimable
          THEN [workers[w] EXCEPT !.at = "read", !.todo = @ \ {d}, !.delivery = d,
                                  !.read = CandidateRow(d)]
          ELSE [workers[w] EXCEPT !.todo = @ \ {d}]]
    BY <1>1, <1>10 DEF Read, WorkerRecord
  <2>2. workers[w].at = "delivering"
    BY <1>10 DEF Read
  <2>3. status[d] \in Claimable
    BY <1>1, <2>1, <2>2 DEF WorkerRecord
  <2>4. workers'[w].at = "read" /\ workers'[w].read = CandidateRow(d)
    BY <1>1, <2>1, <2>3 DEF WorkerRecord
  <2>5. CandidateRow(d).expired => d \in expired
    BY DEF CandidateRow
  <2> QED  BY <2>2, <2>4, <2>5
<1>11. CASE Claim(w)
  <2>1. workers[w].delivery \in Deliveries
    BY <1>1, <1>11 DEF Claim, Typed, WorksOnDelivery
  <2>2. status'[workers[w].delivery] = "ATTEMPTING"
    BY <1>1, <1>11, <2>1 DEF Claim
  <2>3. workers'[w].at = "claimed" /\ workers'[w].delivery = workers[w].delivery
    BY <1>1, <1>11 DEF Claim, WorkerRecord
  <2> QED  BY <2>1, <2>2, <2>3
<1>12. CASE Dispatch(w)
  <2>1. /\ workers[w].at = "claimed" /\ workers'[w].at = "sent"
        /\ workers'[w].delivery = workers[w].delivery
    BY <1>1, <1>12 DEF Dispatch, WorkerRecord
  <2> QED  BY <2>1 DEF InHandOf
<1>13. ASSUME NEW d \in Deliveries, AttemptGrowsOld(d) \/ BackoffElapsed(d) \/ Expire(d)
       PROVE  workers' = workers
  BY <1>13 DEF AttemptGrowsOld, BackoffElapsed, Expire
<1>14. ASSUME NEW x \in Destinations, Disable(x) \/ Enable(x) PROVE workers' = workers
  BY <1>14 DEF Disable, Enable
<1>15. CASE UNCHANGED vars
  BY <1>2, <1>15 DEF vars
<1> QED
  BY <1>2, <1>3, <1>4, <1>5, <1>6, <1>7, <1>8, <1>9, <1>10, <1>11, <1>12, <1>13, <1>14, <1>15
     DEF Next, Deliver

LEMMA NextStandsInv ==
  ASSUME NobodyIsSlow, NothingExpires, StandsInv, [Next]_vars
  PROVE  StandsInv'
<1>1. AloneInv /\ Typed /\ OneAttemptAtATime /\ HandsOff /\ AloneInv'
  BY NextAloneInv DEF StandsInv, AloneInv
<1>2. \A w \in Workers : InHandOf(w) => workers[w].delivery \in Deliveries
  BY <1>1 DEF Typed, WorksOnDelivery, InHandOf
<1>3. expired' = {}
  BY DEF StandsInv, NothingExpires, Next, vars, Expire, AttemptGrowsOld, BackoffElapsed, Disable,
         Enable, Reclaim, CancelExpired, SelectDue, EndPass, Crash, Deliver, Read, Lapse, Claim,
         ClaimFails, Refuse, Dispatch, RecordResult
<1>4. ASSUME NEW w \in Workers, workers'[w].at = "read" PROVE ~workers'[w].read.expired
  BY <1>4, WorkerStep DEF StandsInv, InHandOf
<1>5. ASSUME NEW w \in Workers, InHandOf(w)'
      PROVE  status'[workers'[w].delivery] = "ATTEMPTING"
  <2>1. CASE InHandOf(w) /\ workers'[w].delivery = workers[w].delivery
    <3> DEFINE d == workers[w].delivery
    <3>1. status[d] = "ATTEMPTING" /\ d \in Deliveries /\ status[d] \notin Claimable /\ d \notin overdue
      BY <1>1, <1>2, <2>1 DEF StandsInv, HandsOff
    <3>2. \A v \in Workers : InHandOf(v) /\ workers[v].delivery = d => v = w
      BY <1>1, <2>1 DEF OneAttemptAtATime, InHandOf
    <3>3. status'[d] = status[d]
      BY <1>5, <3>1, <3>2, StatusStep
    <3> QED  BY <2>1, <3>1, <3>3
  <2> QED  BY <1>5, <2>1, WorkerStep DEF InHandOf
<1> QED
  BY <1>1, <1>3, <1>4, <1>5 DEF StandsInv

(* What was delivered is neither claimed again nor failed nor cancelled,   *)
(* as long as no live attempt takes fifteen minutes and nothing expires.   *)
THEOREM DeliveredStands ==
  ASSUME NobodyIsSlow, NothingExpires
  PROVE  Spec => DeliveredIsFinal
<1>1. StandsInv /\ [Next]_vars => StandsInv'
  BY NextStandsInv
<1>2. StandsInv /\ [Next]_vars =>
        [\A d \in Deliveries : status[d] = "DELIVERED" => status'[d] = "DELIVERED"]_vars
  <2> SUFFICES ASSUME StandsInv, [Next]_vars, NEW d \in Deliveries, status[d] = "DELIVERED",
                      status'[d] # status[d]
               PROVE  FALSE
    OBVIOUS
  <2>1. ~(status[d] \in Claimable \/ status[d] = "ATTEMPTING")
    BY DEF Claimable
  <2>2. PICK w \in Workers : InHandOf(w) /\ workers[w].delivery = d
    BY <2>1, StatusStep
  <2> QED  BY <2>1, <2>2 DEF StandsInv
<1> QED  BY <1>1, <1>2, InitStandsInv, PTL DEF Spec, DeliveredIsFinal

-----------------------------------------------------------------------------
(* A worker that is alone.  What it has read of a row still holds when it  *)
(* claims it: only workers make a row claimable again or count an attempt, *)
(* and a destination that is disabled meanwhile takes the row with it.     *)
OneWorker == \A v, w \in Workers : v = w

AttemptsCovered ==
  \A d \in Deliveries : attempts[d] < MaxAttempts => dispatched[d] <= attempts[d]

Counted(w) == attempts[workers[w].delivery] = CountUpTo(MaxAttempts, workers[w].read.attempts + 1)

ReadStillHolds(w) ==
  workers[w].at = "read" =>
    /\ workers[w].read.attempts = attempts[workers[w].delivery]
    /\ /\ status[workers[w].delivery] \in Claimable
       /\ Target[workers[w].delivery] \in disabled
       => workers[w].read.disabled

ClaimHolds(w) ==
  workers[w].at = "claimed" =>
    /\ Counted(w) /\ (workers[w].barred => workers[w].read.disabled)
    /\ workers[w].read.attempts < MaxAttempts =>
         dispatched[workers[w].delivery] <= workers[w].read.attempts

SentHolds(w) ==
  workers[w].at = "sent" =>
    /\ Counted(w) /\ ~workers[w].barred
    /\ workers[w].read.attempts + 1 < MaxAttempts =>
         dispatched[workers[w].delivery] <= workers[w].read.attempts + 1

LoneInv ==
  /\ Typed /\ AttemptsCovered
  /\ \A w \in Workers : ReadStillHolds(w) /\ ClaimHolds(w) /\ SentHolds(w)

LEMMA InitLoneInv == Init => LoneInv
<1> SUFFICES ASSUME Init PROVE LoneInv
  OBVIOUS
<1>1. \A w \in Workers : workers[w].at = "idle"
  BY DEF Init, Idle
<1> QED
  BY <1>1, InitTyped
     DEF Init, LoneInv, AttemptsCovered, ReadStillHolds, ClaimHolds, SentHolds

(* A worker that has let go of its delivery.                               *)
LEMMA LetsGo ==
  ASSUME OneWorker, LoneInv, Typed', UNCHANGED <<attempts, dispatched>>,
         NEW w \in Workers, workers'[w].at \notin {"read", "claimed", "sent"}
  PROVE  LoneInv'
<1>1. \A v \in Workers : workers'[v].at \notin {"read", "claimed", "sent"}
  BY DEF OneWorker
<1> QED
  BY <1>1 DEF LoneInv, AttemptsCovered, ReadStillHolds, ClaimHolds, SentHolds

LEMMA WorksAlone ==
  ASSUME OneWorker, LoneInv, Typed', AttemptsCovered',
         NEW w \in Workers, ReadStillHolds(w)', ClaimHolds(w)', SentHolds(w)'
  PROVE  LoneInv'
<1>1. ASSUME NEW v \in Workers PROVE ReadStillHolds(v)' /\ ClaimHolds(v)' /\ SentHolds(v)'
  <2>1. v = w
    BY DEF OneWorker
  <2> QED  BY <2>1
<1> QED  BY <1>1 DEF LoneInv

LEMMA NextLoneInv ==
  ASSUME OneWorker, LoneInv, [Next]_vars
  PROVE  LoneInv'
<1>1. /\ Typed /\ AttemptsCovered /\ workers \in [Workers -> WorkerRecord]
      /\ attempts \in [Deliveries -> 0 .. MaxAttempts] /\ MaxAttempts \in Nat \ {0}
      /\ dispatched \in [Deliveries -> 0 .. DispatchBound] /\ status \in [Deliveries -> Statuses]
  BY DeliveryConstants DEF LoneInv, Typed, TypeOK, WorkerRecord
<1>2. Typed'
  BY <1>1, NextTyped
<1>3. CASE UNCHANGED <<attempts, dispatched, workers>> /\ UNCHANGED <<status, disabled>>
  BY <1>1, <1>2, <1>3
     DEF LoneInv, AttemptsCovered, ReadStillHolds, ClaimHolds, SentHolds, Counted
<1>4. ASSUME NEW w \in Workers, Release(w) PROVE workers'[w].at = "delivering"
  BY <1>1, <1>4 DEF Release, Idle
<1>5. ASSUME NEW w \in Workers, Reclaim(w) \/ CancelExpired(w) \/ SelectDue(w) PROVE LoneInv'
  <2>1. workers'[w].at \in {"expiring", "selecting", "delivering"}
    <3>1. CASE Reclaim(w)
      BY <1>1, <3>1 DEF Reclaim, WorkerRecord
    <3>2. CASE CancelExpired(w)
      BY <1>1, <3>2 DEF CancelExpired, WorkerRecord
    <3>3. CASE SelectDue(w)
      BY <1>1, <3>3 DEF SelectDue, WorkerRecord
    <3> QED  BY <1>5, <3>1, <3>2, <3>3
  <2>2. UNCHANGED <<attempts, dispatched>>
    BY <1>5 DEF Reclaim, CancelExpired, SelectDue, rows, seen
  <2> QED  BY <1>2, <2>1, <2>2, LetsGo
<1>6. ASSUME NEW w \in Workers, EndPass(w) \/ Crash(w) PROVE LoneInv'
  <2>1. workers'[w].at = "idle"
    BY <1>1, <1>6 DEF EndPass, Crash, Idle
  <2>2. UNCHANGED <<attempts, dispatched>>
    BY <1>6 DEF EndPass, Crash, rows, seen
  <2> QED  BY <1>2, <2>1, <2>2, LetsGo
<1>7. ASSUME NEW w \in Workers, Lapse(w) \/ ClaimFails(w) \/ Refuse(w) \/ RecordResult(w)
      PROVE  LoneInv'
  <2>1. Release(w) /\ UNCHANGED <<attempts, dispatched>>
    BY <1>7 DEF Lapse, ClaimFails, Refuse, RecordResult, rows, seen
  <2> QED  BY <1>2, <1>4, <2>1, LetsGo
<1>8. ASSUME NEW w \in Workers, Read(w) PROVE LoneInv'
  <2>1. PICK d \in Deliveries : workers' = [workers EXCEPT ![w] =
          IF status[d] \in Claimable
          THEN [workers[w] EXCEPT !.at = "read", !.todo = @ \ {d}, !.delivery = d,
                                  !.read = CandidateRow(d)]
          ELSE [workers[w] EXCEPT !.todo = @ \ {d}]]
    BY <1>1, <1>8 DEF Read, Typed, TypeOK
  <2>2. /\ UNCHANGED <<attempts, dispatched, status, disabled>> /\ workers[w].at = "delivering"
    BY <1>1, <1>8 DEF Read, rows, users, seen
  <2>3. CASE status[d] \in Claimable
    <3>1. /\ workers'[w].at = "read" /\ workers'[w].delivery = d
          /\ workers'[w].read = CandidateRow(d)
      BY <1>1, <2>1, <2>3 DEF WorkerRecord
    <3>2. CandidateRow(d).attempts = attempts[d] /\ CandidateRow(d).disabled = (Target[d] \in disabled)
      BY DEF CandidateRow
    <3>3. AttemptsCovered' /\ ReadStillHolds(w)' /\ ClaimHolds(w)' /\ SentHolds(w)'
      BY <1>1, <2>2, <3>1, <3>2 DEF AttemptsCovered, ReadStillHolds, ClaimHolds, SentHolds
    <3> QED  BY <1>2, <3>3, WorksAlone
  <2>4. CASE status[d] \notin Claimable
    <3>1. workers'[w].at = "delivering"
      BY <1>1, <2>1, <2>2, <2>4 DEF WorkerRecord
    <3> QED  BY <1>2, <2>2, <3>1, LetsGo
  <2> QED  BY <2>3, <2>4
<1>9. ASSUME NEW w \in Workers, Claim(w) PROVE LoneInv'
  <2>1. PICK d, r : d = workers[w].delivery /\ r = workers[w].read
    OBVIOUS
  <2>2. /\ workers[w].at = "read" /\ d \in Deliveries /\ r.attempts = attempts[d]
        /\ r.attempts \in 0 .. MaxAttempts /\ (Target[d] \in disabled => r.disabled)
    BY <1>1, <1>9, <2>1
       DEF Claim, Typed, WorksOnDelivery, LoneInv, ReadStillHolds, WorkerRecord, Candidate
  <2>3. /\ workers'[w].at = "claimed" /\ workers'[w].delivery = d /\ workers'[w].read = r
        /\ workers'[w].barred = (Target[d] \in disabled)
    BY <1>1, <1>9, <2>1 DEF Claim, WorkerRecord
  <2>4. /\ attempts' = [attempts EXCEPT ![d] = CountUpTo(MaxAttempts, r.attempts + 1)]
        /\ dispatched' = dispatched
    BY <1>9, <2>1 DEF Claim, seen
  <2>5. AttemptsCovered'
    BY <1>1, <2>2, <2>4 DEF AttemptsCovered, CountUpTo
  <2>6. ReadStillHolds(w)' /\ SentHolds(w)'
    BY <2>3 DEF ReadStillHolds, SentHolds
  <2>7. ClaimHolds(w)'
    BY <1>1, <2>2, <2>3, <2>4 DEF ClaimHolds, Counted, AttemptsCovered
  <2> QED  BY <1>2, <2>5, <2>6, <2>7, WorksAlone
<1>10. ASSUME NEW w \in Workers, Dispatch(w) PROVE LoneInv'
  <2>1. PICK d, r : d = workers[w].delivery /\ r = workers[w].read
    OBVIOUS
  <2>2. /\ workers[w].at = "claimed" /\ d \in Deliveries /\ ~r.disabled
        /\ r.attempts \in 0 .. MaxAttempts
    BY <1>1, <1>10, <2>1 DEF Dispatch, Admitted, Typed, WorksOnDelivery, WorkerRecord, Candidate
  <2>3. /\ ~workers[w].barred /\ attempts[d] = CountUpTo(MaxAttempts, r.attempts + 1)
        /\ r.attempts < MaxAttempts => dispatched[d] <= r.attempts
    BY <1>1, <2>1, <2>2 DEF LoneInv, ClaimHolds, Counted
  <2>4. /\ workers'[w].at = "sent" /\ workers'[w].delivery = d /\ workers'[w].read = r
        /\ workers'[w].barred = workers[w].barred
    BY <1>1, <1>10, <2>1 DEF Dispatch, WorkerRecord
  <2>5. /\ attempts' = attempts
        /\ dispatched' = [dispatched EXCEPT ![d] = CountUpTo(DispatchBound, dispatched[d] + 1)]
    BY <1>1, <1>10, <2>1 DEF Dispatch, rows
  <2>6. dispatched[d] \in Nat /\ CountUpTo(DispatchBound, dispatched[d] + 1) <= dispatched[d] + 1
    BY <1>1, <2>2 DEF CountUpTo, DispatchBound
  <2>7. /\ dispatched'[d] <= dispatched[d] + 1 /\ dispatched'[d] \in Nat
        /\ \A e \in Deliveries : e # d => dispatched'[e] = dispatched[e]
    BY <1>1, <1>2, <2>2, <2>5, <2>6 DEF Typed, TypeOK, DispatchBound
  <2>8. AttemptsCovered'
    BY <1>1, <2>2, <2>3, <2>5, <2>6, <2>7 DEF AttemptsCovered, CountUpTo
  <2>9. ReadStillHolds(w)' /\ ClaimHolds(w)'
    BY <2>4 DEF ReadStillHolds, ClaimHolds
  <2>10. SentHolds(w)'
    BY <1>1, <2>2, <2>3, <2>4, <2>5, <2>6, <2>7 DEF SentHolds, Counted
  <2> QED  BY <1>2, <2>8, <2>9, <2>10, WorksAlone
<1>11. ASSUME NEW d \in Deliveries, AttemptGrowsOld(d) \/ BackoffElapsed(d) \/ Expire(d)
       PROVE  LoneInv'
  BY <1>3, <1>11 DEF AttemptGrowsOld, BackoffElapsed, Expire, rows, users, seen
<1>12. ASSUME NEW x \in Destinations, Disable(x) PROVE LoneInv'
  <2>1. /\ UNCHANGED <<attempts, dispatched, workers>> /\ disabled' = disabled \cup {x}
        /\ \A d \in Deliveries : status'[d] =
             IF Target[d] = x /\ status[d] \in Claimable THEN "CANCELLED" ELSE status[d]
    BY <1>12 DEF Disable, seen
  <2>2. ASSUME NEW w \in Workers PROVE ReadStillHolds(w)'
    <3>1. workers[w].at = "read" => workers[w].delivery \in Deliveries /\ ReadStillHolds(w)
      BY <1>1 DEF LoneInv, Typed, WorksOnDelivery
    <3>2. "CANCELLED" \notin Claimable
      BY DEF Claimable
    <3> QED  BY <2>1, <3>1, <3>2 DEF ReadStillHolds
  <2> QED
    BY <1>1, <1>2, <2>1, <2>2 DEF LoneInv, AttemptsCovered, ClaimHolds, SentHolds, Counted
<1>13. ASSUME NEW x \in Destinations, Enable(x) PROVE LoneInv'
  BY <1>1, <1>2, <1>13
     DEF Enable, rows, seen, LoneInv, AttemptsCovered, ReadStillHolds, ClaimHolds, SentHolds, Counted
<1>14. CASE UNCHANGED vars
  BY <1>3, <1>14 DEF vars, rows, users, seen
<1> QED
  BY <1>5, <1>6, <1>7, <1>8, <1>9, <1>10, <1>11, <1>12, <1>13, <1>14 DEF Next, Deliver

(* With one worker no delivery is sent that was claimed while its          *)
(* destination was disabled (disableNotificationDestination).              *)
THEOREM DisabledGetNothing ==
  ASSUME OneWorker
  PROVE  Spec => []NothingSentWhileDisabled
<1>1. LoneInv => NothingSentWhileDisabled
  BY DEF LoneInv, SentHolds, NothingSentWhileDisabled
<1>2. LoneInv /\ [Next]_vars => LoneInv'
  BY NextLoneInv
<1> QED  BY <1>1, <1>2, InitLoneInv, PTL DEF Spec

(* Who makes a failed attempt retryable.                                   *)
LEMMA FailuresAreCounted ==
  ASSUME OneWorker, LoneInv, Next, NEW d \in Deliveries, AttemptFailed(d)
  PROVE  dispatched[d] < MaxAttempts
<1>1. /\ workers \in [Workers -> WorkerRecord] /\ status \in [Deliveries -> Statuses]
      /\ dispatched \in [Deliveries -> 0 .. DispatchBound] /\ MaxAttempts \in Nat \ {0}
      /\ status[d] = "ATTEMPTING" /\ d \notin overdue /\ status'[d] = "RETRYABLE_FAILURE"
  BY DeliveryConstants DEF LoneInv, Typed, TypeOK, WorkerRecord, AttemptFailed
<1>2. PICK w \in Workers : RecordResult(w) /\ workers[w].delivery = d
  <2>1. ASSUME status' = status PROVE FALSE
    BY <1>1, <2>1
  <2>2. ASSUME NEW w \in Workers, NEW s \in Statuses \ {"RETRYABLE_FAILURE"},
               status' = [status EXCEPT ![workers[w].delivery] = s]
        PROVE  FALSE
    BY <1>1, <2>2
  <2>3. ASSUME NEW w \in Workers, Reclaim(w) \/ CancelExpired(w) PROVE FALSE
    BY <1>1, <2>3 DEF Reclaim, CancelExpired
  <2>4. ASSUME NEW x \in Destinations, Disable(x) PROVE FALSE
    BY <1>1, <2>4 DEF Disable
  <2>5. ASSUME NEW w \in Workers, Lapse(w) \/ Refuse(w) \/ Claim(w) PROVE FALSE
    <3>1. {"CANCELLED", "SUPPRESSED", "PERMANENT_FAILURE", "ATTEMPTING"}
            \subseteq Statuses \ {"RETRYABLE_FAILURE"}
      BY DEF Statuses, Settled, Claimable
    <3> QED  BY <2>2, <2>5, <3>1 DEF Lapse, Refuse, Claim
  <2>6. PICK w \in Workers : RecordResult(w)
    BY <2>1, <2>3, <2>4, <2>5
       DEF Next, Deliver, AttemptGrowsOld, BackoffElapsed, Expire, Enable, SelectDue, EndPass,
           Crash, Read, ClaimFails, Dispatch, rows
  <2> QED  BY <1>1, <2>6 DEF RecordResult
<1>3. /\ workers[w].at = "sent"
      /\ OutcomeOf(workers[w].result, workers[w].read.attempts + 1) = "RETRYABLE_FAILURE"
  BY <1>1, <1>2 DEF RecordResult
<1>4. workers[w].read.attempts \in 0 .. MaxAttempts
  BY <1>1 DEF WorkerRecord, Candidate
<1>5. workers[w].read.attempts + 1 < MaxAttempts
  BY <1>3, <1>4 DEF OutcomeOf, RetryAllowed
<1> QED
  BY <1>1, <1>2, <1>3, <1>4, <1>5 DEF LoneInv, SentHolds, DispatchBound

(* With one worker a failed attempt is retried only while the delivery was *)
(* handed to a provider fewer than MaxAttempts times.                      *)
THEOREM RetriesStayBounded ==
  ASSUME OneWorker
  PROVE  Spec => RetriesAreBounded
<1>1. LoneInv /\ [Next]_vars => LoneInv'
  BY NextLoneInv
<1>2. LoneInv /\ [Next]_vars =>
        [\A d \in Deliveries : AttemptFailed(d) => dispatched[d] < MaxAttempts]_vars
  BY FailuresAreCounted
<1> QED
  BY <1>1, <1>2, InitLoneInv, PTL DEF Spec, RetriesAreBounded
=============================================================================
