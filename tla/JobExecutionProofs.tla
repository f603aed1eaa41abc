-------------------------- MODULE JobExecutionProofs --------------------------
(***************************************************************************)
(* TLAPS proofs about JobExecution, for every set of jobs and slots, every *)
(* attempts budget and every combination of faults.                        *)
(*                                                                         *)
(* The inductive invariant has three layers.  QueueInv is about the queue  *)
(* and the slots alone: who holds a lock works on the attempt the queue    *)
(* counts, and a job that may still run has attempts left.  TableInv is    *)
(* about the database alone.  WorkInv ties a slot past Start to its run.   *)
(***************************************************************************)
EXTENDS JobExecution, TLAPS

BusySlotHasRun ==
  \A s \in Slots : slots[s].at # "idle" => RunOf(s) \in Runs

AttemptsLeft ==
  \A j \in Jobs : queue[j].state \notin {"completed", "failed"} => queue[j].made < MaxAttempts

LockCurrent ==
  \A s \in Slots : slots[s].at \notin {"idle", "reporting"} /\ HoldsLock(s) =>
    /\ queue[slots[s].job].state = "active"
    /\ slots[s].attempt = queue[slots[s].job].made + 1

QueueInv ==
  /\ queue \in [Jobs -> QueuedJob]
  /\ slots \in [Slots -> Slot]
  /\ deadLetterQueue \subseteq Jobs
  /\ BusySlotHasRun
  /\ AttemptsLeft
  /\ LockCurrent

DispatchedAfterInsert ==
  \A run \in Runs : dispatches[run] > 0 => status[run] # "ABSENT"

TableInv ==
  /\ Ledger!LedgerTypeOK
  /\ DispatchedAfterInsert
  /\ AttemptDispatchedOnce
  /\ LedgerAgrees

WorkingWasDispatched ==
  \A s \in Slots : Working(s) => dispatches[RunOf(s)] > 0

ReturningSucceeded ==
  \A s \in Slots : slots[s].at = "returning" => status[RunOf(s)] = "SUCCEEDED"

WorkInv ==
  /\ WorkingWasDispatched
  /\ ReturningSucceeded
  /\ OneSlotPerRun
  /\ CompletedHasSucceededRun

IndInv == QueueInv /\ TableInv /\ WorkInv

-----------------------------------------------------------------------------
(* The queue and the slots.                                                *)

LEMMA BusySlot ==
  ASSUME QueueInv, NEW s \in Slots, slots[s].at # "idle"
  PROVE  /\ slots[s].job \in Jobs
         /\ slots[s].attempt \in 1 .. MaxAttempts
         /\ RunOf(s) \in Runs
BY DEF QueueInv, BusySlotHasRun, RunOf, Runs

(* What Advance, Catch and Escape have in common: one slot moves on with   *)
(* the same run.                                                           *)
Moves(s, place) ==
  /\ slots' \in [Slots -> Slot]
  /\ slots'[s].at = place
  /\ slots'[s].job = slots[s].job /\ slots'[s].attempt = slots[s].attempt
  /\ \A t \in Slots \ {s} : slots'[t] = slots[t]

Frees(s) ==
  /\ slots' \in [Slots -> Slot]
  /\ slots'[s].at = "idle"
  /\ \A t \in Slots \ {s} : slots'[t] = slots[t]

LEMMA AdvanceMoves ==
  ASSUME slots \in [Slots -> Slot], NEW s \in Slots, NEW place \in Places, Advance(s, place)
  PROVE  Moves(s, place)
BY DEF Advance, Moves, Slot

LEMMA EscapeMoves ==
  ASSUME slots \in [Slots -> Slot], NEW s \in Slots, Escape(s)
  PROVE  Moves(s, "throwing")
BY DEF Escape, Moves, Slot, Places, ErrorKinds

LEMMA CatchMoves ==
  ASSUME slots \in [Slots -> Slot], NEW s \in Slots, NEW error \in ErrorKinds, Catch(s, error)
  PROVE  Moves(s, "failing")
BY DEF Catch, Moves, Slot, Places

LEMMA IdleFrees ==
  ASSUME slots \in [Slots -> Slot], NEW s \in Slots, slots' = [slots EXCEPT ![s] = Idle],
         MaxAttempts \in Nat
  PROVE  Frees(s)
BY DEF Frees, Idle, Slot, Places, ErrorKinds

(* The steps of the processor proper leave the queue alone, so the lock    *)
(* invariants survive as long as the slot keeps its run.                   *)
LEMMA MovingKeepsQueueInv ==
  ASSUME QueueInv, NEW s \in Slots, slots[s].at \notin {"idle", "reporting"},
         NEW place \in Places, Moves(s, place), UNCHANGED <<queue, deadLetterQueue>>
  PROVE  QueueInv'
<1>1. BusySlotHasRun'
  BY DEF QueueInv, BusySlotHasRun, RunOf, Runs, Moves
<1>2. AttemptsLeft'
  BY DEF QueueInv, AttemptsLeft
<1>3. LockCurrent'
  BY DEF QueueInv, LockCurrent, HoldsLock, Moves
<1> QED  BY <1>1, <1>2, <1>3 DEF QueueInv, Moves

LEMMA FreeingKeepsQueueInv ==
  ASSUME QueueInv, NEW s \in Slots, Frees(s), UNCHANGED queue, deadLetterQueue' \subseteq Jobs
  PROVE  QueueInv'
<1>1. BusySlotHasRun'
  BY DEF QueueInv, BusySlotHasRun, RunOf, Runs, Frees
<1>2. AttemptsLeft'
  BY DEF QueueInv, AttemptsLeft
<1>3. LockCurrent'
  BY DEF QueueInv, LockCurrent, HoldsLock, Frees
<1> QED  BY <1>1, <1>2, <1>3 DEF QueueInv, Frees

(* The processor's own steps, up to its return or throw.                   *)
InProcessor(s) ==
  Start(s) \/ HandlerReturns(s) \/ HandlerThrows(s) \/ Succeed(s) \/ Fail(s)

LEMMA ProcessorMoves ==
  ASSUME slots \in [Slots -> Slot], NEW s \in Slots, InProcessor(s)
  PROVE  /\ slots[s].at \notin {"idle", "reporting"}
         /\ UNCHANGED <<queue, deadLetterQueue>>
         /\ \E place \in Places : Moves(s, place)
<1>1. CASE Start(s)
  BY <1>1, AdvanceMoves, EscapeMoves DEF Start, Places
<1>2. CASE HandlerReturns(s)
  BY <1>2, AdvanceMoves DEF HandlerReturns, Places
<1>3. CASE HandlerThrows(s)
  BY <1>3, CatchMoves DEF HandlerThrows, Places, ErrorKinds
<1>4. CASE Succeed(s)
  BY <1>4, AdvanceMoves, CatchMoves DEF Succeed, Places, ErrorKinds
<1>5. CASE Fail(s)
  BY <1>5, AdvanceMoves, EscapeMoves DEF Fail, Places
<1> QED  BY <1>1, <1>2, <1>3, <1>4, <1>5 DEF InProcessor

(* Steps of BullMQ that change the record of one job.                      *)
LEMMA JobStepEffect ==
  ASSUME QueueInv, ExecutionConstants, NEW j \in Jobs,
         Enqueue(j) \/ BackoffElapsed(j) \/ Remove(j) \/ StallCheck(j)
  PROVE  /\ queue' \in [Jobs -> QueuedJob]
         /\ \A k \in Jobs \ {j} : queue'[k] = queue[k]
         /\ queue'[j].state \notin {"active", "completed", "failed"}
         /\ queue'[j].made < MaxAttempts
         /\ queue'[j].owner \in {queue[j].owner, NoSlot}
         /\ queue[j].state = "active" => queue[j].owner = NoSlot
<1>1. CASE Enqueue(j)
  BY <1>1 DEF Enqueue, QueueInv, AttemptsLeft, QueuedJob, JobStates
<1>2. CASE BackoffElapsed(j)
  BY <1>2 DEF BackoffElapsed, QueueInv, AttemptsLeft, QueuedJob, JobStates
<1>3. CASE Remove(j)
  BY <1>3 DEF Remove, NotQueued, QueueInv, QueuedJob, JobStates, ExecutionConstants
<1>4. CASE StallCheck(j)
  <2> DEFINE stalls == IF queue[j].stalled > MaxStalledCount THEN queue[j].stalled
                       ELSE queue[j].stalled + 1
  <2>1. stalls \in 0 .. MaxStalledCount + 1 /\ StallLimitExceeded(stalls) \in BOOLEAN
    BY DEF QueueInv, QueuedJob, StallLimitExceeded, ExecutionConstants
  <2>2. queue' = [queue EXCEPT ![j] = [@ EXCEPT
          !.state = "waiting", !.stalled = stalls, !.doomed = StallLimitExceeded(stalls)]]
    BY <1>4 DEF StallCheck
  <2>3. queue[j].state = "active" /\ queue[j].owner = NoSlot
    BY <1>4 DEF StallCheck
  <2> HIDE DEF stalls
  <2> DEFINE waiting == [queue[j] EXCEPT
          !.state = "waiting", !.stalled = stalls, !.doomed = StallLimitExceeded(stalls)]
  <2>4. queue[j] \in QueuedJob /\ queue[j].made < MaxAttempts
    BY <2>3 DEF QueueInv, AttemptsLeft
  <2>5. /\ waiting \in QueuedJob
        /\ waiting.state = "waiting"
        /\ waiting.made = queue[j].made
        /\ waiting.owner = queue[j].owner
    BY <2>1, <2>4 DEF QueuedJob, JobStates
  <2>6. queue \in [Jobs -> QueuedJob] /\ queue' = [queue EXCEPT ![j] = waiting]
    BY <2>2 DEF QueueInv
  <2> HIDE DEF waiting
  <2> QED  BY <2>3, <2>4, <2>5, <2>6
<1> QED  BY <1>1, <1>2, <1>3, <1>4

LEMMA JobStepKeepsQueueInv ==
  ASSUME QueueInv, ExecutionConstants, NEW j \in Jobs,
         Enqueue(j) \/ BackoffElapsed(j) \/ Remove(j) \/ StallCheck(j)
  PROVE  QueueInv'
<1>1. /\ queue' \in [Jobs -> QueuedJob]
      /\ \A k \in Jobs \ {j} : queue'[k] = queue[k]
      /\ queue'[j].state \notin {"active", "completed", "failed"}
      /\ queue'[j].made < MaxAttempts
      /\ queue'[j].owner \in {queue[j].owner, NoSlot}
      /\ queue[j].state = "active" => queue[j].owner = NoSlot
  BY JobStepEffect
<1>2. UNCHANGED <<slots, deadLetterQueue>>
  BY DEF Enqueue, BackoffElapsed, Remove, StallCheck
<1>3. BusySlotHasRun'
  BY <1>2 DEF QueueInv, BusySlotHasRun, RunOf, Runs
<1>4. AttemptsLeft'
  BY <1>1 DEF QueueInv, AttemptsLeft
<1>5. LockCurrent'
  <2> SUFFICES ASSUME NEW s \in Slots, slots[s].at \notin {"idle", "reporting"},
                      queue'[slots[s].job].owner = s
               PROVE  /\ queue'[slots[s].job].state = "active"
                      /\ slots[s].attempt = queue'[slots[s].job].made + 1
    BY <1>2 DEF LockCurrent, HoldsLock
  <2>1. slots[s].job \in Jobs
    BY DEF QueueInv, BusySlotHasRun, RunOf, Runs
  <2>2. slots[s].job # j
    BY <1>1, <2>1 DEF QueueInv, LockCurrent, HoldsLock, ExecutionConstants
  <2> QED  BY <1>1, <2>1, <2>2 DEF QueueInv, LockCurrent, HoldsLock
<1> QED  BY <1>1, <1>2, <1>3, <1>4, <1>5 DEF QueueInv

(* Losing the lock of a slot's job leaves every other lock as it is.       *)
LEMMA UnlockingKeepsLocks ==
  ASSUME QueueInv, ExecutionConstants, NEW s \in Slots, slots[s].at # "idle",
         queue' = [queue EXCEPT ![slots[s].job].owner = NoSlot]
  PROVE  /\ queue' \in [Jobs -> QueuedJob]
         /\ AttemptsLeft'
         /\ \A k \in Jobs : /\ queue'[k].state = queue[k].state
                            /\ queue'[k].made = queue[k].made
                            /\ queue'[k].owner \in {queue[k].owner, NoSlot}
<1>1. slots[s].job \in Jobs
  BY DEF QueueInv, BusySlotHasRun, RunOf, Runs
<1>2. queue' \in [Jobs -> QueuedJob]
  BY <1>1 DEF QueueInv, QueuedJob
<1>3. \A k \in Jobs : /\ queue'[k].state = queue[k].state
                     /\ queue'[k].made = queue[k].made
                     /\ queue'[k].owner \in {queue[k].owner, NoSlot}
  BY <1>1 DEF QueueInv, QueuedJob
<1> QED  BY <1>2, <1>3 DEF QueueInv, AttemptsLeft

LEMMA LoseLockKeepsQueueInv ==
  ASSUME QueueInv, ExecutionConstants, NEW s \in Slots, LoseLock(s)
  PROVE  QueueInv'
<1>1. /\ queue' \in [Jobs -> QueuedJob]
      /\ AttemptsLeft'
      /\ \A k \in Jobs : /\ queue'[k].state = queue[k].state
                         /\ queue'[k].made = queue[k].made
                         /\ queue'[k].owner \in {queue[k].owner, NoSlot}
  BY UnlockingKeepsLocks DEF LoseLock
<1>2. UNCHANGED <<slots, deadLetterQueue>>
  BY DEF LoseLock
<1>3. BusySlotHasRun'
  BY <1>2 DEF QueueInv, BusySlotHasRun, RunOf, Runs
<1>4. LockCurrent'
  BY <1>1, <1>2 DEF QueueInv, BusySlotHasRun, RunOf, Runs, LockCurrent, HoldsLock, ExecutionConstants
<1> QED  BY <1>1, <1>2, <1>3, <1>4 DEF QueueInv

LEMMA CrashKeepsQueueInv ==
  ASSUME QueueInv, ExecutionConstants, NEW s \in Slots, Crash(s)
  PROVE  QueueInv'
<1>1. /\ queue' \in [Jobs -> QueuedJob]
      /\ AttemptsLeft'
      /\ \A k \in Jobs : /\ queue'[k].state = queue[k].state
                         /\ queue'[k].made = queue[k].made
                         /\ queue'[k].owner \in {queue[k].owner, NoSlot}
  <2>1. CASE HoldsLock(s)
    BY <2>1, UnlockingKeepsLocks DEF Crash
  <2>2. CASE ~HoldsLock(s)
    BY <2>2 DEF Crash, QueueInv, AttemptsLeft
  <2> QED  BY <2>1, <2>2
<1>2. Frees(s) /\ UNCHANGED deadLetterQueue
  BY IdleFrees DEF Crash, QueueInv, ExecutionConstants
<1>3. BusySlotHasRun'
  BY <1>2 DEF QueueInv, BusySlotHasRun, RunOf, Runs, Frees
<1>4. LockCurrent'
  <2> SUFFICES ASSUME NEW t \in Slots, slots'[t].at \notin {"idle", "reporting"},
                      queue'[slots'[t].job].owner = t
               PROVE  /\ queue'[slots'[t].job].state = "active"
                      /\ slots'[t].attempt = queue'[slots'[t].job].made + 1
    BY DEF LockCurrent, HoldsLock
  <2>1. slots'[t] = slots[t]
    BY <1>2 DEF Frees
  <2>2. slots[t].job \in Jobs
    BY <2>1, BusySlot
  <2> QED  BY <1>1, <2>1, <2>2 DEF QueueInv, LockCurrent, HoldsLock, ExecutionConstants
<1> QED  BY <1>1, <1>2, <1>3, <1>4 DEF QueueInv, Frees

LEMMA PickUpKeepsQueueInv ==
  ASSUME QueueInv, ExecutionConstants, NEW s \in Slots, NEW j \in Jobs, PickUp(s, j)
  PROVE  QueueInv'
<1>1. queue[j].made \in 0 .. MaxAttempts /\ queue[j].made < MaxAttempts
  BY DEF PickUp, QueueInv, AttemptsLeft, QueuedJob
<1>2. /\ queue' \in [Jobs -> QueuedJob]
      /\ queue'[j].state = "active" /\ queue'[j].made = queue[j].made /\ queue'[j].owner = s
      /\ \A k \in Jobs \ {j} : queue'[k] = queue[k]
  BY DEF PickUp, QueueInv, QueuedJob, JobStates
<1>3. /\ slots' \in [Slots -> Slot]
      /\ slots'[s].job = j /\ slots'[s].attempt = queue[j].made + 1
      /\ \A t \in Slots \ {s} : slots'[t] = slots[t]
  <2>1. queue[j].doomed \in BOOLEAN
    BY DEF QueueInv, QueuedJob
  <2> QED  BY <1>1, <2>1 DEF PickUp, AttemptNumber, QueueInv, Slot, Places, ErrorKinds, ExecutionConstants
<1>4. BusySlotHasRun'
  BY <1>1, <1>3 DEF QueueInv, BusySlotHasRun, RunOf, Runs
<1>5. AttemptsLeft'
  BY <1>1, <1>2 DEF QueueInv, AttemptsLeft
<1>6. LockCurrent'
  <2> SUFFICES ASSUME NEW t \in Slots, slots'[t].at \notin {"idle", "reporting"},
                      queue'[slots'[t].job].owner = t
               PROVE  /\ queue'[slots'[t].job].state = "active"
                      /\ slots'[t].attempt = queue'[slots'[t].job].made + 1
    BY DEF LockCurrent, HoldsLock
  <2>1. CASE t = s
    BY <1>2, <1>3, <2>1
  <2>2. CASE t # s
    <3>1. slots'[t] = slots[t]
      BY <1>3, <2>2
    <3>2. slots[t].job \in Jobs \ {j}
      BY <1>2, <2>2, <3>1, BusySlot
    <3> QED  BY <1>2, <3>1, <3>2 DEF QueueInv, LockCurrent, HoldsLock
  <2> QED  BY <2>1, <2>2
<1> QED  BY <1>2, <1>3, <1>4, <1>5, <1>6 DEF PickUp, QueueInv

(* A slot that reports its result under the lock moves its job, and only   *)
(* its job, on by one attempt.                                             *)
LEMMA SettlingKeepsLocks ==
  ASSUME QueueInv, ExecutionConstants, NEW s \in Slots,
         slots[s].at \notin {"idle", "reporting"}, HoldsLock(s),
         NEW state \in {"completed", "failed", "delayed"}, Settle(s, state),
         state = "delayed" => slots[s].attempt < MaxAttempts
  PROVE  /\ queue' \in [Jobs -> QueuedJob]
         /\ AttemptsLeft'
         /\ queue'[slots[s].job].state = state
         /\ queue'[slots[s].job].made = slots[s].attempt
         /\ queue'[slots[s].job].owner = NoSlot
         /\ \A k \in Jobs \ {slots[s].job} : queue'[k] = queue[k]
<1>1. slots[s].job \in Jobs /\ slots[s].attempt \in 1 .. MaxAttempts
  BY DEF QueueInv, BusySlotHasRun, RunOf, Runs
<1>2. slots[s].attempt = queue[slots[s].job].made + 1
  BY DEF QueueInv, LockCurrent
<1>3. /\ queue' \in [Jobs -> QueuedJob]
      /\ queue'[slots[s].job].state = state
      /\ queue'[slots[s].job].made = slots[s].attempt
      /\ queue'[slots[s].job].owner = NoSlot
      /\ \A k \in Jobs \ {slots[s].job} : queue'[k] = queue[k]
  <2>1. queue[slots[s].job] \in QueuedJob
    BY <1>1 DEF QueueInv
  <2>2. queue[slots[s].job].made + 1 \in 0 .. MaxAttempts
    BY <1>1, <1>2
  <2> DEFINE settled == [queue[slots[s].job] EXCEPT
                           !.state = state, !.made = queue[slots[s].job].made + 1, !.owner = NoSlot]
  <2>3. /\ settled \in QueuedJob
        /\ settled.state = state /\ settled.owner = NoSlot
        /\ settled.made = slots[s].attempt
    BY <1>2, <2>1, <2>2 DEF QueuedJob, JobStates
  <2>4. queue' = [queue EXCEPT ![slots[s].job] = settled]
    BY DEF Settle
  <2> HIDE DEF settled
  <2> QED  BY <1>1, <2>3, <2>4 DEF QueueInv
<1>4. AttemptsLeft'
  BY <1>3 DEF QueueInv, AttemptsLeft
<1> QED  BY <1>3, <1>4

(* Once the reporting slot has let go of the lock, LockCurrent speaks of   *)
(* the other jobs only.                                                    *)
LEMMA SettledKeepsLockCurrent ==
  ASSUME QueueInv, ExecutionConstants, NEW s \in Slots,
         slots[s].at \notin {"idle", "reporting"},
         slots'[s].at \in {"idle", "reporting"},
         \A t \in Slots \ {s} : slots'[t] = slots[t],
         queue'[slots[s].job].owner = NoSlot,
         \A k \in Jobs \ {slots[s].job} : queue'[k] = queue[k]
  PROVE  LockCurrent'
<1> SUFFICES ASSUME NEW t \in Slots, slots'[t].at \notin {"idle", "reporting"},
                    queue'[slots'[t].job].owner = t
             PROVE  /\ queue'[slots'[t].job].state = "active"
                    /\ slots'[t].attempt = queue'[slots'[t].job].made + 1
  BY DEF LockCurrent, HoldsLock
<1>1. slots'[t] = slots[t]
  OBVIOUS
<1>2. slots[t].job \in Jobs \ {slots[s].job}
  BY <1>1, BusySlot DEF ExecutionConstants
<1> QED  BY <1>1, <1>2 DEF QueueInv, LockCurrent, HoldsLock

LEMMA CompleteKeepsQueueInv ==
  ASSUME QueueInv, ExecutionConstants, NEW s \in Slots, Complete(s)
  PROVE  QueueInv'
<1>1. Frees(s) /\ slots[s].at = "returning" /\ UNCHANGED deadLetterQueue
  BY IdleFrees DEF Complete, QueueInv, ExecutionConstants
<1>2. CASE HoldsLock(s)
  <2>1. /\ queue' \in [Jobs -> QueuedJob]
        /\ AttemptsLeft'
        /\ queue'[slots[s].job].owner = NoSlot
        /\ \A k \in Jobs \ {slots[s].job} : queue'[k] = queue[k]
    BY <1>1, <1>2, SettlingKeepsLocks DEF Complete, Settle
  <2>2. BusySlotHasRun'
    BY <1>1 DEF QueueInv, BusySlotHasRun, RunOf, Runs, Frees
  <2>3. LockCurrent'
    BY <1>1, <2>1, SettledKeepsLockCurrent DEF Frees
  <2> QED  BY <1>1, <2>1, <2>2, <2>3 DEF QueueInv, Frees
<1>3. CASE ~HoldsLock(s)
  BY <1>1, <1>3, FreeingKeepsQueueInv DEF Complete, QueueInv
<1> QED  BY <1>2, <1>3

LEMMA MoveToFailedKeepsQueueInv ==
  ASSUME QueueInv, ExecutionConstants, NEW s \in Slots, MoveToFailed(s)
  PROVE  QueueInv'
<1>1. slots[s].at = "throwing" /\ UNCHANGED deadLetterQueue
  BY DEF MoveToFailed
<1>2. CASE HoldsLock(s)
  <2> DEFINE state == IF GivesUp(s) THEN "failed" ELSE "delayed"
  <2>1. Moves(s, "reporting")
    BY <1>2, AdvanceMoves DEF MoveToFailed, QueueInv, Places
  <2>2. Settle(s, state)
    BY <1>2 DEF MoveToFailed, Settle
  <2>3. state = "delayed" => slots[s].attempt < MaxAttempts
    <3>1. slots[s].attempt \in 1 .. MaxAttempts
      BY <1>1 DEF QueueInv, BusySlotHasRun, RunOf, Runs
    <3> QED  BY <1>1, <1>2, <3>1 DEF GivesUp, QueueInv, LockCurrent, ExecutionConstants
  <2>4. state \in {"completed", "failed", "delayed"}
    OBVIOUS
  <2> HIDE DEF state
  <2>5. /\ queue' \in [Jobs -> QueuedJob]
        /\ AttemptsLeft'
        /\ queue'[slots[s].job].owner = NoSlot
        /\ \A k \in Jobs \ {slots[s].job} : queue'[k] = queue[k]
    BY <1>1, <1>2, <2>2, <2>3, <2>4, SettlingKeepsLocks
  <2>6. BusySlotHasRun'
    BY <1>1, <2>1 DEF QueueInv, BusySlotHasRun, RunOf, Runs, Moves
  <2>7. LockCurrent'
    BY <1>1, <2>1, <2>5, SettledKeepsLockCurrent DEF Moves
  <2> QED  BY <1>1, <2>1, <2>5, <2>6, <2>7 DEF QueueInv, Moves
<1>3. CASE ~HoldsLock(s)
  <2>1. Frees(s) /\ UNCHANGED queue
    BY <1>3, IdleFrees DEF MoveToFailed, QueueInv, ExecutionConstants
  <2> QED  BY <1>1, <2>1, FreeingKeepsQueueInv DEF QueueInv
<1> QED  BY <1>2, <1>3

LEMMA ReportFailureKeepsQueueInv ==
  ASSUME QueueInv, ExecutionConstants, NEW s \in Slots, ReportFailure(s)
  PROVE  QueueInv'
<1>1. Frees(s) /\ UNCHANGED queue
  BY IdleFrees DEF ReportFailure, QueueInv, ExecutionConstants
<1>2. slots[s].job \in Jobs
  BY DEF ReportFailure, QueueInv, BusySlotHasRun, RunOf, Runs
<1>3. deadLetterQueue' \subseteq Jobs
  BY <1>2 DEF ReportFailure, QueueInv
<1> QED  BY <1>1, <1>3, FreeingKeepsQueueInv

LEMMA ProcessorKeepsQueueInv ==
  ASSUME QueueInv, NEW s \in Slots, InProcessor(s)
  PROVE  QueueInv'
BY ProcessorMoves, MovingKeepsQueueInv DEF QueueInv

LEMMA InitQueueInv == ExecutionConstants /\ Init => QueueInv
BY DEF ExecutionConstants, Init, QueueInv, QueuedJob, JobStates, NotQueued, Slot, Places, ErrorKinds,
       Idle, BusySlotHasRun, AttemptsLeft, LockCurrent

LEMMA NextKeepsQueueInv ==
  ASSUME QueueInv, ExecutionConstants, [Next]_vars
  PROVE  QueueInv'
<1>1. ASSUME NEW j \in Jobs, Enqueue(j) \/ BackoffElapsed(j) \/ Remove(j) \/ StallCheck(j)
      PROVE  QueueInv'
  BY <1>1, JobStepKeepsQueueInv
<1>2. ASSUME NEW s \in Slots, LoseLock(s) \/ Crash(s) \/ Process(s)
      PROVE  QueueInv'
  BY <1>2, LoseLockKeepsQueueInv, CrashKeepsQueueInv, ProcessorKeepsQueueInv,
     CompleteKeepsQueueInv, MoveToFailedKeepsQueueInv, ReportFailureKeepsQueueInv
     DEF Process, InProcessor
<1>3. ASSUME NEW s \in Slots, NEW j \in Jobs, PickUp(s, j)
      PROVE  QueueInv'
  BY <1>3, PickUpKeepsQueueInv
<1>4. CASE UNCHANGED vars
  BY <1>4 DEF vars, QueueInv, BusySlotHasRun, RunOf, AttemptsLeft, LockCurrent, HoldsLock
<1> QED  BY <1>1, <1>2, <1>3, <1>4 DEF Next

-----------------------------------------------------------------------------
(* The tables.                                                             *)

(* Everything a step of the worker may do to the database.                 *)
TableStep(run) ==
  \/ InsertRun(run) /\ Dispatch(run)
  \/ InsertRun(run) /\ UNCHANGED dispatches
  \/ \E outcome \in Finished : FinishRun(run, outcome)

LEMMA ProcessorTableStep ==
  ASSUME QueueInv, NEW s \in Slots, InProcessor(s)
  PROVE  RunOf(s) \in Runs /\ (TableStep(RunOf(s)) \/ UNCHANGED ledgerVars)
<1>1. RunOf(s) \in Runs
  BY ProcessorMoves, BusySlot DEF QueueInv
<1>2. CASE Start(s)
  BY <1>1, <1>2 DEF Start, TableStep
<1>3. CASE HandlerReturns(s) \/ HandlerThrows(s)
  BY <1>1, <1>3 DEF HandlerReturns, HandlerThrows
<1>4. CASE Succeed(s)
  BY <1>1, <1>4 DEF Succeed, TableStep, Finished
<1>5. CASE Fail(s)
  BY <1>1, <1>5 DEF Fail, TableStep, Finished
<1> QED  BY <1>1, <1>2, <1>3, <1>4, <1>5 DEF InProcessor

LEMMA NextTableStep ==
  ASSUME QueueInv, [Next]_vars
  PROVE  (\E run \in Runs : TableStep(run)) \/ UNCHANGED ledgerVars
<1>1. CASE \E s \in Slots : InProcessor(s)
  BY <1>1, ProcessorTableStep
<1>2. CASE \E s \in Slots : Complete(s) \/ MoveToFailed(s) \/ ReportFailure(s)
  BY <1>2 DEF Complete, MoveToFailed, ReportFailure
<1>3. CASE \E s \in Slots : LoseLock(s) \/ Crash(s)
  BY <1>3 DEF LoseLock, Crash
<1>4. CASE \E s \in Slots, j \in Jobs : PickUp(s, j)
  BY <1>4 DEF PickUp
<1>5. CASE \E j \in Jobs : Enqueue(j) \/ BackoffElapsed(j) \/ Remove(j) \/ StallCheck(j)
  BY <1>5 DEF Enqueue, BackoffElapsed, Remove, StallCheck
<1>6. CASE UNCHANGED vars
  BY <1>6 DEF vars
<1> QED  BY <1>1, <1>2, <1>3, <1>4, <1>5, <1>6 DEF Next, Process, InProcessor

LEMMA InsertKeepsTableInv ==
  ASSUME TableInv, NEW run \in Runs, InsertRun(run), Dispatch(run) \/ UNCHANGED dispatches
  PROVE  TableInv'
<1>1. Ledger!LedgerTypeOK'
  BY DEF TableInv, Ledger!LedgerTypeOK, Ledger!Runs, Ledger!Statuses, Runs, InsertRun, Dispatch
<1>2. DispatchedAfterInsert' /\ AttemptDispatchedOnce'
  BY DEF TableInv, Ledger!LedgerTypeOK, Ledger!Runs, Runs, InsertRun, Dispatch,
         DispatchedAfterInsert, AttemptDispatchedOnce
<1>3. LedgerAgrees'
  BY DEF TableInv, Ledger!LedgerTypeOK, Ledger!Runs, Runs, InsertRun, LedgerAgrees, Finished
<1> QED  BY <1>1, <1>2, <1>3 DEF TableInv

LEMMA FinishKeepsTableInv ==
  ASSUME TableInv, NEW run \in Runs, NEW outcome \in Finished, FinishRun(run, outcome)
  PROVE  TableInv'
<1>1. Ledger!LedgerTypeOK'
  BY DEF TableInv, Ledger!LedgerTypeOK, Ledger!Runs, Ledger!Statuses, Ledger!Finished, Runs,
         Finished, FinishRun
<1>2. DispatchedAfterInsert' /\ AttemptDispatchedOnce'
  BY DEF TableInv, Ledger!LedgerTypeOK, Ledger!Runs, Runs, FinishRun, Finished,
         DispatchedAfterInsert, AttemptDispatchedOnce
<1>3. LedgerAgrees'
  <2>1. deadLetters' = {r \in Runs : status'[r] = "DEAD_LETTERED"}
    BY DEF TableInv, Ledger!LedgerTypeOK, Ledger!Runs, Runs, FinishRun, LedgerAgrees, Finished
  <2>2. ASSUME NEW r \in Runs
        PROVE  adapterHealth'[r] =
                 IF status'[r] \in Finished /\ r[1] \in SourceJobs THEN 1 ELSE 0
    BY DEF TableInv, Ledger!LedgerTypeOK, Ledger!Runs, Runs, FinishRun, LedgerAgrees, Finished
  <2> QED  BY <2>1, <2>2 DEF LedgerAgrees
<1> QED  BY <1>1, <1>2, <1>3 DEF TableInv

(* Dispatch counts never fall and finished runs stay as they are.          *)
LEMMA TableMonotone ==
  ASSUME TableInv, NEW run \in Runs, TableStep(run)
  PROVE  /\ \A r \in Runs : dispatches[r] > 0 => dispatches'[r] > 0
         /\ \A r \in Runs : status[r] \in Finished => status'[r] = status[r]
BY DEF TableInv, Ledger!LedgerTypeOK, Ledger!Runs, Runs, TableStep, InsertRun, Dispatch, FinishRun,
       Finished

LEMMA InitTableInv == ExecutionConstants /\ Init => TableInv
BY DEF Init, ExecutionConstants, Ledger!LedgerInit, TableInv, Ledger!LedgerTypeOK, Ledger!Runs, Ledger!Statuses,
       Runs, DispatchedAfterInsert, AttemptDispatchedOnce, LedgerAgrees, Finished

LEMMA NextKeepsTableInv ==
  ASSUME QueueInv, TableInv, [Next]_vars
  PROVE  TableInv'
<1>1. ASSUME NEW run \in Runs, TableStep(run)
      PROVE  TableInv'
  BY <1>1, InsertKeepsTableInv, FinishKeepsTableInv DEF TableStep
<1>2. CASE UNCHANGED ledgerVars
  BY <1>2 DEF ledgerVars, TableInv, Ledger!LedgerTypeOK, DispatchedAfterInsert,
              AttemptDispatchedOnce, LedgerAgrees
<1> QED  BY <1>1, <1>2, NextTableStep

-----------------------------------------------------------------------------
(* Slots at work.                                                          *)

(* What every step leaves true of the tables, as seen from the slots.      *)
Lasting ==
  /\ \A r \in Runs : dispatches[r] > 0 => dispatches'[r] > 0
  /\ \A r \in Runs : status[r] \in Finished => status'[r] = status[r]

LEMMA NextLasting ==
  ASSUME QueueInv, TableInv, [Next]_vars
  PROVE  Lasting
<1>1. CASE UNCHANGED ledgerVars
  BY <1>1 DEF ledgerVars, Lasting
<1>2. ASSUME NEW run \in Runs, TableStep(run)
      PROVE  Lasting
  BY <1>2, TableMonotone DEF Lasting
<1> QED  BY <1>1, <1>2, NextTableStep

SlotsInv == WorkingWasDispatched /\ ReturningSucceeded /\ OneSlotPerRun

(* A step after which nobody works who did not work on the same run before.*)
LEMMA NoNewWorker ==
  ASSUME QueueInv, SlotsInv, Lasting,
         \A t \in Slots : Working(t)' =>
           /\ Working(t)
           /\ RunOf(t)' = RunOf(t)
           /\ slots'[t].at = "returning" =>
                slots[t].at = "returning" \/ status'[RunOf(t)] = "SUCCEEDED"
  PROVE  SlotsInv'
<1>1. \A t \in Slots : Working(t) => RunOf(t) \in Runs
  BY BusySlot DEF Working
<1>2. WorkingWasDispatched'
  BY <1>1 DEF SlotsInv, WorkingWasDispatched, Lasting
<1>3. ReturningSucceeded'
  <2> SUFFICES ASSUME NEW t \in Slots, slots'[t].at = "returning"
               PROVE  status'[RunOf(t)'] = "SUCCEEDED"
    BY DEF ReturningSucceeded
  <2>1. Working(t)'
    BY DEF Working
  <2> QED  BY <1>1, <2>1 DEF SlotsInv, ReturningSucceeded, Lasting, Finished
<1>4. OneSlotPerRun'
  BY DEF SlotsInv, OneSlotPerRun
<1> QED  BY <1>2, <1>3, <1>4 DEF SlotsInv

(* The step that makes a slot work: the insert shows that nobody else has  *)
(* been dispatched for this run.                                           *)
LEMMA DispatchingKeepsSlotsInv ==
  ASSUME QueueInv, TableInv, SlotsInv, Lasting, NEW s \in Slots,
         slots[s].at = "starting",
         InsertRun(RunOf(s)), Dispatch(RunOf(s)), Advance(s, "handling")
  PROVE  SlotsInv'
<1>1. RunOf(s) \in Runs
  BY BusySlot
<1>2. Moves(s, "handling")
  BY AdvanceMoves DEF QueueInv, Places
<1>3. ~(dispatches[RunOf(s)] > 0) /\ dispatches'[RunOf(s)] > 0
  BY <1>1 DEF TableInv, Ledger!LedgerTypeOK, Ledger!Runs, Runs, DispatchedAfterInsert, InsertRun,
              Dispatch
<1>4. RunOf(s)' = RunOf(s)
  BY <1>2 DEF Moves, RunOf
<1>5. ASSUME NEW t \in Slots \ {s}, Working(t)'
      PROVE  /\ Working(t) /\ RunOf(t)' = RunOf(t) /\ slots'[t].at = slots[t].at
             /\ RunOf(t) \in Runs /\ dispatches[RunOf(t)] > 0 /\ RunOf(t) # RunOf(s)
  <2>1. Working(t) /\ RunOf(t)' = RunOf(t) /\ slots'[t].at = slots[t].at
    BY <1>2, <1>5 DEF Moves, RunOf, Working
  <2>2. RunOf(t) \in Runs /\ dispatches[RunOf(t)] > 0
    BY <2>1, BusySlot DEF SlotsInv, WorkingWasDispatched, Working
  <2> QED  BY <1>3, <2>1, <2>2
<1>6. WorkingWasDispatched'
  <2> SUFFICES ASSUME NEW t \in Slots, Working(t)'
               PROVE  dispatches'[RunOf(t)'] > 0
    BY DEF WorkingWasDispatched
  <2>1. CASE t = s
    BY <1>3, <1>4, <2>1
  <2>2. CASE t # s
    BY <1>5, <2>2 DEF Lasting
  <2> QED  BY <2>1, <2>2
<1>7. ReturningSucceeded'
  <2> SUFFICES ASSUME NEW t \in Slots, slots'[t].at = "returning"
               PROVE  status'[RunOf(t)'] = "SUCCEEDED"
    BY DEF ReturningSucceeded
  <2>1. t # s /\ Working(t)'
    BY <1>2 DEF Moves, Working
  <2> QED  BY <1>5, <2>1 DEF SlotsInv, ReturningSucceeded, Lasting, Finished
<1>8. OneSlotPerRun'
  <2> SUFFICES ASSUME NEW t \in Slots, NEW u \in Slots, Working(t)', Working(u)',
                      RunOf(t)' = RunOf(u)'
               PROVE  t = u
    BY DEF OneSlotPerRun
  <2>1. CASE t = s \/ u = s
    BY <1>4, <1>5, <2>1
  <2>2. CASE t # s /\ u # s
    BY <1>5, <2>2 DEF SlotsInv, OneSlotPerRun
  <2> QED  BY <2>1, <2>2
<1> QED  BY <1>6, <1>7, <1>8 DEF SlotsInv

LEMMA ProcessorKeepsSlotsInv ==
  ASSUME QueueInv, TableInv, SlotsInv, Lasting, NEW s \in Slots, InProcessor(s)
  PROVE  SlotsInv'
<1>1. slots \in [Slots -> Slot]
  BY DEF QueueInv
<1> DEFINE StaysAtWork(place) ==
      /\ Moves(s, place)
      /\ place \in {"succeeding", "failing", "returning", "throwing"}
      /\ slots[s].at \in {"handling", "succeeding", "failing"} \/ place = "throwing"
      /\ place = "returning" => status'[RunOf(s)] = "SUCCEEDED"
<1>2. ASSUME NEW place, StaysAtWork(place)
      PROVE  SlotsInv'
  <2> SUFFICES ASSUME NEW t \in Slots, Working(t)'
               PROVE  /\ Working(t)
                      /\ RunOf(t)' = RunOf(t)
                      /\ slots'[t].at = "returning" =>
                           slots[t].at = "returning" \/ status'[RunOf(t)] = "SUCCEEDED"
    BY NoNewWorker
  <2>1. CASE t = s
    BY <1>2, <2>1 DEF Working, RunOf, Moves
  <2>2. CASE t # s
    BY <1>2, <2>2 DEF Working, RunOf, Moves
  <2> QED  BY <2>1, <2>2
<1>3. CASE Start(s)
  <2>1. slots[s].at = "starting"
    BY <1>3 DEF Start
  <2>2. CASE InsertRun(RunOf(s)) /\ Dispatch(RunOf(s)) /\ Advance(s, "handling")
    BY <2>1, <2>2, DispatchingKeepsSlotsInv
  <2>3. CASE Escape(s)
    BY <1>1, <1>2, <2>3, EscapeMoves
  <2> QED  BY <1>3, <2>2, <2>3 DEF Start
<1>4. CASE HandlerReturns(s)
  BY <1>1, <1>2, <1>4, AdvanceMoves DEF HandlerReturns, Places
<1>5. CASE HandlerThrows(s)
  <2>1. slots[s].at = "handling" /\ \E error \in ErrorKinds : Catch(s, error)
    BY <1>5 DEF HandlerThrows, ErrorKinds
  <2> QED  BY <1>1, <1>2, <2>1, CatchMoves
<1>6. CASE Succeed(s)
  <2>1. slots[s].at = "succeeding"
    BY <1>6 DEF Succeed
  <2>2. CASE FinishRun(RunOf(s), "SUCCEEDED") /\ Advance(s, "returning")
    <3>1. status'[RunOf(s)] = "SUCCEEDED"
      BY <2>1, <2>2, BusySlot DEF FinishRun, TableInv, Ledger!LedgerTypeOK, Ledger!Runs, Runs
    <3> QED  BY <1>1, <1>2, <2>1, <2>2, <3>1, AdvanceMoves DEF Places
  <2>3. CASE Catch(s, "retryable")
    <3>1. Moves(s, "failing")
      BY <1>1, <2>3, CatchMoves DEF ErrorKinds
    <3> QED  BY <1>2, <2>1, <3>1
  <2> QED  BY <1>6, <2>2, <2>3 DEF Succeed
<1>7. CASE Fail(s)
  <2>1. CASE Advance(s, "throwing")
    BY <1>1, <1>2, <2>1, AdvanceMoves DEF Places
  <2>2. CASE Escape(s)
    BY <1>1, <1>2, <2>2, EscapeMoves
  <2> QED  BY <1>7, <2>1, <2>2 DEF Fail
<1> QED  BY <1>3, <1>4, <1>5, <1>6, <1>7 DEF InProcessor

LEMMA NextKeepsSlotsInv ==
  ASSUME QueueInv, TableInv, SlotsInv, ExecutionConstants, [Next]_vars
  PROVE  SlotsInv'
<1>1. Lasting
  BY NextLasting
<1>2. slots \in [Slots -> Slot]
  BY DEF QueueInv
<1>3. ASSUME NEW s \in Slots, InProcessor(s)
      PROVE  SlotsInv'
  BY <1>1, <1>3, ProcessorKeepsSlotsInv
<1> DEFINE Leaves(s) == /\ slots'[s].at \notin {"handling", "succeeding", "failing", "returning"}
                        /\ \A t \in Slots \ {s} : slots'[t] = slots[t]
<1>4. ASSUME NEW s \in Slots, Leaves(s)
      PROVE  SlotsInv'
  BY <1>1, <1>4, NoNewWorker DEF Working, RunOf
<1>5. CASE UNCHANGED slots
  BY <1>1, <1>5, NoNewWorker DEF Working, RunOf
<1>6. ASSUME NEW s \in Slots, Complete(s) \/ MoveToFailed(s) \/ ReportFailure(s) \/ Crash(s)
      PROVE  Leaves(s)
  <2>1. CASE Complete(s) \/ ReportFailure(s) \/ Crash(s)
    BY <1>2, <2>1 DEF Complete, ReportFailure, Crash, Idle
  <2>2. CASE MoveToFailed(s)
    BY <1>2, <2>2 DEF MoveToFailed, Advance, Idle, Slot
  <2> QED  BY <1>6, <2>1, <2>2
<1>7. ASSUME NEW s \in Slots, NEW j \in Jobs, PickUp(s, j)
      PROVE  Leaves(s)
  BY <1>2, <1>7 DEF PickUp
<1>8. CASE \E s \in Slots : LoseLock(s)
  BY <1>5, <1>8 DEF LoseLock
<1>9. CASE \E j \in Jobs : Enqueue(j) \/ BackoffElapsed(j) \/ Remove(j) \/ StallCheck(j)
  BY <1>5, <1>9 DEF Enqueue, BackoffElapsed, Remove, StallCheck
<1>10. CASE UNCHANGED vars
  BY <1>5, <1>10 DEF vars
<1> HIDE DEF Leaves
<1> QED  BY <1>3, <1>4, <1>6, <1>7, <1>8, <1>9, <1>10 DEF Next, Process, InProcessor

-----------------------------------------------------------------------------
(* Completed jobs.                                                         *)

LEMMA CompletingKeepsCompleted ==
  ASSUME QueueInv, SlotsInv, CompletedHasSucceededRun, Lasting, ExecutionConstants,
         NEW s \in Slots, Complete(s) \/ MoveToFailed(s), UNCHANGED status
  PROVE  CompletedHasSucceededRun'
<1>1. slots[s].at \in {"returning", "throwing"}
  BY DEF Complete, MoveToFailed
<1>2. slots[s].job \in Jobs /\ slots[s].attempt \in 1 .. MaxAttempts
  BY <1>1, BusySlot
<1>3. CASE ~HoldsLock(s)
  <2>1. UNCHANGED queue
    BY <1>3 DEF Complete, MoveToFailed
  <2> QED  BY <2>1 DEF CompletedHasSucceededRun
<1>4. CASE Complete(s) /\ HoldsLock(s)
  <2>1. Settle(s, "completed") /\ slots[s].at = "returning"
    BY <1>4 DEF Complete
  <2>2. /\ queue'[slots[s].job].made = slots[s].attempt
        /\ \A k \in Jobs \ {slots[s].job} : queue'[k] = queue[k]
    BY <1>4, <2>1, SettlingKeepsLocks
  <2>3. status[<<slots[s].job, slots[s].attempt>>] = "SUCCEEDED"
    BY <2>1 DEF SlotsInv, ReturningSucceeded, RunOf
  <2> QED  BY <1>2, <2>2, <2>3 DEF CompletedHasSucceededRun
<1>5. CASE MoveToFailed(s) /\ HoldsLock(s)
  <2> DEFINE state == IF GivesUp(s) THEN "failed" ELSE "delayed"
  <2>1. Settle(s, state) /\ slots[s].at = "throwing"
    BY <1>5 DEF MoveToFailed
  <2>2. state = "delayed" => slots[s].attempt < MaxAttempts
    BY <1>2, <1>5, <2>1 DEF GivesUp, QueueInv, LockCurrent, ExecutionConstants
  <2>3. state \in {"failed", "delayed"}
    OBVIOUS
  <2> HIDE DEF state
  <2>4. /\ queue'[slots[s].job].state = state
        /\ \A k \in Jobs \ {slots[s].job} : queue'[k] = queue[k]
    BY <1>5, <2>1, <2>2, <2>3, SettlingKeepsLocks
  <2> QED  BY <2>3, <2>4 DEF CompletedHasSucceededRun
<1> QED  BY <1>3, <1>4, <1>5

(* Every other step leaves completed jobs and their attempt counts alone.  *)
LEMMA NextKeepsCompleted ==
  ASSUME QueueInv, TableInv, SlotsInv, CompletedHasSucceededRun, ExecutionConstants, [Next]_vars
  PROVE  CompletedHasSucceededRun'
<1>1. Lasting
  BY NextLasting
<1>2. ASSUME NEW s \in Slots, Complete(s) \/ MoveToFailed(s)
      PROVE  CompletedHasSucceededRun'
  BY <1>1, <1>2, CompletingKeepsCompleted DEF Complete, MoveToFailed, ledgerVars
<1>3. ASSUME \A j \in Jobs : queue'[j].state = "completed" =>
               queue[j].state = "completed" /\ queue'[j].made = queue[j].made
      PROVE  CompletedHasSucceededRun'
  BY <1>1, <1>3 DEF CompletedHasSucceededRun, Lasting, Finished, Runs
<1>4. ASSUME NEW j \in Jobs, Enqueue(j) \/ BackoffElapsed(j) \/ Remove(j) \/ StallCheck(j)
      PROVE  CompletedHasSucceededRun'
  <2>1. queue'[j].state # "completed" /\ \A k \in Jobs \ {j} : queue'[k] = queue[k]
    BY <1>4, JobStepEffect
  <2> QED  BY <1>3, <2>1
<1>5. ASSUME NEW s \in Slots, NEW j \in Jobs, PickUp(s, j)
      PROVE  CompletedHasSucceededRun'
  <2>1. queue'[j].state # "completed" /\ \A k \in Jobs \ {j} : queue'[k] = queue[k]
    BY <1>5 DEF PickUp, QueueInv, QueuedJob
  <2> QED  BY <1>3, <2>1
<1>6. CASE UNCHANGED queue
  BY <1>3, <1>6
<1>7. ASSUME NEW s \in Slots, InProcessor(s) \/ ReportFailure(s)
      PROVE  UNCHANGED queue
  BY <1>7, ProcessorMoves DEF ReportFailure, QueueInv
<1>8. ASSUME NEW s \in Slots, LoseLock(s) \/ Crash(s)
      PROVE  CompletedHasSucceededRun'
  <2>1. slots[s].at # "idle"
    BY <1>8 DEF LoseLock, Crash
  <2>2. \/ UNCHANGED queue
        \/ queue' = [queue EXCEPT ![slots[s].job].owner = NoSlot]
    BY <1>8 DEF LoseLock, Crash
  <2> QED  BY <1>3, <1>6, <2>1, <2>2, UnlockingKeepsLocks
<1>9. CASE UNCHANGED vars
  BY <1>6, <1>9 DEF vars
<1> QED  BY <1>2, <1>4, <1>5, <1>6, <1>7, <1>8, <1>9 DEF Next, Process, InProcessor

-----------------------------------------------------------------------------
(* Theorems.                                                               *)

LEMMA InitIndInv == ExecutionConstants /\ Init => IndInv
<1> SUFFICES ASSUME ExecutionConstants, Init
             PROVE  IndInv
  OBVIOUS
<1>1. QueueInv /\ TableInv
  BY InitQueueInv, InitTableInv
<1>2. WorkInv
  BY DEF Init, Idle, NotQueued, WorkInv, WorkingWasDispatched, Working, ReturningSucceeded,
         OneSlotPerRun, CompletedHasSucceededRun
<1> QED  BY <1>1, <1>2 DEF IndInv

LEMMA NextIndInv == ExecutionConstants /\ IndInv /\ [Next]_vars => IndInv'
<1> SUFFICES ASSUME ExecutionConstants, IndInv, [Next]_vars
             PROVE  IndInv'
  OBVIOUS
<1>1. QueueInv /\ TableInv /\ SlotsInv /\ CompletedHasSucceededRun
  BY DEF IndInv, WorkInv, SlotsInv
<1>2. QueueInv' /\ TableInv'
  BY <1>1, NextKeepsQueueInv, NextKeepsTableInv
<1>3. SlotsInv' /\ CompletedHasSucceededRun'
  BY <1>1, NextKeepsSlotsInv, NextKeepsCompleted
<1> QED  BY <1>2, <1>3 DEF IndInv, WorkInv, SlotsInv

(* The inductive invariant holds in every reachable state.                 *)
THEOREM Inductive == Spec => []IndInv
BY InitIndInv, NextIndInv, ExecutionConstants, PTL DEF Spec

(* The state has its type: in particular no run is ever opened for an      *)
(* attempt outside 1 .. maxAttempts, the range job_runs admits.            *)
THEOREM TypeCorrect == Spec => []TypeOK
<1>1. IndInv => TypeOK
  BY DEF IndInv, QueueInv, TableInv, TypeOK
<1> QED  BY <1>1, Inductive, PTL

(* Redelivery never invokes the handler of one attempt twice.              *)
THEOREM DispatchedOnce == Spec => []AttemptDispatchedOnce
<1>1. IndInv => AttemptDispatchedOnce
  BY DEF IndInv, TableInv
<1> QED  BY <1>1, Inductive, PTL

(* No two slots ever work on the same run.                                 *)
THEOREM RunsAreExclusive == Spec => []OneSlotPerRun
<1>1. IndInv => OneSlotPerRun
  BY DEF IndInv, WorkInv
<1> QED  BY <1>1, Inductive, PTL

(* The run, dead-letter and health tables always agree.                    *)
THEOREM TablesAgree == Spec => []LedgerAgrees
<1>1. IndInv => LedgerAgrees
  BY DEF IndInv, TableInv
<1> QED  BY <1>1, Inductive, PTL

(* What the queue calls completed has a SUCCEEDED run.                     *)
THEOREM CompletedSucceeded == Spec => []CompletedHasSucceededRun
<1>1. IndInv => CompletedHasSucceededRun
  BY DEF IndInv, WorkInv
<1> QED  BY <1>1, Inductive, PTL

(* A finished run keeps its outcome.                                       *)
THEOREM FinishedStaysFinished == Spec => FinishedRunIsFinal
<1>1. IndInv /\ [Next]_vars =>
        [\A run \in Runs : status[run] \in Finished => status'[run] = status[run]]_vars
  BY NextLasting DEF IndInv, Lasting
<1> QED  BY <1>1, Inductive, PTL DEF Spec, FinishedRunIsFinal

(* Every behaviour of the worker is a behaviour of the abstract ledger.    *)
THEOREM WorkerImplementsLedger == Spec => ImplementsLedger
<1>1. Init => Ledger!LedgerInit
  BY DEF Init
<1>2. IndInv /\ [Next]_vars => [Ledger!LedgerNext]_(Ledger!ledgerVars)
  <2> SUFFICES ASSUME IndInv, [Next]_vars
               PROVE  Ledger!LedgerNext \/ UNCHANGED ledgerVars
    BY DEF ledgerVars, Ledger!ledgerVars
  <2>1. ASSUME NEW run \in Runs, TableStep(run)
        PROVE  Ledger!LedgerNext
    <3>1. CASE InsertRun(run) /\ (Dispatch(run) \/ UNCHANGED dispatches)
      <4>1. Ledger!Open(run)
        BY <3>1 DEF InsertRun, Dispatch, Ledger!Open
      <4> QED  BY <4>1 DEF Ledger!LedgerNext, Ledger!Runs, Runs
    <3>2. ASSUME NEW outcome \in Finished, FinishRun(run, outcome)
          PROVE  Ledger!Finish(run, outcome)
      <4>1. adapterHealth' = IF Ledger!HasHealth(run)
                             THEN [adapterHealth EXCEPT ![run] = @ + 1] ELSE adapterHealth
        BY <3>2 DEF IndInv, TableInv, Ledger!LedgerTypeOK, Ledger!Runs, Runs, FinishRun,
                    Ledger!HasHealth
      <4>2. deadLetters' = IF outcome = "DEAD_LETTERED" THEN deadLetters \cup {run} ELSE deadLetters
        BY <3>2 DEF FinishRun
      <4> QED  BY <3>2, <4>1, <4>2 DEF FinishRun, Ledger!Finish
    <3> QED  BY <2>1, <3>1, <3>2 DEF TableStep, Ledger!LedgerNext, Ledger!Runs, Runs,
                                     Ledger!Finished, Finished
  <2> QED  BY <2>1, NextTableStep DEF IndInv
<1> QED  BY <1>1, <1>2, Inductive, PTL DEF Spec, ImplementsLedger, Ledger!LedgerSpec

-------------------------------------------------------------------------------
(* Retries. The worker and BullMQ agree on which attempt of a job is the   *)
(* last, though the two decide apart: the processor before its fail(),     *)
(* BullMQ when the error reaches it, with a lost reply, a lost lock or a   *)
(* second slot in between. The invariant says of a run whose slot has      *)
(* discarded its job that it is over: whatever becomes of the slot, nobody *)
(* is left to record it FAILED.                                            *)

(* Nobody works on the run, and nobody will.                               *)
Over(run) ==
  /\ status[run] \notin {"ABSENT", "FAILED"}
  /\ \A t \in Slots : Working(t) => RunOf(t) # run

FailedMayRetry ==
  \A run \in Runs : status[run] = "FAILED" => run[2] < MaxAttempts

(* What a slot knows of its run when it has discarded its job.             *)
DiscardedForCause ==
  \A s \in Slots :
    /\ slots[s].at \in {"starting", "handling", "succeeding"} => ~slots[s].discarded
    /\ slots[s].at = "handling" => status[RunOf(s)] = "RUNNING"
    /\ slots[s].at = "failing" /\ slots[s].discarded =>
         slots[s].error = "fatal" /\ status[RunOf(s)] = "RUNNING"
    /\ slots[s].at = "throwing" /\ slots[s].discarded /\ HoldsLock(s) =>
         queue[slots[s].job].doomed \/ Over(RunOf(s))

FailedIsOver ==
  \A j \in Jobs : queue[j].state = "failed" /\ ~queue[j].doomed =>
    \E n \in 1 .. MaxAttempts : queue[j].made = n /\ (n = MaxAttempts \/ Over(<<j, n>>))

RetryInv == FailedMayRetry /\ DiscardedForCause /\ FailedIsOver

-----------------------------------------------------------------------------
(* Runs that are over stay so.                                             *)

(* A run is opened once, and then changed only by a slot that works on it. *)
LEMMA StatusMoves ==
  ASSUME QueueInv, TableInv, [Next]_vars, NEW run \in Runs, status'[run] # status[run]
  PROVE  \/ status[run] = "ABSENT" /\ status'[run] = "RUNNING"
         \/ \E s \in Slots : Working(s) /\ RunOf(s) = run /\ (Succeed(s) \/ Fail(s))
<1>1. PICK s \in Slots : InProcessor(s)
  <2>1. CASE \E s \in Slots : Complete(s) \/ MoveToFailed(s) \/ ReportFailure(s)
    BY <2>1 DEF Complete, MoveToFailed, ReportFailure, ledgerVars
  <2>2. CASE \E s \in Slots : LoseLock(s) \/ Crash(s)
    BY <2>2 DEF LoseLock, Crash, ledgerVars
  <2>3. CASE \E s \in Slots, j \in Jobs : PickUp(s, j)
    BY <2>3 DEF PickUp, ledgerVars
  <2>4. CASE \E j \in Jobs : Enqueue(j) \/ BackoffElapsed(j) \/ Remove(j) \/ StallCheck(j)
    BY <2>4 DEF Enqueue, BackoffElapsed, Remove, StallCheck, ledgerVars
  <2>5. CASE UNCHANGED vars
    BY <2>5 DEF vars, ledgerVars
  <2> QED  BY <2>1, <2>2, <2>3, <2>4, <2>5 DEF Next, Process, InProcessor
<1>2. status \in [Runs -> {"ABSENT", "RUNNING"} \cup Finished]
  BY DEF TableInv, Ledger!LedgerTypeOK, Ledger!Runs, Ledger!Statuses, Ledger!Finished, Runs, Finished
<1>3. CASE Start(s)
  BY <1>2, <1>3 DEF Start, InsertRun, ledgerVars
<1>4. CASE HandlerReturns(s) \/ HandlerThrows(s)
  BY <1>4 DEF HandlerReturns, HandlerThrows, ledgerVars
<1>5. CASE Succeed(s) \/ Fail(s)
  <2>1. Working(s)
    BY <1>5 DEF Succeed, Fail, Working
  <2>2. RunOf(s) = run
    <3>1. (\E outcome \in Finished : FinishRun(RunOf(s), outcome)) \/ UNCHANGED ledgerVars
      BY <1>5 DEF Succeed, Fail, Finished
    <3> QED  BY <1>2, <3>1 DEF FinishRun, ledgerVars
  <2> QED  BY <1>5, <2>1, <2>2
<1> QED  BY <1>1, <1>3, <1>4, <1>5 DEF InProcessor

(* Whoever works after a step worked on the same run before it, or has     *)
(* just opened it.                                                         *)
LEMMA WorkersMove ==
  ASSUME QueueInv, TableInv, ExecutionConstants, [Next]_vars, NEW t \in Slots, Working(t)'
  PROVE  /\ RunOf(t)' = RunOf(t)
         /\ \/ Working(t)
            \/ slots[t].at = "starting" /\ status[RunOf(t)] = "ABSENT"
<1>1. slots \in [Slots -> Slot]
  BY DEF QueueInv
<1>2. ASSUME NEW s \in Slots, InProcessor(s)
      PROVE  /\ RunOf(t)' = RunOf(t)
             /\ Working(t) \/ (slots[t].at = "starting" /\ status[RunOf(t)] = "ABSENT")
  <2>1. PICK place \in Places : Moves(s, place)
    BY <1>1, <1>2, ProcessorMoves
  <2>2. RunOf(t)' = RunOf(t)
    BY <2>1 DEF Moves, RunOf
  <2>3. CASE t # s
    BY <2>1, <2>2, <2>3 DEF Moves, Working
  <2>4. CASE t = s
    <3>1. CASE Start(s)
      <4>1. CASE InsertRun(RunOf(s)) /\ Dispatch(RunOf(s)) /\ Advance(s, "handling")
        BY <2>2, <2>4, <3>1, <4>1 DEF InsertRun, Start
      <4>2. CASE Escape(s)
        BY <1>1, <2>4, <4>2, EscapeMoves DEF Moves, Working
      <4> QED  BY <3>1, <4>1, <4>2 DEF Start
    <3>2. CASE HandlerReturns(s) \/ HandlerThrows(s) \/ Succeed(s) \/ Fail(s)
      BY <2>2, <2>4, <3>2 DEF HandlerReturns, HandlerThrows, Succeed, Fail, Working
    <3> QED  BY <1>2, <3>1, <3>2 DEF InProcessor
  <2> QED  BY <2>2, <2>3, <2>4
<1>3. ASSUME NEW s \in Slots, Complete(s) \/ MoveToFailed(s) \/ ReportFailure(s) \/ Crash(s)
      PROVE  Working(t) /\ RunOf(t)' = RunOf(t)
  <2>1. /\ slots'[s].at \in {"idle", "reporting"}
        /\ \A u \in Slots \ {s} : slots'[u] = slots[u]
    BY <1>1, <1>3 DEF Complete, MoveToFailed, ReportFailure, Crash, Advance, Idle, Slot
  <2> QED  BY <2>1 DEF Working, RunOf
<1>4. ASSUME NEW s \in Slots, NEW j \in Jobs, PickUp(s, j)
      PROVE  Working(t) /\ RunOf(t)' = RunOf(t)
  BY <1>1, <1>4 DEF PickUp, Working, RunOf
<1>5. CASE UNCHANGED slots
  BY <1>5 DEF Working, RunOf
<1>6. ASSUME NEW s \in Slots, LoseLock(s)
      PROVE  UNCHANGED slots
  BY <1>6 DEF LoseLock
<1>7. ASSUME NEW j \in Jobs, Enqueue(j) \/ BackoffElapsed(j) \/ Remove(j) \/ StallCheck(j)
      PROVE  UNCHANGED slots
  BY <1>7 DEF Enqueue, BackoffElapsed, Remove, StallCheck
<1> QED  BY <1>2, <1>3, <1>4, <1>5, <1>6, <1>7 DEF Next, Process, InProcessor, vars

LEMMA OverLasts ==
  ASSUME QueueInv, TableInv, ExecutionConstants, [Next]_vars, NEW run \in Runs, Over(run)
  PROVE  Over(run)'
<1>1. status'[run] = status[run]
  BY StatusMoves DEF Over
<1>2. ASSUME NEW t \in Slots, Working(t)'
      PROVE  RunOf(t)' # run
  BY <1>2, WorkersMove DEF Over
<1> QED  BY <1>1, <1>2 DEF Over

-----------------------------------------------------------------------------
(* The recorded outcomes.                                                  *)

LEMMA NextKeepsFailedMayRetry ==
  ASSUME QueueInv, TableInv, ExecutionConstants, RetryInv, [Next]_vars
  PROVE  FailedMayRetry'
<1> SUFFICES ASSUME NEW run \in Runs, status'[run] = "FAILED", status[run] # "FAILED"
             PROVE  run[2] < MaxAttempts
  BY DEF RetryInv, FailedMayRetry
<1>1. PICK s \in Slots : Working(s) /\ RunOf(s) = run /\ (Succeed(s) \/ Fail(s))
  BY StatusMoves
<1>2. status \in [Runs -> {"ABSENT", "RUNNING"} \cup Finished]
  BY DEF TableInv, Ledger!LedgerTypeOK, Ledger!Runs, Ledger!Statuses, Ledger!Finished, Runs, Finished
<1>3. CASE Succeed(s)
  BY <1>1, <1>2, <1>3 DEF Succeed, FinishRun, ledgerVars
<1>4. CASE Fail(s)
  <2>1. ~DeadLettered(slots[s].error, slots[s].attempt)
    BY <1>1, <1>2, <1>4 DEF Fail, FinishRun, ledgerVars
  <2>2. slots[s].attempt = run[2] /\ slots[s].attempt \in 1 .. MaxAttempts
    BY <1>1, BusySlot DEF RunOf, Working
  <2> QED  BY <2>1, <2>2 DEF DeadLettered, ExecutionConstants
<1> QED  BY <1>1, <1>3, <1>4

-----------------------------------------------------------------------------
(* The slots.                                                              *)

(* DiscardedForCause for one slot.                                         *)
ForCause(s) ==
  /\ slots[s].at \in {"starting", "handling", "succeeding"} => ~slots[s].discarded
  /\ slots[s].at = "handling" => status[RunOf(s)] = "RUNNING"
  /\ slots[s].at = "failing" /\ slots[s].discarded =>
       slots[s].error = "fatal" /\ status[RunOf(s)] = "RUNNING"
  /\ slots[s].at = "throwing" /\ slots[s].discarded /\ HoldsLock(s) =>
       queue[slots[s].job].doomed \/ Over(RunOf(s))

(* A step that leaves the lock of a slot alone, or takes it away.          *)
LockKept(t) ==
  slots[t].at \notin {"idle", "reporting"} /\ HoldsLock(t)' =>
    HoldsLock(t) /\ (queue[slots[t].job].doomed => queue'[slots[t].job].doomed)

(* A slot that is where it was: the others at most record what became of   *)
(* their own runs.                                                         *)
LEMMA StayingForCause ==
  ASSUME QueueInv, TableInv, SlotsInv, ExecutionConstants, [Next]_vars,
         NEW t \in Slots, ForCause(t), slots'[t] = slots[t], LockKept(t)
  PROVE  ForCause(t)'
<1>1. RunOf(t)' = RunOf(t)
  BY DEF RunOf
<1>2. CASE slots[t].at \in {"handling", "failing"} /\ status[RunOf(t)] = "RUNNING"
  <2>0. ~(Succeed(t) \/ Fail(t))
    <3>1. slots \in [Slots -> Slot]
      BY DEF QueueInv
    <3>2. Succeed(t) => slots'[t].at \in {"returning", "failing"} /\ slots[t].at = "succeeding"
      BY <3>1 DEF Succeed, Advance, Catch, Slot
    <3>3. Fail(t) => slots'[t].at = "throwing" /\ slots[t].at = "failing"
      BY <3>1 DEF Fail, Advance, Escape, Slot
    <3> QED  BY <3>2, <3>3
  <2>1. RunOf(t) \in Runs /\ Working(t)
    BY <1>2, BusySlot DEF Working
  <2>2. status'[RunOf(t)] = status[RunOf(t)]
    BY <1>2, <2>0, <2>1, StatusMoves DEF SlotsInv, OneSlotPerRun
  <2> QED  BY <1>1, <1>2, <2>2 DEF ForCause
<1>3. CASE slots[t].at = "throwing" /\ slots[t].discarded /\ HoldsLock(t)'
  <2>1. RunOf(t) \in Runs
    BY <1>3, BusySlot
  <2>2. Over(RunOf(t)) => Over(RunOf(t))'
    BY <1>1, <2>1, OverLasts
  <2> QED  BY <1>1, <1>3, <2>2 DEF ForCause, LockKept
<1> QED  BY <1>1, <1>2, <1>3 DEF ForCause

(* The steps of the processor: the slot that takes the step.               *)
LEMMA ProcessorForCause ==
  ASSUME QueueInv, TableInv, SlotsInv, ExecutionConstants, [Next]_vars,
         NEW s \in Slots, ForCause(s), InProcessor(s)
  PROVE  ForCause(s)'
<1>1. slots \in [Slots -> Slot]
  BY DEF QueueInv
<1>2. RunOf(s) \in Runs /\ slots[s] \in Slot
  BY <1>1, ProcessorMoves, BusySlot
<1>3. status \in [Runs -> {"ABSENT", "RUNNING"} \cup Finished]
  BY DEF TableInv, Ledger!LedgerTypeOK, Ledger!Runs, Ledger!Statuses, Ledger!Finished, Runs, Finished
<1>4. ASSUME NEW place \in Places, Advance(s, place)
      PROVE  /\ slots'[s].at = place /\ slots'[s].discarded = slots[s].discarded
             /\ RunOf(s)' = RunOf(s)
  BY <1>1, <1>4 DEF Advance, Slot, RunOf
<1>5. ASSUME Escape(s)
      PROVE  /\ slots'[s].at = "throwing" /\ slots'[s].discarded = slots[s].discarded
             /\ RunOf(s)' = RunOf(s)
  BY <1>1, <1>5 DEF Escape, Slot, RunOf
<1>6. ASSUME NEW error \in ErrorKinds, Catch(s, error)
      PROVE  /\ slots'[s].at = "failing" /\ slots'[s].error = error
             /\ slots'[s].discarded = (error = "fatal") /\ RunOf(s)' = RunOf(s)
  BY <1>1, <1>6 DEF Catch, Slot, RunOf
<1>7. CASE Start(s)
  <2>1. ~slots[s].discarded
    BY <1>7 DEF Start, ForCause
  <2>2. CASE InsertRun(RunOf(s)) /\ Advance(s, "handling")
    <3>1. status'[RunOf(s)] = "RUNNING"
      BY <1>2, <1>3, <2>2 DEF InsertRun
    <3> QED  BY <1>4, <2>1, <2>2, <3>1 DEF ForCause, Places
  <2>3. CASE Escape(s)
    BY <1>5, <2>1, <2>3 DEF ForCause
  <2> QED  BY <1>7, <2>2, <2>3 DEF Start
<1>8. CASE HandlerReturns(s)
  BY <1>4, <1>8 DEF HandlerReturns, ForCause, Places
<1>9. CASE HandlerThrows(s)
  <2>1. status[RunOf(s)] = "RUNNING" /\ UNCHANGED status
    BY <1>9 DEF HandlerThrows, ForCause, ledgerVars
  <2>2. PICK error \in ErrorKinds : Catch(s, error)
    BY <1>9 DEF HandlerThrows, ErrorKinds
  <2> QED  BY <1>6, <2>1, <2>2 DEF ForCause
<1>10. CASE Succeed(s)
  <2>1. CASE Advance(s, "returning")
    BY <1>4, <2>1 DEF ForCause, Places
  <2>2. CASE Catch(s, "retryable")
    BY <1>6, <2>2 DEF ForCause, ErrorKinds
  <2> QED  BY <1>10, <2>1, <2>2 DEF Succeed
<1>11. CASE Fail(s)
  <2>1. /\ slots'[s].at = "throwing" /\ slots'[s].discarded = slots[s].discarded
        /\ RunOf(s)' = RunOf(s)
    BY <1>4, <1>5, <1>11 DEF Fail, Places
  <2>2. CASE slots[s].discarded
    <3>1. status'[RunOf(s)] \notin {"ABSENT", "FAILED"}
      <4>1. slots[s].error = "fatal" /\ status[RunOf(s)] = "RUNNING"
        BY <1>11, <2>2 DEF Fail, ForCause
      <4>2. FinishRun(RunOf(s), "DEAD_LETTERED") \/ UNCHANGED ledgerVars
        BY <1>11, <4>1 DEF Fail, DeadLettered
      <4> QED  BY <1>2, <1>3, <4>1, <4>2 DEF FinishRun, ledgerVars
    <3>2. ASSUME NEW t \in Slots, Working(t)', RunOf(t)' = RunOf(s)
          PROVE  FALSE
      <4>1. t # s
        BY <2>1, <3>2 DEF Working
      <4>2. RunOf(t) = RunOf(s) /\ (Working(t) \/ status[RunOf(s)] = "ABSENT")
        BY <3>2, WorkersMove
      <4>3. Working(s) /\ status[RunOf(s)] # "ABSENT"
        BY <1>11, <2>2 DEF Fail, Working, ForCause
      <4> QED  BY <4>1, <4>2, <4>3 DEF SlotsInv, OneSlotPerRun
    <3> QED  BY <2>1, <3>1, <3>2 DEF ForCause, Over
  <2>3. CASE ~slots[s].discarded
    BY <2>1, <2>3 DEF ForCause
  <2> QED  BY <2>2, <2>3
<1> QED  BY <1>7, <1>8, <1>9, <1>10, <1>11 DEF InProcessor

(* A slot that leaves the processor, or is not in it.                      *)
LEMMA ElsewhereForCause ==
  ASSUME NEW t \in Slots, slots'[t].at \in {"idle", "reporting", "returning"}
  PROVE  ForCause(t)'
BY DEF ForCause

(* What becomes of a job that a slot lets go of.                           *)
LEMMA UnlockedJob ==
  ASSUME QueueInv, NEW j \in Jobs, queue' = [queue EXCEPT ![j].owner = NoSlot]
  PROVE  /\ queue'[j].owner = NoSlot
         /\ \A k \in Jobs : /\ queue'[k].state = queue[k].state /\ queue'[k].made = queue[k].made
                            /\ queue'[k].doomed = queue[k].doomed
         /\ \A k \in Jobs \ {j} : queue'[k] = queue[k]
BY DEF QueueInv, QueuedJob

LEMMA SettledJob ==
  ASSUME QueueInv, NEW s \in Slots, slots[s].at \notin {"idle", "reporting"}, HoldsLock(s),
         NEW state, Settle(s, state)
  PROVE  /\ queue'[slots[s].job].owner = NoSlot
         /\ queue'[slots[s].job].state = state
         /\ queue'[slots[s].job].made = slots[s].attempt
         /\ queue'[slots[s].job].doomed = queue[slots[s].job].doomed
         /\ \A k \in Jobs \ {slots[s].job} : queue'[k] = queue[k]
<1>1. slots[s].job \in Jobs /\ slots[s].attempt = queue[slots[s].job].made + 1
  BY BusySlot DEF QueueInv, LockCurrent
<1>2. queue[slots[s].job] \in QueuedJob
  BY <1>1 DEF QueueInv
<1> DEFINE settled == [queue[slots[s].job] EXCEPT
                         !.state = state, !.made = queue[slots[s].job].made + 1, !.owner = NoSlot]
<1>3. /\ settled.state = state /\ settled.owner = NoSlot
      /\ settled.made = slots[s].attempt /\ settled.doomed = queue[slots[s].job].doomed
  BY <1>1, <1>2 DEF QueuedJob
<1>4. queue' = [queue EXCEPT ![slots[s].job] = settled]
  BY DEF Settle
<1> HIDE DEF settled
<1> QED  BY <1>1, <1>3, <1>4 DEF QueueInv

LEMMA NextKeepsDiscardedForCause ==
  ASSUME QueueInv, TableInv, SlotsInv, ExecutionConstants, DiscardedForCause, [Next]_vars
  PROVE  DiscardedForCause'
<1> SUFFICES ASSUME NEW t \in Slots
             PROVE  ForCause(t)'
  BY DEF DiscardedForCause, ForCause
<1>1. ForCause(t)
  BY DEF DiscardedForCause, ForCause
<1>2. slots \in [Slots -> Slot] /\ queue \in [Jobs -> QueuedJob] /\ NoSlot \notin Slots
  BY DEF QueueInv, ExecutionConstants
<1>3. slots[t].at # "idle" => slots[t].job \in Jobs
  BY BusySlot
<1>4. ASSUME NEW s \in Slots, InProcessor(s)
      PROVE  ForCause(t)'
  <2>1. CASE t = s
    BY <1>1, <1>4, <2>1, ProcessorForCause
  <2>2. CASE t # s
    <3>1. slots'[t] = slots[t] /\ UNCHANGED queue
      BY <1>2, <1>4, <2>2, ProcessorMoves DEF Moves
    <3> QED  BY <1>1, <3>1, StayingForCause DEF LockKept, HoldsLock
  <2> QED  BY <2>1, <2>2
<1>5. ASSUME NEW s \in Slots, Complete(s) \/ MoveToFailed(s) \/ ReportFailure(s) \/ Crash(s)
      PROVE  ForCause(t)'
  <2>1. /\ slots'[s].at \in {"idle", "reporting"} /\ slots[s].at # "idle"
        /\ \A u \in Slots \ {s} : slots'[u] = slots[u]
    BY <1>2, <1>5 DEF Complete, MoveToFailed, ReportFailure, Crash, Advance, Idle, Slot
  <2>2. CASE t = s
    BY <2>1, <2>2, ElsewhereForCause
  <2>3. CASE t # s
    <3>1. slots'[t] = slots[t]
      BY <2>1, <2>3
    <3>2. LockKept(t)
      <4>1. CASE UNCHANGED queue
        BY <3>1, <4>1 DEF LockKept, HoldsLock
      <4>2. CASE /\ queue'[slots[s].job].owner = NoSlot
                 /\ \A k \in Jobs \ {slots[s].job} : queue'[k] = queue[k]
        BY <1>2, <1>3, <3>1, <4>2 DEF LockKept, HoldsLock
      <4>3. CASE HoldsLock(s) /\ \E state : Settle(s, state) /\ slots[s].at \notin {"idle", "reporting"}
        BY <4>2, <4>3, SettledJob
      <4>4. CASE queue' = [queue EXCEPT ![slots[s].job].owner = NoSlot]
        BY <2>1, <4>2, <4>4, UnlockedJob, BusySlot
      <4> QED  BY <1>5, <4>1, <4>3, <4>4 DEF Complete, MoveToFailed, ReportFailure, Crash
    <3> QED  BY <1>1, <3>1, <3>2, StayingForCause
  <2> QED  BY <2>2, <2>3
<1>6. ASSUME NEW s \in Slots, LoseLock(s)
      PROVE  ForCause(t)'
  <2>1. UNCHANGED slots /\ slots[s].job \in Jobs
    BY <1>6, BusySlot DEF LoseLock
  <2>2. /\ queue'[slots[s].job].owner = NoSlot
        /\ \A k \in Jobs \ {slots[s].job} : queue'[k] = queue[k]
    BY <1>6, <2>1, UnlockedJob DEF LoseLock
  <2>3. LockKept(t)
    BY <1>2, <1>3, <2>1, <2>2 DEF LockKept, HoldsLock
  <2> QED  BY <1>1, <2>1, <2>3, StayingForCause
<1>7. ASSUME NEW s \in Slots, NEW j \in Jobs, PickUp(s, j)
      PROVE  ForCause(t)'
  <2>1. /\ queue'[j].owner = s /\ queue'[j].doomed = queue[j].doomed
        /\ \A k \in Jobs \ {j} : queue'[k] = queue[k]
    BY <1>2, <1>7 DEF PickUp, QueuedJob
  <2>2. CASE t = s
    <3>1. /\ slots'[s].at = IF queue[j].doomed THEN "throwing" ELSE "starting"
          /\ slots'[s].job = j /\ slots'[s].discarded = queue[j].doomed
      BY <1>2, <1>7 DEF PickUp
    <3>2. queue[j].doomed \in BOOLEAN
      BY <1>2 DEF QueuedJob
    <3> QED  BY <2>1, <2>2, <3>1, <3>2 DEF ForCause
  <2>3. CASE t # s
    <3>1. slots'[t] = slots[t]
      BY <1>2, <1>7, <2>3 DEF PickUp
    <3>2. LockKept(t)
      BY <1>3, <2>1, <2>3, <3>1 DEF LockKept, HoldsLock
    <3> QED  BY <1>1, <3>1, <3>2, StayingForCause
  <2> QED  BY <2>2, <2>3
<1>8. ASSUME NEW j \in Jobs, Enqueue(j) \/ BackoffElapsed(j) \/ Remove(j) \/ StallCheck(j)
      PROVE  ForCause(t)'
  <2>1. UNCHANGED slots
    BY <1>8 DEF Enqueue, BackoffElapsed, Remove, StallCheck
  <2>2. /\ \A k \in Jobs \ {j} : queue'[k] = queue[k]
        /\ queue'[j].owner \in {queue[j].owner, NoSlot}
        /\ queue[j].state = "active" => queue[j].owner = NoSlot
    BY <1>8, JobStepEffect
  <2>3. LockKept(t)
    BY <1>2, <1>3, <2>1, <2>2 DEF LockKept, HoldsLock, QueueInv, LockCurrent
  <2> QED  BY <1>1, <2>1, <2>3, StayingForCause
<1>9. CASE UNCHANGED vars
  BY <1>1, <1>9, StayingForCause DEF vars, LockKept, HoldsLock
<1> QED  BY <1>4, <1>5, <1>6, <1>7, <1>8, <1>9 DEF Next, Process, InProcessor

-----------------------------------------------------------------------------
(* Jobs that failed for good.                                              *)

LEMMA NextKeepsFailedIsOver ==
  ASSUME QueueInv, TableInv, SlotsInv, ExecutionConstants, DiscardedForCause, FailedIsOver,
         [Next]_vars
  PROVE  FailedIsOver'
<1> SUFFICES ASSUME NEW k \in Jobs, queue'[k].state = "failed", ~queue'[k].doomed
             PROVE  \E n \in 1 .. MaxAttempts :
                      queue'[k].made = n /\ (n = MaxAttempts \/ Over(<<k, n>>)')
  BY DEF FailedIsOver
<1> DEFINE Lasts == \E n \in 1 .. MaxAttempts :
                      queue'[k].made = n /\ (n = MaxAttempts \/ Over(<<k, n>>)')
<1>1. ASSUME queue[k].state = "failed", ~queue[k].doomed, queue'[k].made = queue[k].made
      PROVE  Lasts
  <2>1. PICK n \in 1 .. MaxAttempts : queue[k].made = n /\ (n = MaxAttempts \/ Over(<<k, n>>))
    BY <1>1 DEF FailedIsOver
  <2>2. <<k, n>> \in Runs
    BY DEF Runs
  <2>3. Over(<<k, n>>) => Over(<<k, n>>)'
    BY <2>2, OverLasts
  <2> QED  BY <1>1, <2>1, <2>3
<1>2. slots \in [Slots -> Slot] /\ queue \in [Jobs -> QueuedJob]
  BY DEF QueueInv
<1>3. CASE queue'[k] = queue[k]
  BY <1>1, <1>3
<1>4. ASSUME NEW s \in Slots, Complete(s) \/ MoveToFailed(s)
      PROVE  Lasts
  <2>1. slots[s].at \in {"returning", "throwing"} /\ slots[s].job \in Jobs
        /\ slots[s].attempt \in 1 .. MaxAttempts
    BY <1>4, BusySlot DEF Complete, MoveToFailed
  <2>2. CASE ~HoldsLock(s)
    BY <1>3, <1>4, <2>2 DEF Complete, MoveToFailed
  <2>3. CASE HoldsLock(s) /\ k # slots[s].job
    BY <1>3, <1>4, <2>1, <2>3, SettledJob DEF Complete, MoveToFailed
  <2>4. CASE HoldsLock(s) /\ k = slots[s].job
    <3>1. slots[s].at = "throwing" /\ GivesUp(s) /\ Settle(s, "failed")
      BY <1>4, <2>1, <2>4, SettledJob DEF Complete, MoveToFailed
    <3>2. queue'[k].made = slots[s].attempt /\ queue'[k].doomed = queue[k].doomed
      BY <2>1, <2>4, <3>1, SettledJob
    <3>3. CASE slots[s].discarded
      <4>1. Over(RunOf(s)) /\ RunOf(s) \in Runs
        BY <2>1, <2>4, <3>1, <3>2, <3>3, BusySlot DEF DiscardedForCause
      <4>2. RunOf(s) = <<k, slots[s].attempt>>
        BY <2>4 DEF RunOf
      <4>3. ASSUME NEW n, n = slots[s].attempt
            PROVE  Over(<<k, n>>)'
        BY <4>1, <4>2, <4>3, OverLasts
      <4> QED  BY <2>1, <3>2, <4>3
    <3>4. CASE queue[k].made + 1 >= MaxAttempts
      <4>1. slots[s].attempt = queue[k].made + 1 /\ queue[k].made \in Nat
        BY <1>2, <2>1, <2>4 DEF QueueInv, LockCurrent, QueuedJob, ExecutionConstants
      <4> QED  BY <2>1, <3>2, <3>4, <4>1 DEF ExecutionConstants
    <3> QED  BY <2>4, <3>1, <3>3, <3>4 DEF GivesUp
  <2> QED  BY <2>2, <2>3, <2>4
<1>5. ASSUME NEW s \in Slots, LoseLock(s) \/ Crash(s)
      PROVE  Lasts
  <2>1. slots[s].job \in Jobs
    BY <1>5, BusySlot DEF LoseLock, Crash
  <2>2. UNCHANGED queue \/ queue' = [queue EXCEPT ![slots[s].job].owner = NoSlot]
    BY <1>5 DEF LoseLock, Crash
  <2> QED  BY <1>1, <1>3, <2>1, <2>2, UnlockedJob
<1>6. ASSUME NEW j \in Jobs, Enqueue(j) \/ BackoffElapsed(j) \/ Remove(j) \/ StallCheck(j)
      PROVE  queue'[k] = queue[k]
  BY <1>6, JobStepEffect
<1>7. ASSUME NEW s \in Slots, NEW j \in Jobs, PickUp(s, j)
      PROVE  queue'[k] = queue[k]
  BY <1>2, <1>7 DEF PickUp, QueuedJob
<1>8. ASSUME NEW s \in Slots, InProcessor(s) \/ ReportFailure(s)
      PROVE  queue'[k] = queue[k]
  BY <1>2, <1>8, ProcessorMoves DEF ReportFailure
<1>9. CASE UNCHANGED vars
  BY <1>3, <1>9 DEF vars
<1> QED  BY <1>3, <1>4, <1>5, <1>6, <1>7, <1>8, <1>9 DEF Next, Process, InProcessor

-----------------------------------------------------------------------------
(* Theorems.                                                               *)

LEMMA InitRetryInv == ExecutionConstants /\ Init => RetryInv
BY DEF ExecutionConstants, Init, Ledger!LedgerInit, Ledger!Runs, Runs, RetryInv, FailedMayRetry,
       DiscardedForCause, FailedIsOver, Idle, NotQueued

LEMMA NextRetryInv == ExecutionConstants /\ IndInv /\ RetryInv /\ [Next]_vars => RetryInv'
<1> SUFFICES ASSUME ExecutionConstants, IndInv, RetryInv, [Next]_vars
             PROVE  RetryInv'
  OBVIOUS
<1>1. QueueInv /\ TableInv /\ SlotsInv /\ DiscardedForCause /\ FailedIsOver
  BY DEF IndInv, WorkInv, SlotsInv, RetryInv
<1> QED  BY <1>1, NextKeepsFailedMayRetry, NextKeepsDiscardedForCause, NextKeepsFailedIsOver
            DEF RetryInv

(* A slot that has discarded its job leaves a run that is over.            *)
THEOREM RetriesInductive == Spec => []RetryInv
BY InitRetryInv, NextRetryInv, Inductive, ExecutionConstants, PTL DEF Spec

(* A run belongs to one slot, which is dispatched once for it.             *)
THEOREM AttemptsExclusive == Spec => []AttemptsAreExclusive
<1>1. IndInv => AttemptsAreExclusive
  BY DEF IndInv, TableInv, WorkInv, AttemptsAreExclusive
<1> QED  BY <1>1, Inductive, PTL

(* The queue and the tables tell the same story of every job.              *)
THEOREM QueueTablesAgree == Spec => []QueueAndTablesAgree
<1>1. ASSUME RetryInv, ExecutionConstants
      PROVE  AnnouncedRetryFollows
  <2> SUFFICES ASSUME NEW j \in Jobs, queue[j].state = "failed", ~queue[j].doomed
               PROVE  status[<<j, queue[j].made>>] # "FAILED"
    BY DEF AnnouncedRetryFollows
  <2>1. PICK n \in 1 .. MaxAttempts : queue[j].made = n /\ (n = MaxAttempts \/ Over(<<j, n>>))
    BY <1>1 DEF RetryInv, FailedIsOver
  <2>2. <<j, n>> \in Runs /\ <<j, n>>[2] = n
    BY DEF Runs
  <2>3. CASE n = MaxAttempts
    <3>1. ~(n < MaxAttempts)
      BY <2>3, <1>1 DEF ExecutionConstants
    <3> QED  BY <1>1, <2>1, <2>2, <3>1 DEF RetryInv, FailedMayRetry
  <2>4. CASE Over(<<j, n>>)
    BY <2>1, <2>4 DEF Over
  <2> QED  BY <2>1, <2>3, <2>4
<1>2. ASSUME IndInv, RetryInv, ExecutionConstants
      PROVE  QueueAndTablesAgree
  BY <1>1, <1>2 DEF IndInv, TableInv, WorkInv, QueueAndTablesAgree
<1>3. IndInv /\ RetryInv => QueueAndTablesAgree
  BY <1>2, ExecutionConstants
<1> QED  BY <1>3, Inductive, RetriesInductive, PTL
===============================================================================
