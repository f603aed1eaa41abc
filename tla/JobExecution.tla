---------------------------- MODULE JobExecution ----------------------------
(***************************************************************************)
(* The job processor of the worker (apps/worker/src/runtime.ts) between    *)
(* the BullMQ queue that hands it jobs and the database job store          *)
(* (apps/worker/src/database-job-store.ts) that records what became of     *)
(* them.                                                                   *)
(*                                                                         *)
(* A slot is one unit of worker concurrency, of this or another worker     *)
(* process.  The processor is asynchronous: every await is a step of its   *)
(* own, so other slots, lock expiry, crashes and lost replies come in      *)
(* between.  BullMQ is external and is modelled by what the processor      *)
(* relies on: unique job ids, a lock per active job, a stalled-job check   *)
(* and the attempts counter.                                               *)
(***************************************************************************)
EXTENDS Naturals

CONSTANTS
  Jobs, SourceJobs, MaxAttempts,
  Slots,             \* units of concurrency over all worker processes
  NoSlot, NoJob,     \* "nobody" and "nothing"
  MaxStalledCount,   \* stalls after which BullMQ gives a job up
  Faults             \* which of FaultKinds the environment may show

FaultKinds ==
  {"crash",      \* a worker process dies, or Redis never sees its final call
   "lock",       \* a live slot fails to renew its lock in time
   "database",   \* a statement or transaction fails, or its reply is lost
   "redis",      \* the dead-letter queue refuses an entry
   "retention"}  \* a settled job is dropped from Redis and its id is free again

ASSUME ExecutionConstants ==
  /\ SourceJobs \subseteq Jobs
  /\ MaxAttempts \in Nat \ {0}
  /\ MaxStalledCount \in Nat
  /\ NoSlot \notin Slots
  /\ NoJob \notin Jobs
  /\ Faults \subseteq FaultKinds

VARIABLES
  queue,          \* BullMQ's record of every job
  slots,          \* what each slot is doing
  deadLetterQueue,\* jobs with an entry in the Redis dead-letter queue
  status, adapterHealth, deadLetters, dispatches   \* see JobRunLedger

ledgerVars == <<status, adapterHealth, deadLetters, dispatches>>
vars == <<queue, slots, deadLetterQueue, ledgerVars>>

Ledger == INSTANCE JobRunLedger WITH
  status <- status, adapterHealth <- adapterHealth, deadLetters <- deadLetters,
  dispatches <- dispatches

Runs     == Jobs \X (1 .. MaxAttempts)
Finished == {"SUCCEEDED", "FAILED", "DEAD_LETTERED"}

-----------------------------------------------------------------------------
(* State.                                                                  *)

JobStates == {"absent", "waiting", "delayed", "active", "completed", "failed"}

(* made: attempts BullMQ has counted; stalled: times the stall check found *)
(* the job unlocked; doomed: too many of those; owner: who holds the lock. *)
QueuedJob ==
  [state : JobStates, made : 0 .. MaxAttempts, stalled : 0 .. MaxStalledCount + 1,
   doomed : BOOLEAN, owner : Slots \cup {NoSlot}]

NotQueued ==
  [state |-> "absent", made |-> 0, stalled |-> 0, doomed |-> FALSE, owner |-> NoSlot]

(* Where a slot is: awaiting the insert of its run, in the handler,        *)
(* awaiting succeed() or fail(), handing its result or its error to        *)
(* BullMQ, or in the 'failed' listener.                                    *)
Places ==
  {"idle", "starting", "handling", "succeeding", "failing",
   "returning", "throwing", "reporting"}

(* "plain" is any error that is not a WorkerJobError.                      *)
ErrorKinds == {"none", "retryable", "fatal", "plain"}

Slot ==
  [at : Places, job : Jobs \cup {NoJob}, attempt : 0 .. MaxAttempts,
   error : ErrorKinds, discarded : BOOLEAN]

Idle == [at |-> "idle", job |-> NoJob, attempt |-> 0, error |-> "none", discarded |-> FALSE]

RunOf(s) == <<slots[s].job, slots[s].attempt>>

HoldsLock(s) == queue[slots[s].job].owner = s

TypeOK ==
  /\ queue \in [Jobs -> QueuedJob]
  /\ slots \in [Slots -> Slot]
  /\ deadLetterQueue \subseteq Jobs
  /\ Ledger!LedgerTypeOK

Init ==
  /\ queue = [j \in Jobs |-> NotQueued]
  /\ slots = [s \in Slots |-> Idle]
  /\ deadLetterQueue = {}
  /\ Ledger!LedgerInit

-----------------------------------------------------------------------------
(* BullMQ: what happens to a job outside the processor.                    *)

(* Adding a job whose id is still known to Redis changes nothing.          *)
Enqueue(j) ==
  /\ queue[j].state = "absent"
  /\ queue' = [queue EXCEPT ![j].state = "waiting"]
  /\ UNCHANGED <<slots, deadLetterQueue, ledgerVars>>

BackoffElapsed(j) ==
  /\ queue[j].state = "delayed"
  /\ queue' = [queue EXCEPT ![j].state = "waiting"]
  /\ UNCHANGED <<slots, deadLetterQueue, ledgerVars>>

Remove(j) ==
  /\ "retention" \in Faults
  /\ queue[j].state \in {"completed", "failed"}
  /\ queue' = [queue EXCEPT ![j] = NotQueued]
  /\ UNCHANGED <<slots, deadLetterQueue, ledgerVars>>

(* A bug: stalls are not counted.                                          *)
StallsUnlimited(stalls) == FALSE

StallLimitExceeded(stalls) == stalls > MaxStalledCount

(* An active job nobody holds the lock of goes back to the wait list, at   *)
(* the same attempt; past the limit the next worker only fails it.         *)
StallCheck(j) ==
  /\ queue[j].state = "active"
  /\ queue[j].owner = NoSlot
  /\ LET stalls == IF queue[j].stalled > MaxStalledCount THEN queue[j].stalled
                   ELSE queue[j].stalled + 1
     IN  queue' = [queue EXCEPT ![j] = [@ EXCEPT
               !.state = "waiting", !.stalled = stalls, !.doomed = StallLimitExceeded(stalls)]]
  /\ UNCHANGED <<slots, deadLetterQueue, ledgerVars>>

LoseLock(s) ==
  /\ "lock" \in Faults
  /\ slots[s].at \notin {"idle", "reporting"}
  /\ HoldsLock(s)
  /\ queue' = [queue EXCEPT ![slots[s].job].owner = NoSlot]
  /\ UNCHANGED <<slots, deadLetterQueue, ledgerVars>>

(* A dead slot's lock runs out; until then nobody can touch the job.       *)
Crash(s) ==
  /\ "crash" \in Faults
  /\ slots[s].at # "idle"
  /\ queue' = IF HoldsLock(s) THEN [queue EXCEPT ![slots[s].job].owner = NoSlot] ELSE queue
  /\ slots' = [slots EXCEPT ![s] = Idle]
  /\ UNCHANGED <<deadLetterQueue, ledgerVars>>

-----------------------------------------------------------------------------
(* The processor.                                                          *)

AttemptNumber(made) == made + 1

(* A slot takes a waiting job.  A doomed job is failed with BullMQ's own   *)
(* unrecoverable error, without entering the processor.                    *)
PickUp(s, j) ==
  /\ slots[s].at = "idle"
  /\ queue[j].state = "waiting"
  /\ queue' = [queue EXCEPT ![j] = [@ EXCEPT !.state = "active", !.owner = s]]
  /\ slots' = [slots EXCEPT ![s] =
       [at        |-> IF queue[j].doomed THEN "throwing" ELSE "starting",
        job       |-> j,
        attempt   |-> AttemptNumber(queue[j].made),
        error     |-> IF queue[j].doomed THEN "plain" ELSE "none",
        discarded |-> queue[j].doomed]]
  /\ UNCHANGED <<deadLetterQueue, ledgerVars>>

Advance(s, place) == slots' = [slots EXCEPT ![s].at = place]

(* An error that escapes from the processor without being classified.      *)
Escape(s) == slots' = [slots EXCEPT ![s] = [@ EXCEPT !.at = "throwing", !.error = "plain"]]

(* The catch block up to the await of fail(): classify, discard.           *)
Catch(s, error) ==
  slots' = [slots EXCEPT ![s] = [@ EXCEPT
    !.at = "failing", !.error = error, !.discarded = (error = "fatal")]]

(* A bug: a run that is there is opened again.                             *)
InsertRunUpsert(run) ==
  /\ status' = [status EXCEPT ![run] = "RUNNING"]
  /\ UNCHANGED <<adapterHealth, deadLetters>>

InsertRun(run) ==
  /\ status[run] = "ABSENT"
  /\ status' = [status EXCEPT ![run] = "RUNNING"]
  /\ UNCHANGED <<adapterHealth, deadLetters>>

Dispatch(run) == dispatches' = [dispatches EXCEPT ![run] = @ + 1]

(* jobRunStore.start, awaited outside the try: whatever goes wrong here    *)
(* escapes, a conflict on (idempotency_key, attempt) included.             *)
Start(s) ==
  LET run == RunOf(s) IN
  /\ slots[s].at = "starting"
  /\ \/ InsertRun(run) /\ Dispatch(run) /\ Advance(s, "handling")
     \/ /\ "database" \in Faults
        /\ InsertRun(run)
        /\ Escape(s)
        /\ UNCHANGED dispatches
     \/ /\ status[run] # "ABSENT" \/ "database" \in Faults
        /\ Escape(s)
        /\ UNCHANGED ledgerVars
  /\ UNCHANGED <<queue, deadLetterQueue>>

HandlerReturns(s) ==
  /\ slots[s].at = "handling"
  /\ Advance(s, "succeeding")
  /\ UNCHANGED <<queue, deadLetterQueue, ledgerVars>>

HandlerThrows(s) ==
  /\ slots[s].at = "handling"
  /\ \E error \in {"retryable", "fatal"} : Catch(s, error)
  /\ UNCHANGED <<queue, deadLetterQueue, ledgerVars>>

(* A bug: the health record is outside of the guard.                       *)
FinishRunHealthAnyway(run, outcome) ==
  /\ status' = [status EXCEPT ![run] = IF @ = "RUNNING" THEN outcome ELSE @]
  /\ adapterHealth' = [adapterHealth EXCEPT ![run] = IF run[1] \in SourceJobs THEN @ + 1 ELSE @]
  /\ deadLetters' =
       deadLetters \cup {r \in {run} : outcome = "DEAD_LETTERED" /\ status[run] = "RUNNING"}
  /\ UNCHANGED dispatches

(* A bug: the dead letter is forgotten.                                    *)
FinishRunNoDeadLetter(run, outcome) ==
  /\ status[run] = "RUNNING"
  /\ status' = [status EXCEPT ![run] = outcome]
  /\ adapterHealth' = [adapterHealth EXCEPT ![run] = IF run[1] \in SourceJobs THEN @ + 1 ELSE @]
  /\ UNCHANGED <<deadLetters, dispatches>>

(* One transaction: the guarded status update, the health record and the   *)
(* dead-letter record.                                                     *)
FinishRun(run, outcome) ==
  /\ status[run] = "RUNNING"
  /\ status' = [status EXCEPT ![run] = outcome]
  /\ adapterHealth' = [adapterHealth EXCEPT ![run] = IF run[1] \in SourceJobs THEN @ + 1 ELSE @]
  /\ deadLetters' = deadLetters \cup {r \in {run} : outcome = "DEAD_LETTERED"}
  /\ UNCHANGED dispatches

(* A bug: the processor does not wait for the store.                       *)
SucceedNotAwaited(s) ==
  /\ slots[s].at = "succeeding"
  /\ \/ FinishRun(RunOf(s), "SUCCEEDED")
     \/ "database" \in Faults /\ UNCHANGED ledgerVars
  /\ Advance(s, "returning")
  /\ UNCHANGED <<queue, deadLetterQueue>>

(* jobRunStore.succeed, awaited inside the try: a failure of it, or a lost *)
(* reply, is caught and treated as an unexpected job failure.              *)
Succeed(s) ==
  LET run == RunOf(s) IN
  /\ slots[s].at = "succeeding"
  /\ \/ FinishRun(run, "SUCCEEDED") /\ Advance(s, "returning")
     \/ "database" \in Faults /\ FinishRun(run, "SUCCEEDED") /\ Catch(s, "retryable")
     \/ /\ status[run] # "RUNNING" \/ "database" \in Faults
        /\ Catch(s, "retryable")
        /\ UNCHANGED ledgerVars
  /\ UNCHANGED <<queue, deadLetterQueue>>

(* A bug: off by one.                                                      *)
DeadLetteredTooLate(error, attempt) == error = "fatal" \/ attempt > MaxAttempts

DeadLettered(error, attempt) == error = "fatal" \/ attempt >= MaxAttempts

(* jobRunStore.fail, awaited in the catch block: when it throws, its plain *)
(* error replaces the job's, but the discard flag stays.                   *)
Fail(s) ==
  LET run     == RunOf(s)
      outcome == IF DeadLettered(slots[s].error, slots[s].attempt)
                 THEN "DEAD_LETTERED" ELSE "FAILED"
  IN
  /\ slots[s].at = "failing"
  /\ \/ FinishRun(run, outcome) /\ Advance(s, "throwing")
     \/ "database" \in Faults /\ FinishRun(run, outcome) /\ Escape(s)
     \/ /\ status[run] # "RUNNING" \/ "database" \in Faults
        /\ Escape(s)
        /\ UNCHANGED ledgerVars
  /\ UNCHANGED <<queue, deadLetterQueue>>

-----------------------------------------------------------------------------
(* How the processor's result reaches BullMQ.  Without the lock the call   *)
(* is refused and the worker goes on to its next job.                      *)

Settle(s, state) ==
  LET job == queue[slots[s].job] IN
  queue' = [queue EXCEPT ![slots[s].job] =
              [job EXCEPT !.state = state, !.made = job.made + 1, !.owner = NoSlot]]

Complete(s) ==
  /\ slots[s].at = "returning"
  /\ IF HoldsLock(s) THEN Settle(s, "completed") ELSE UNCHANGED queue
  /\ slots' = [slots EXCEPT ![s] = Idle]
  /\ UNCHANGED <<deadLetterQueue, ledgerVars>>

(* BullMQ retries while attempts are left, unless the error is final or    *)
(* the processor has discarded the job.                                    *)
GivesUp(s) == slots[s].discarded \/ queue[slots[s].job].made + 1 >= MaxAttempts

MoveToFailed(s) ==
  /\ slots[s].at = "throwing"
  /\ IF HoldsLock(s)
     THEN /\ Settle(s, IF GivesUp(s) THEN "failed" ELSE "delayed")
          /\ Advance(s, "reporting")
     ELSE /\ slots' = [slots EXCEPT ![s] = Idle]
          /\ UNCHANGED queue
  /\ UNCHANGED <<deadLetterQueue, ledgerVars>>

(* The 'failed' listener: a dead-letter entry, unless a retry will follow. *)
(* job.attemptsMade is by now the number of this attempt.                  *)
IsFinal(s) == slots[s].error = "fatal" \/ slots[s].attempt >= MaxAttempts

ReportFailure(s) ==
  /\ slots[s].at = "reporting"
  /\ \/ IsFinal(s) /\ deadLetterQueue' = deadLetterQueue \cup {slots[s].job}
     \/ (~IsFinal(s) \/ "redis" \in Faults) /\ UNCHANGED deadLetterQueue
  /\ slots' = [slots EXCEPT ![s] = Idle]
  /\ UNCHANGED <<queue, ledgerVars>>

Process(s) ==
  \/ Start(s) \/ HandlerReturns(s) \/ HandlerThrows(s) \/ Succeed(s) \/ Fail(s)
  \/ Complete(s) \/ MoveToFailed(s) \/ ReportFailure(s)

Next ==
  \/ \E j \in Jobs : Enqueue(j) \/ BackoffElapsed(j) \/ Remove(j) \/ StallCheck(j)
  \/ \E s \in Slots : LoseLock(s) \/ Crash(s) \/ Process(s)
  \/ \E s \in Slots, j \in Jobs : PickUp(s, j)

Spec == Init /\ [][Next]_vars

(* Every await of the processor is answered, timers fire and waiting jobs  *)
(* are served in turn.  The call that moves a failed job on under its lock *)
(* is strongly fair: neither a crash nor a lost lock precedes every single *)
(* one of them.                                                            *)
Fairness ==
  /\ \A j \in Jobs : WF_vars(BackoffElapsed(j)) /\ WF_vars(StallCheck(j))
  /\ \A j \in Jobs : SF_vars(\E s \in Slots : PickUp(s, j))
  /\ \A s \in Slots : WF_vars(Process(s)) /\ SF_vars(MoveToFailed(s) /\ HoldsLock(s))

FairSpec == Spec /\ Fairness

-----------------------------------------------------------------------------
(* Properties.                                                             *)

(* However a job is redelivered after crashes, lost locks and lost replies,*)
(* the handler of one attempt is invoked at most once: the unique run row, *)
(* inserted before the handler, is what stops a second slot.               *)
AttemptDispatchedOnce == \A run \in Runs : dispatches[run] <= 1

Working(s) == slots[s].at \in {"handling", "succeeding", "failing", "returning"}

(* Two slots never work on the same run, so the slot that finishes a run   *)
(* is the one that opened it, even when the job's lock has moved on.       *)
OneSlotPerRun ==
  \A s, t \in Slots : Working(s) /\ Working(t) /\ RunOf(s) = RunOf(t) => s = t

(* A run belongs to one slot: its handler is invoked at most once, and     *)
(* only the slot that invoked it records what became of it.                *)
AttemptsAreExclusive == AttemptDispatchedOnce /\ OneSlotPerRun

(* The three tables agree: exactly the dead-lettered runs have a durable   *)
(* dead letter, and a run has a health record exactly when it is finished  *)
(* and belongs to a source; a lost reply that makes the worker finish a    *)
(* run again adds nothing.                                                 *)
LedgerAgrees ==
  /\ deadLetters = {run \in Runs : status[run] = "DEAD_LETTERED"}
  /\ \A run \in Runs :
       adapterHealth[run] = IF status[run] \in Finished /\ run[1] \in SourceJobs THEN 1 ELSE 0

(* What the queue calls completed the ledger calls succeeded: the last     *)
(* attempt BullMQ counted has a SUCCEEDED run.                             *)
CompletedHasSucceededRun ==
  \A j \in Jobs : queue[j].state = "completed" =>
    /\ queue[j].made \in 1 .. MaxAttempts
    /\ status[<<j, queue[j].made>>] = "SUCCEEDED"

(* A finished run keeps its outcome: a success whose reply was lost is not *)
(* turned into the failure the worker then reports.                        *)
FinishedRunIsFinal ==
  [][\A run \in Runs : status[run] \in Finished => status'[run] = status[run]]_vars

(* A job that fails for good has a durable dead letter for its last        *)
(* attempt (ARCHITECTURE.md:160, OPERATIONS_RUNBOOK.md:124).               *)
FinalFailureIsDurable ==
  \A j \in Jobs : queue[j].state = "failed" => <<j, queue[j].made>> \in deadLetters

(* A run that is recorded FAILED, not DEAD_LETTERED, announces a retry: a  *)
(* job fails for good after one only if BullMQ gave it up for its stalls.  *)
AnnouncedRetryFollows ==
  \A j \in Jobs : queue[j].state = "failed" /\ ~queue[j].doomed =>
    status[<<j, queue[j].made>>] # "FAILED"

(* The queue in Redis and the tables, which no transaction spans, tell the *)
(* same story of every job: the tables agree with each other, a completed  *)
(* job has succeeded, and a job that failed for good announced no retry.   *)
QueueAndTablesAgree == LedgerAgrees /\ CompletedHasSucceededRun /\ AnnouncedRetryFollows

(* The worker implements the ledger.                                       *)
ImplementsLedger == Ledger!LedgerSpec

(* Every job that is added settles, however its workers crash, lose their  *)
(* locks or lose the database: retries and stalls are both bounded.        *)
EveryJobSettles ==
  \A j \in Jobs : queue[j].state = "waiting" ~> queue[j].state \in {"completed", "failed"}
=============================================================================
