---------------------------- MODULE JobRunLedger ----------------------------
(***************************************************************************)
(* What the database keeps of the worker's jobs: the abstract contract of  *)
(* the job_runs, adapter_health and dead_letter_jobs tables.               *)
(*                                                                         *)
(* A run is one attempt of one job, identified by the unique key           *)
(* (idempotency_key, attempt).  A run is opened once, handed to its        *)
(* handler at most once, and finished at most once; finishing it writes    *)
(* the status, the health record of its source and, for a final failure,   *)
(* the dead-letter record in one transaction.                              *)
(***************************************************************************)
EXTENDS Naturals

CONSTANTS
  Jobs,         \* idempotency keys of jobs
  SourceJobs,   \* those that ingest a registered source with a known adapter
  MaxAttempts   \* the attempts budget of a job

VARIABLES
  status,         \* job_runs.status of every run, "ABSENT" before its insert
  adapterHealth,  \* number of adapter_health rows written for a run
  deadLetters,    \* runs with a dead_letter_jobs row
  dispatches      \* how often a run's handler has been invoked

ledgerVars == <<status, adapterHealth, deadLetters, dispatches>>

Runs     == Jobs \X (1 .. MaxAttempts)
Finished == {"SUCCEEDED", "FAILED", "DEAD_LETTERED"}
Statuses == {"ABSENT", "RUNNING"} \cup Finished

HasHealth(run) == run[1] \in SourceJobs

LedgerTypeOK ==
  /\ status \in [Runs -> Statuses]
  /\ adapterHealth \in [Runs -> Nat]
  /\ deadLetters \subseteq Runs
  /\ dispatches \in [Runs -> Nat]

LedgerInit ==
  /\ status = [run \in Runs |-> "ABSENT"]
  /\ adapterHealth = [run \in Runs |-> 0]
  /\ deadLetters = {}
  /\ dispatches = [run \in Runs |-> 0]

(* The insert of a run row; the handler is invoked only when the worker    *)
(* learns that its insert was the one that succeeded.                      *)
Open(run) ==
  /\ status[run] = "ABSENT"
  /\ status' = [status EXCEPT ![run] = "RUNNING"]
  /\ dispatches' \in {dispatches, [dispatches EXCEPT ![run] = @ + 1]}
  /\ UNCHANGED <<adapterHealth, deadLetters>>

Finish(run, outcome) ==
  /\ status[run] = "RUNNING"
  /\ status' = [status EXCEPT ![run] = outcome]
  /\ adapterHealth' =
       IF HasHealth(run) THEN [adapterHealth EXCEPT ![run] = @ + 1] ELSE adapterHealth
  /\ deadLetters' =
       IF outcome = "DEAD_LETTERED" THEN deadLetters \cup {run} ELSE deadLetters
  /\ UNCHANGED dispatches

LedgerNext ==
  \E run \in Runs :
    \/ Open(run)
    \/ \E outcome \in Finished : Finish(run, outcome)

LedgerSpec == LedgerInit /\ [][LedgerNext]_ledgerVars
=============================================================================
