----------------------------- MODULE OutboxPump -----------------------------
(***************************************************************************)
(* The transactional outbox: an administrator's resynchronisation request  *)
(* inserts a job_outbox row (apps/web .../admin/resync/route.ts), and the  *)
(* pump of every worker process (apps/worker/src/outbox.ts) adds the row's *)
(* job to the queue and then marks the row published.                      *)
(*                                                                         *)
(* availableAt is kept as an order: due is the sequence of unpublished     *)
(* rows whose time has come, backedOff the set of those that wait after a  *)
(* failure.  A flush is asynchronous; between its statements other pumps   *)
(* run, calls fail, replies are lost and the process may die.              *)
(***************************************************************************)
EXTENDS Naturals, Sequences, SequencesExt

CONSTANTS
  Rows,          \* outbox rows that may be requested
  ValidRows,     \* those whose payload is a worker job
  RefusedRows,   \* those whose job the queue never accepts
  Pumps,         \* worker processes
  BatchLimit,    \* rows read by one flush (50 in the code)
  Faults         \* subset of {"crash", "redis", "database"}

ASSUME OutboxConstants ==
  /\ ValidRows \subseteq Rows
  /\ RefusedRows \subseteq ValidRows
  /\ BatchLimit \in Nat \ {0}
  /\ Faults \subseteq {"crash", "redis", "database"}

VARIABLES
  rows,        \* publishedAt and lastErrorCategory of every row
  due,         \* unpublished, available rows by availableAt
  backedOff,   \* unpublished rows whose availableAt lies ahead
  pumps,       \* what each pump is doing, with the batch it has read
  enqueued     \* rows whose job has been added to the queue

vars == <<rows, due, backedOff, pumps, enqueued>>

Places == {"idle", "flushing", "publishing", "recording"}

Idle == [at |-> "idle", batch |-> <<>>]

TypeOK ==
  /\ rows \in [Rows -> [written : BOOLEAN, published : BOOLEAN,
                        error : {"none", "failure", "invalid"}]]
  /\ due \in Seq(Rows)
  /\ backedOff \subseteq Rows
  /\ \A p \in Pumps : pumps[p].at \in Places /\ pumps[p].batch \in Seq(Rows)
  /\ enqueued \subseteq ValidRows

Init ==
  /\ rows = [r \in Rows |-> [written |-> FALSE, published |-> FALSE, error |-> "none"]]
  /\ due = <<>>
  /\ backedOff = {}
  /\ pumps = [p \in Pumps |-> Idle]
  /\ enqueued = {}

-----------------------------------------------------------------------------
(* The rows.                                                               *)

(* The request's row is available at once, behind the rows already due.    *)
Request(r) ==
  /\ ~rows[r].written
  /\ rows' = [rows EXCEPT ![r].written = TRUE]
  /\ due' = Append(due, r)
  /\ UNCHANGED <<backedOff, pumps, enqueued>>

BackoffElapsed(r) ==
  /\ r \in backedOff
  /\ backedOff' = backedOff \ {r}
  /\ due' = Append(due, r)
  /\ UNCHANGED <<rows, pumps, enqueued>>

(* The rows that the updates below find: "publishedAt is null".            *)
Unpublished(r) == rows[r].written /\ ~rows[r].published

MarkPublished(r, error) ==
  IF ~Unpublished(r) THEN UNCHANGED <<rows, due, backedOff>>
  ELSE /\ rows' = [rows EXCEPT ![r].published = TRUE, ![r].error = error]
       /\ due' = Remove(due, r)
       /\ backedOff' = backedOff \ {r}

(* A bug: without the guard.                                               *)
MarkFailedUnguarded(r) ==
  /\ rows' = [rows EXCEPT ![r].error = "failure"]
  /\ due' = Remove(due, r)
  /\ backedOff' = backedOff \cup {r}

MarkFailed(r) ==
  IF ~Unpublished(r) THEN UNCHANGED <<rows, due, backedOff>>
  ELSE /\ rows' = [rows EXCEPT ![r].error = "failure"]
       /\ due' = Remove(due, r)
       /\ backedOff' = backedOff \cup {r}

-----------------------------------------------------------------------------
(* One flush.                                                              *)

Row(p) == Head(pumps[p].batch)

Goes(p, place) == pumps' = [pumps EXCEPT ![p].at = place]
NextRow(p)     == pumps' = [pumps EXCEPT ![p] = [at |-> "flushing", batch |-> Tail(@.batch)]]
Stops(p)       == pumps' = [pumps EXCEPT ![p] = Idle]

AtRow(p) == pumps[p].at = "flushing" /\ pumps[p].batch # <<>>

(* A pump flushes again only when its previous flush is over.              *)
Flush(p) ==
  /\ pumps[p].at = "idle"
  /\ due # <<>>
  /\ pumps' = [pumps EXCEPT ![p] =
       [at |-> "flushing", batch |-> SubSeq(due, 1, Min({Len(due), BatchLimit}))]]
  /\ UNCHANGED <<rows, due, backedOff, enqueued>>

EndFlush(p) ==
  /\ pumps[p].at = "flushing" /\ pumps[p].batch = <<>>
  /\ Stops(p)
  /\ UNCHANGED <<rows, due, backedOff, enqueued>>

RejectRow(p) ==
  /\ AtRow(p) /\ Row(p) \notin ValidRows
  /\ MarkPublished(Row(p), "invalid")
  /\ NextRow(p)
  /\ UNCHANGED enqueued

EnqueueRow(p) ==
  /\ AtRow(p) /\ Row(p) \in ValidRows \ RefusedRows
  /\ enqueued' = enqueued \cup {Row(p)}
  /\ Goes(p, "publishing")
  /\ UNCHANGED <<rows, due, backedOff>>

(* A bug: the add is not awaited.                                          *)
EnqueueFailsUnseen(p) ==
  /\ AtRow(p) /\ Row(p) \in ValidRows
  /\ Goes(p, "publishing")
  /\ UNCHANGED <<rows, due, backedOff, enqueued>>

(* The add fails, or only its reply is lost.                               *)
EnqueueFails(p) ==
  /\ AtRow(p) /\ Row(p) \in ValidRows
  /\ \/ Row(p) \in RefusedRows /\ UNCHANGED enqueued
     \/ /\ Row(p) \notin RefusedRows /\ "redis" \in Faults
        /\ enqueued' \in {enqueued, enqueued \cup {Row(p)}}
  /\ Goes(p, "recording")
  /\ UNCHANGED <<rows, due, backedOff>>

PublishRow(p) ==
  /\ pumps[p].at = "publishing"
  /\ MarkPublished(Row(p), "none")
  /\ NextRow(p)
  /\ UNCHANGED enqueued

(* One catch covers the add and the update after it.                       *)
PublishFails(p) ==
  /\ "database" \in Faults
  /\ pumps[p].at = "publishing"
  /\ MarkPublished(Row(p), "none") \/ UNCHANGED <<rows, due, backedOff>>
  /\ Goes(p, "recording")
  /\ UNCHANGED enqueued

(* A bug: no catch for the row, so that its error ends the flush.          *)
RecordFailureUncaught(p) ==
  /\ pumps[p].at = "recording"
  /\ Stops(p)
  /\ UNCHANGED <<rows, due, backedOff, enqueued>>

RecordFailure(p) ==
  /\ pumps[p].at = "recording"
  /\ MarkFailed(Row(p))
  /\ NextRow(p)
  /\ UNCHANGED enqueued

(* A failing rejection or failure update ends the flush: the outer catch.  *)
FlushFails(p) ==
  /\ "database" \in Faults
  /\ \/ AtRow(p) /\ Row(p) \notin ValidRows /\ MarkPublished(Row(p), "invalid")
     \/ pumps[p].at = "recording" /\ MarkFailed(Row(p))
     \/ /\ pumps[p].at = "recording" \/ (AtRow(p) /\ Row(p) \notin ValidRows)
        /\ UNCHANGED <<rows, due, backedOff>>
  /\ Stops(p)
  /\ UNCHANGED enqueued

Crash(p) ==
  /\ "crash" \in Faults
  /\ pumps[p].at # "idle"
  /\ Stops(p)
  /\ UNCHANGED <<rows, due, backedOff, enqueued>>

Next ==
  \/ \E r \in Rows : Request(r) \/ BackoffElapsed(r)
  \/ \E p \in Pumps :
       \/ Flush(p) \/ EndFlush(p) \/ RejectRow(p) \/ EnqueueRow(p) \/ EnqueueFails(p)
       \/ PublishRow(p) \/ PublishFails(p) \/ RecordFailure(p) \/ FlushFails(p) \/ Crash(p)

Spec == Init /\ [][Next]_vars

(* The interval timer fires, processes are restarted, and Redis and the    *)
(* database recover: a call that is made again and again is answered.      *)
Fairness ==
  /\ \A r \in Rows : WF_vars(BackoffElapsed(r))
  /\ \A p \in Pumps :
       /\ WF_vars(Flush(p)) /\ WF_vars(EndFlush(p))
       /\ SF_vars(RejectRow(p)) /\ SF_vars(EnqueueRow(p))
       /\ SF_vars(EnqueueFails(p) /\ Row(p) \in RefusedRows)
       /\ SF_vars(PublishRow(p)) /\ SF_vars(RecordFailure(p))

FairSpec == Spec /\ Fairness

-----------------------------------------------------------------------------
(* Properties.                                                             *)

(* No request is lost: a row is marked published as a job only when its    *)
(* job has reached the queue, whatever fails or dies in between.           *)
PublishedWasEnqueued ==
  \A r \in Rows : rows[r].published /\ rows[r].error # "invalid" => r \in enqueued

(* A published row keeps its outcome: a pump that read it before another   *)
(* one published it neither marks it failed nor makes it due again.        *)
PublishedIsFinal ==
  [][\A r \in Rows : rows[r].published => rows'[r] = rows[r]]_vars

(* Every request is settled, even behind a job the queue always refuses:   *)
(* a refused row is put back behind the others by its backoff.  A row is   *)
(* published once, so it is enough that time and again none is left.       *)
EveryRequestIsSettled ==
  []<>(\A r \in Rows \ RefusedRows : rows[r].written => rows[r].published)
=============================================================================
