-------------------------- MODULE OutboxPumpProofs --------------------------
(***************************************************************************)
(* TLAPS proof that no request is lost by the outbox, for any number of    *)
(* rows and pumps, whatever fails: a pump that is about to publish a row   *)
(* has seen the queue accept its job.  Nothing is said of the order of the *)
(* rows, so the sequences `due' and `batch' need no types.                 *)
(***************************************************************************)
EXTENDS OutboxPump, TLAPS

OutboxRow == [written : BOOLEAN, published : BOOLEAN, error : {"none", "failure", "invalid"}]

PumpsAreRecords ==
  pumps = [p \in Pumps |-> [at |-> pumps[p].at, batch |-> pumps[p].batch]]

PublishedWasWritten == \A r \in Rows : rows[r].published => rows[r].written

(* What the reply of the queue was is known to the pump alone.             *)
PublishesWhatItAdded ==
  \A p \in Pumps : pumps[p].at = "publishing" => Row(p) \in enqueued

OutboxInv ==
  /\ rows \in [Rows -> OutboxRow] /\ PumpsAreRecords
  /\ PublishedWasWritten /\ PublishesWhatItAdded /\ PublishedWasEnqueued

LEMMA InitOutboxInv == Init => OutboxInv
BY DEF Init, OutboxInv, OutboxRow, PumpsAreRecords, PublishedWasWritten,
       PublishesWhatItAdded, PublishedWasEnqueued, Idle

(* An update of a row leaves the published rows alone.                     *)
LEMMA MarkPublishedRow ==
  ASSUME rows \in [Rows -> OutboxRow], NEW q, NEW error \in {"none", "failure", "invalid"},
         MarkPublished(q, error)
  PROVE  /\ rows' \in [Rows -> OutboxRow]
         /\ \A r \in Rows : rows[r].published => rows'[r] = rows[r]
         /\ \A r \in Rows : rows'[r].published /\ ~rows[r].published =>
              r = q /\ rows'[r].error = error
         /\ \A r \in Rows : rows[r].written => rows'[r].written
         /\ \A r \in Rows : rows'[r].published => rows[r].published \/ rows'[r].written
<1>1. CASE ~Unpublished(q)
  BY <1>1 DEF MarkPublished
<1>2. CASE Unpublished(q)
  <2>1. rows' = [rows EXCEPT ![q].published = TRUE, ![q].error = error]
    BY <1>2 DEF MarkPublished
  <2> QED  BY <1>2, <2>1 DEF OutboxRow, Unpublished
<1> QED  BY <1>1, <1>2

LEMMA MarkFailedRow ==
  ASSUME rows \in [Rows -> OutboxRow], NEW q, MarkFailed(q)
  PROVE  /\ rows' \in [Rows -> OutboxRow]
         /\ \A r \in Rows : rows[r].published => rows'[r] = rows[r]
         /\ \A r \in Rows : rows'[r].published => rows[r].published
         /\ \A r \in Rows : rows[r].written => rows'[r].written
<1>1. CASE ~Unpublished(q)
  BY <1>1 DEF MarkFailed
<1>2. CASE Unpublished(q)
  <2>1. rows' = [rows EXCEPT ![q].error = "failure"]
    BY <1>2 DEF MarkFailed
  <2> QED  BY <1>2, <2>1 DEF OutboxRow, Unpublished
<1> QED  BY <1>1, <1>2

(* A step publishes a row at most, and only with reason.                   *)
RowsStep ==
  /\ rows' \in [Rows -> OutboxRow]
  /\ enqueued \subseteq enqueued'
  /\ \A r \in Rows : rows[r].published => rows'[r] = rows[r]
  /\ \A r \in Rows : rows'[r].published /\ ~rows[r].published =>
       rows'[r].error = "invalid" \/ r \in enqueued'
  /\ \A r \in Rows : rows'[r].published => rows[r].published \/ rows'[r].written

LEMMA NextRowsStep ==
  ASSUME OutboxInv, [Next]_vars
  PROVE  RowsStep
<1> USE DEF OutboxInv
<1>1. ASSUME NEW r \in Rows, Request(r) PROVE RowsStep
  BY <1>1 DEF Request, RowsStep, OutboxRow, PublishedWasWritten
<1>2. CASE rows' = rows /\ enqueued \subseteq enqueued'
  BY <1>2 DEF RowsStep
<1>3. ASSUME NEW p \in Pumps, MarkPublished(Row(p), "invalid"), enqueued' = enqueued
      PROVE  RowsStep
  BY <1>3, MarkPublishedRow DEF RowsStep
<1>4. ASSUME NEW p \in Pumps, pumps[p].at = "publishing", MarkPublished(Row(p), "none"),
             enqueued' = enqueued
      PROVE  RowsStep
  BY <1>4, MarkPublishedRow DEF RowsStep, PublishesWhatItAdded
<1>5. ASSUME NEW p \in Pumps, MarkFailed(Row(p)), enqueued' = enqueued PROVE RowsStep
  BY <1>5, MarkFailedRow DEF RowsStep
<1>6. ASSUME NEW r \in Rows, BackoffElapsed(r) PROVE RowsStep
  BY <1>2, <1>6 DEF BackoffElapsed
<1>7. ASSUME NEW p \in Pumps, Flush(p) \/ EndFlush(p) \/ EnqueueRow(p) \/ Crash(p) PROVE RowsStep
  BY <1>2, <1>7 DEF Flush, EndFlush, EnqueueRow, Crash
<1>8. ASSUME NEW p \in Pumps, EnqueueFails(p) PROVE RowsStep
  BY <1>2, <1>8 DEF EnqueueFails
<1>9. ASSUME NEW p \in Pumps, RejectRow(p) PROVE RowsStep
  BY <1>3, <1>9 DEF RejectRow
<1>10. ASSUME NEW p \in Pumps, PublishRow(p) PROVE RowsStep
  BY <1>4, <1>10 DEF PublishRow
<1>11. ASSUME NEW p \in Pumps, PublishFails(p) PROVE RowsStep
  BY <1>2, <1>4, <1>11 DEF PublishFails
<1>12. ASSUME NEW p \in Pumps, RecordFailure(p) PROVE RowsStep
  BY <1>5, <1>12 DEF RecordFailure
<1>13. ASSUME NEW p \in Pumps, FlushFails(p) PROVE RowsStep
  BY <1>2, <1>3, <1>5, <1>13 DEF FlushFails
<1>14. CASE UNCHANGED vars
  BY <1>2, <1>14 DEF vars
<1> QED
  BY <1>1, <1>6, <1>7, <1>8, <1>9, <1>10, <1>11, <1>12, <1>13, <1>14 DEF Next

(* A pump comes to publish by adding the job of its row.                   *)
PumpsStep ==
  /\ PumpsAreRecords'
  /\ \A p \in Pumps : pumps'[p].at = "publishing" =>
       /\ pumps'[p].batch = pumps[p].batch
       /\ pumps[p].at = "publishing" \/ Row(p) \in enqueued'

LEMMA GoesOn ==
  ASSUME PumpsAreRecords, NEW p \in Pumps, NEW place \in Places,
         NEW batch, pumps' = [pumps EXCEPT ![p] = [at |-> place, batch |-> batch]],
         place # "publishing"
  PROVE  PumpsStep
BY DEF PumpsAreRecords, PumpsStep

LEMMA GoesTo ==
  ASSUME PumpsAreRecords, NEW p \in Pumps, NEW place \in Places, Goes(p, place),
         place = "publishing" => Row(p) \in enqueued'
  PROVE  PumpsStep
BY DEF PumpsAreRecords, PumpsStep, Goes

LEMMA NextPumpsStep ==
  ASSUME OutboxInv, [Next]_vars
  PROVE  PumpsStep
<1> USE DEF OutboxInv, Places
<1>1. CASE pumps' = pumps
  BY <1>1 DEF PumpsStep, PumpsAreRecords
<1>2. ASSUME NEW p \in Pumps, Flush(p) PROVE PumpsStep
  BY <1>2, GoesOn DEF Flush
<1>3. ASSUME NEW p \in Pumps, NextRow(p) PROVE PumpsStep
  <2>1. pumps' = [pumps EXCEPT ![p] = [at |-> "flushing", batch |-> Tail(pumps[p].batch)]]
    BY <1>3 DEF NextRow
  <2> QED  BY <2>1, GoesOn
<1>4. ASSUME NEW p \in Pumps, Stops(p) PROVE PumpsStep
  BY <1>4, GoesOn DEF Stops, Idle
<1>5. ASSUME NEW r \in Rows, Request(r) \/ BackoffElapsed(r) PROVE PumpsStep
  BY <1>1, <1>5 DEF Request, BackoffElapsed
<1>6. ASSUME NEW p \in Pumps, EndFlush(p) \/ FlushFails(p) \/ Crash(p) PROVE PumpsStep
  BY <1>4, <1>6 DEF EndFlush, FlushFails, Crash
<1>7. ASSUME NEW p \in Pumps, RejectRow(p) \/ PublishRow(p) \/ RecordFailure(p) PROVE PumpsStep
  BY <1>3, <1>7 DEF RejectRow, PublishRow, RecordFailure
<1>8. ASSUME NEW p \in Pumps, EnqueueRow(p) PROVE PumpsStep
  BY <1>8, GoesTo DEF EnqueueRow
<1>9. ASSUME NEW p \in Pumps, EnqueueFails(p) \/ PublishFails(p) PROVE PumpsStep
  BY <1>9, GoesTo DEF EnqueueFails, PublishFails
<1>10. CASE UNCHANGED vars
  BY <1>1, <1>10 DEF vars
<1> QED
  BY <1>2, <1>5, <1>6, <1>7, <1>8, <1>9, <1>10 DEF Next

LEMMA NextOutboxInv == OutboxInv /\ [Next]_vars => OutboxInv'
<1> SUFFICES ASSUME OutboxInv, [Next]_vars PROVE OutboxInv'
  OBVIOUS
<1>1. RowsStep /\ PumpsStep
  BY NextRowsStep, NextPumpsStep
<1>2. PublishesWhatItAdded'
  BY <1>1 DEF OutboxInv, PublishesWhatItAdded, RowsStep, PumpsStep, Row
<1>3. PublishedWasEnqueued'
  BY <1>1 DEF OutboxInv, PublishedWasEnqueued, RowsStep
<1>4. PublishedWasWritten'
  BY <1>1 DEF OutboxInv, PublishedWasWritten, RowsStep
<1> QED
  BY <1>1, <1>2, <1>3, <1>4 DEF OutboxInv, RowsStep, PumpsStep

LEMMA OutboxInductive == Spec => []OutboxInv
BY InitOutboxInv, NextOutboxInv, PTL DEF Spec

(* A request is marked published only once its job is in the queue.        *)
THEOREM NoRequestIsLost == Spec => []PublishedWasEnqueued
<1>1. OutboxInv => PublishedWasEnqueued
  BY DEF OutboxInv
<1> QED  BY <1>1, OutboxInductive, PTL

(* A published row keeps its outcome.                                      *)
THEOREM PublishedStaysPublished == Spec => PublishedIsFinal
<1>1. OutboxInv /\ [Next]_vars => [\A r \in Rows : rows[r].published => rows'[r] = rows[r]]_vars
  BY NextRowsStep DEF RowsStep
<1> QED  BY <1>1, OutboxInductive, PTL DEF Spec, PublishedIsFinal
=============================================================================
