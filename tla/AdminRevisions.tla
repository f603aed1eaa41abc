---------------------------- MODULE AdminRevisions ----------------------------
(***************************************************************************)
(* Changes by administrators that take effect at once: the metadata of     *)
(* issuers, protocols, custodians and chains (ENTITY_UPSERT), reviews of   *)
(* observations (OBSERVATION_REVIEW) and the resolution of data quality    *)
(* events (QUALITY_RESOLVE) of apps/web/src/lib/admin-service.ts, and the  *)
(* revisions of them that admin_audit_logs keeps.                          *)
(*                                                                         *)
(* Each statement of a transaction is a step.  The update of a row locks   *)
(* it until the transaction ends; an insert locks nothing.                 *)
(***************************************************************************)
EXTENDS Integers, Sequences, FiniteSets, SequencesExt

CONSTANTS
  Editors,        \* administrators
  NoEditor,       \* nobody holds the lock, or has resolved the event
  MaxRevisions    \* bound on the audit rows of a record

ASSUME RevisionConstants ==
  IsFiniteSet(Editors) /\ NoEditor \notin Editors /\ MaxRevisions \in Nat

VARIABLES
  revisionSource,  \* the source that is cited is reviewed and not removed
  entity,          \* how often the entity was written, and who is writing it
  entityAudit,     \* its rows of admin_audit_logs, by commit
  observations,    \* the same for an observation that is never written
  quality,         \* the data quality event: who has resolved it
  qualityAudit,    \* who did, by admin_audit_logs
  editing          \* the open transaction of each administrator

revisionVars ==
  <<revisionSource, entity, entityAudit, observations, quality, qualityAudit, editing>>

AuditRows == [number : 1 .. MaxRevisions + 1, after : 0 .. MaxRevisions]

NoEditing == [op |-> "NONE", value |-> 0, number |-> 1]

RevisionsTypeOK ==
  /\ revisionSource \in BOOLEAN
  /\ entity \in [value : 0 .. MaxRevisions, writer : Editors \cup {NoEditor}]
  /\ Range(entityAudit) \subseteq AuditRows /\ Len(entityAudit) <= MaxRevisions
  /\ observations \in Seq(1 .. MaxRevisions) /\ quality \in Editors \cup {NoEditor}
  /\ Range(qualityAudit) \subseteq Editors
  /\ \A a \in Editors :
       /\ editing[a].op \in {"NONE", "FOUND", "WRITTEN", "AUDITED", "REVIEW", "RESOLVE"}
       /\ editing[a].number \in 1 .. MaxRevisions + 1

RevisionsInit ==
  /\ revisionSource = TRUE
  /\ entity = [value |-> 0, writer |-> NoEditor] /\ entityAudit = <<>>
  /\ observations = <<>> /\ quality = NoEditor /\ qualityAudit = <<>>
  /\ editing = [a \in Editors |-> NoEditing]

RemoveSource ==
  /\ revisionSource /\ revisionSource' = FALSE
  /\ UNCHANGED <<entity, entityAudit, observations, quality, qualityAudit, editing>>

-----------------------------------------------------------------------------
(* ENTITY_UPSERT of an entity that exists.                                 *)

(* The source is checked and the entity is read.                           *)
FindEntity(a) ==
  /\ editing[a].op = "NONE" /\ revisionSource
  /\ editing' = [editing EXCEPT ![a].op = "FOUND"]
  /\ UNCHANGED <<revisionSource, entity, entityAudit, observations, quality, qualityAudit>>

(* A bug: the row is written last, and two transactions number at once.    *)
WriteUnlocked(a) ==
  /\ editing[a].op = "FOUND" /\ Len(entityAudit) < MaxRevisions
  /\ editing' = [editing EXCEPT ![a].op = "WRITTEN", ![a].value = entity.value + 1]
  /\ UNCHANGED <<revisionSource, entity, entityAudit, observations, quality, qualityAudit>>

(* The update waits for another transaction that has written the row.      *)
WriteEntity(a) ==
  /\ editing[a].op = "FOUND" /\ entity.writer = NoEditor /\ Len(entityAudit) < MaxRevisions
  /\ entity' = [entity EXCEPT !.writer = a]
  /\ editing' = [editing EXCEPT ![a].op = "WRITTEN", ![a].value = entity.value + 1]
  /\ UNCHANGED <<revisionSource, entityAudit, observations, quality, qualityAudit>>

(* The number of the revision, one more than the last that is committed.   *)
NumberRevision(a) ==
  /\ editing[a].op = "WRITTEN"
  /\ editing' = [editing EXCEPT ![a].op = "AUDITED", ![a].number = Len(entityAudit) + 1]
  /\ UNCHANGED <<revisionSource, entity, entityAudit, observations, quality, qualityAudit>>

CommitEntity(a) ==
  /\ editing[a].op = "AUDITED"
  /\ entity' = [value |-> editing[a].value, writer |-> NoEditor]
  /\ entityAudit' = Append(entityAudit, [number |-> editing[a].number, after |-> editing[a].value])
  /\ editing' = [editing EXCEPT ![a] = NoEditing]
  /\ UNCHANGED <<revisionSource, observations, quality, qualityAudit>>

-----------------------------------------------------------------------------
(* OBSERVATION_REVIEW appends an event; the observation is not written.    *)
BeginReviewObservation(a) ==
  /\ editing[a].op = "NONE" /\ Len(observations) < MaxRevisions
  /\ editing' = [editing EXCEPT ![a].op = "REVIEW", ![a].number = Len(observations) + 1]
  /\ UNCHANGED <<revisionSource, entity, entityAudit, observations, quality, qualityAudit>>

CommitReviewObservation(a) ==
  /\ editing[a].op = "REVIEW" /\ Len(observations) < MaxRevisions
  /\ observations' = Append(observations, editing[a].number)
  /\ editing' = [editing EXCEPT ![a] = NoEditing]
  /\ UNCHANGED <<revisionSource, entity, entityAudit, quality, qualityAudit>>

-----------------------------------------------------------------------------
(* QUALITY_RESOLVE.  Only an open event is resolved; whether it still is   *)
(* open when it is written is not asked.                                   *)
BeginResolve(a) ==
  /\ editing[a].op = "NONE" /\ quality = NoEditor
  /\ editing' = [editing EXCEPT ![a].op = "RESOLVE"]
  /\ UNCHANGED <<revisionSource, entity, entityAudit, observations, quality, qualityAudit>>

(* A bug: the audit row is written although the event is not.              *)
CommitResolveOnce(a) ==
  /\ editing[a].op = "RESOLVE"
  /\ quality' = IF quality = NoEditor THEN a ELSE quality
  /\ qualityAudit' = Append(qualityAudit, a)
  /\ editing' = [editing EXCEPT ![a] = NoEditing]
  /\ UNCHANGED <<revisionSource, entity, entityAudit, observations>>

CommitResolve(a) ==
  /\ editing[a].op = "RESOLVE"
  /\ quality' = a /\ qualityAudit' = Append(qualityAudit, a)
  /\ editing' = [editing EXCEPT ![a] = NoEditing]
  /\ UNCHANGED <<revisionSource, entity, entityAudit, observations>>

(* The transaction fails, and its lock is released.                        *)
AbortEditing(a) ==
  /\ editing[a].op # "NONE"
  /\ entity' = IF entity.writer = a THEN [entity EXCEPT !.writer = NoEditor] ELSE entity
  /\ editing' = [editing EXCEPT ![a] = NoEditing]
  /\ UNCHANGED <<revisionSource, entityAudit, observations, quality, qualityAudit>>

RevisionsStep(a) ==
  \/ FindEntity(a) \/ WriteEntity(a) \/ NumberRevision(a) \/ CommitEntity(a)
  \/ BeginReviewObservation(a) \/ CommitReviewObservation(a)
  \/ BeginResolve(a) \/ CommitResolve(a) \/ AbortEditing(a)

RevisionsNext == RemoveSource \/ \E a \in Editors : RevisionsStep(a)

RevisionsSpec == RevisionsInit /\ [][RevisionsNext]_revisionVars

-----------------------------------------------------------------------------
(* Properties.                                                             *)

(* The revisions of an entity are numbered in the order in which they took *)
(* effect, without a gap or a double, and the last one says what the       *)
(* entity is: "organization metadata retains monotonic before/after        *)
(* revisions" (ARCHITECTURE.md:213).                                       *)
RevisionsAreMonotonic ==
  /\ \A i \in DOMAIN entityAudit : entityAudit[i].number = i /\ entityAudit[i].after = i
  /\ entity.value = Len(entityAudit)

(* Whoever the event names as the one who resolved it is the last one that *)
(* the audit log names, also when two resolve it at once and the later     *)
(* resolution replaces the earlier one.                                    *)
AuditNamesResolver ==
  IF quality = NoEditor THEN qualityAudit = <<>>
  ELSE qualityAudit # <<>> /\ Last(qualityAudit) = quality

(* The audit log tells how what it is about came to be.                    *)
AuditIsFaithful == RevisionsAreMonotonic /\ AuditNamesResolver
=============================================================================
