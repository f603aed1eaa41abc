--------------------------- MODULE RiskMethodologies ---------------------------
(***************************************************************************)
(* Versions of the risk methodology as administrators save, review, reject *)
(* and publish them: METHODOLOGY_SAVE and METHODOLOGY_TRANSITION of        *)
(* apps/web/src/lib/admin-service.ts, the constraints and triggers of the  *)
(* tables they write.                                                      *)
(*                                                                         *)
(* A request of an administrator is one transaction that reads and checks  *)
(* first and then updates by id, without a lock in between: others, of the *)
(* same administrator too, may commit after what it read.  The writes of a *)
(* transaction, its audit row among them, take effect together or not at   *)
(* all.  Time is a bounded clock.                                          *)
(***************************************************************************)
EXTENDS Integers, FiniteSets

CONSTANTS
  Administrators,
  NoOne,              \* no reviewer, no publisher
  EditSessions,       \* requests that are open at the same time
  Versions,           \* semantic versions, unique
  Contents,           \* configurations with complete weights
  EffectiveTimes,     \* values of effectiveFrom, also in the future
  MethodologyHorizon  \* bound on the clock

ASSUME MethodologyConstants ==
  /\ IsFiniteSet(Administrators) /\ NoOne \notin Administrators
  /\ IsFiniteSet(EditSessions)
  /\ IsFiniteSet(Versions) /\ Versions # {} /\ IsFiniteSet(Contents) /\ Contents # {}
  /\ EffectiveTimes \subseteq Nat /\ EffectiveTimes # {}
  /\ MethodologyHorizon \in Nat

VARIABLES
  methodologyNow,
  methodologies,   \* risk_methodology_versions and their weights
  edits            \* the transaction of each request

methodologyVars == <<methodologyNow, methodologies, edits>>

MethodologyStatuses == {"NONE", "DRAFT", "REVIEWED", "PUBLISHED", "SUPERSEDED", "REJECTED"}
Someone   == Administrators \cup {NoOne}
Times     == 0 .. MethodologyHorizon
Forever   == -1    \* effectiveTo is null

MethodologyRows ==
  [status : MethodologyStatuses, content : Contents, effectiveFrom : EffectiveTimes,
   effectiveTo : EffectiveTimes \cup {Forever}, reviewer : Someone, publisher : Someone,
   publishedAt : Times, committedAt : Times]

Edits ==
  [op : {"NONE", "SAVE", "REVIEW", "REJECT", "PUBLISH"}, by : Someone, version : Versions,
   at : Times, content : Contents, effectiveFrom : EffectiveTimes, previous : SUBSET Versions]

MethodologyTypeOK ==
  /\ methodologyNow \in Times
  /\ methodologies \in [Versions -> MethodologyRows]
  /\ edits \in [EditSessions -> Edits]

AnyVersion == CHOOSE v \in Versions : TRUE
AnyContent == CHOOSE c \in Contents : TRUE
AnyTime    == CHOOSE t \in EffectiveTimes : TRUE

NoEdit ==
  [op |-> "NONE", by |-> NoOne, version |-> AnyVersion, at |-> 0, content |-> AnyContent,
   effectiveFrom |-> AnyTime, previous |-> {}]

NoMethodology ==
  [status |-> "NONE", content |-> AnyContent, effectiveFrom |-> AnyTime, effectiveTo |-> Forever,
   reviewer |-> NoOne, publisher |-> NoOne, publishedAt |-> 0, committedAt |-> 0]

MethodologyInit ==
  /\ methodologyNow = 0
  /\ methodologies = [v \in Versions |-> NoMethodology]
  /\ edits = [s \in EditSessions |-> NoEdit]

-----------------------------------------------------------------------------
(* What the database accepts.                                              *)

(* A bug: the database leaves publication to the application.              *)
PublishableByAnyone(row) == TRUE

(* The constraints of the table, and validate_methodology_publication.     *)
Publishable(row) ==
  row.status = "PUBLISHED" =>
    /\ row.reviewer # NoOne /\ row.publisher # NoOne
    /\ row.reviewer # row.publisher

IntervalInOrder(row) == row.effectiveTo = Forever \/ row.effectiveTo > row.effectiveFrom

(* A bug: published rows are not protected.                                *)
ProtectedNever(old, new) == TRUE

(* protect_published_record: of a published row only the status and the    *)
(* end of its validity may change.                                         *)
Protected(old, new) ==
  old.status = "PUBLISHED" =>
    /\ new.status \in {"PUBLISHED", "SUPERSEDED", "ARCHIVED"}
    /\ new = [old EXCEPT !.status = new.status, !.effectiveTo = new.effectiveTo]

Retained(old, new) == Publishable(new) /\ IntervalInOrder(new) /\ Protected(old, new)

-----------------------------------------------------------------------------
(* A transaction reads and checks.                                         *)

(* METHODOLOGY_SAVE without an id.                                         *)
CreateDraft(v) ==
  /\ methodologies[v].status = "NONE"
  /\ \E c \in Contents, from \in EffectiveTimes :
       methodologies' = [methodologies EXCEPT
         ![v] = [NoMethodology EXCEPT !.status = "DRAFT", !.content = c, !.effectiveFrom = from]]
  /\ UNCHANGED <<methodologyNow, edits>>

Begin(s, a, op, v, values) ==
  /\ edits[s].op = "NONE"
  /\ edits' = [edits EXCEPT ![s] =
       [values EXCEPT !.op = op, !.by = a, !.version = v, !.at = methodologyNow]]
  /\ UNCHANGED <<methodologyNow, methodologies>>

(* Only a draft methodology can be edited.                                 *)
BeginSave(s, a, v) ==
  /\ methodologies[v].status = "DRAFT"
  /\ \E c \in Contents, from \in EffectiveTimes :
       Begin(s, a, "SAVE", v, [NoEdit EXCEPT !.content = c, !.effectiveFrom = from])

BeginReview(s, a, v) ==
  /\ methodologies[v].status = "DRAFT"
  /\ Begin(s, a, "REVIEW", v, NoEdit)

BeginReject(s, a, v) ==
  /\ methodologies[v].status \in {"DRAFT", "REVIEWED"}
  /\ Begin(s, a, "REJECT", v, NoEdit)

(* A bug: it looks for published versions that have ended.                 *)
PreviousPublishedEnded(v) ==
  {p \in Versions \ {v} : methodologies[p].status = "PUBLISHED" /\ methodologies[p].effectiveTo # Forever}

PreviousPublished(v) ==
  {p \in Versions \ {v} : methodologies[p].status = "PUBLISHED" /\ methodologies[p].effectiveTo = Forever}

BeginPublish(s, a, v) ==
  /\ methodologies[v].status = "REVIEWED" /\ methodologies[v].reviewer # a
  /\ \A p \in PreviousPublished(v) :
       methodologies[p].effectiveFrom < methodologies[v].effectiveFrom
  /\ Begin(s, a, "PUBLISH", v, [NoEdit EXCEPT !.effectiveFrom = methodologies[v].effectiveFrom,
                                           !.previous = PreviousPublished(v)])

-----------------------------------------------------------------------------
(* It writes by id what it has made of that.                               *)

Written(s) ==
  LET edit == edits[s]  row == methodologies[edits[s].version] IN
  CASE edit.op = "SAVE" ->
         [row EXCEPT !.content = edit.content, !.effectiveFrom = edit.effectiveFrom]
    [] edit.op = "REVIEW"  -> [row EXCEPT !.status = "REVIEWED", !.reviewer = edit.by]
    [] edit.op = "REJECT"  -> [row EXCEPT !.status = "REJECTED"]
    [] edit.op = "PUBLISH" ->
         [row EXCEPT !.status = "PUBLISHED", !.publisher = edit.by, !.publishedAt = edit.at,
                     !.committedAt = methodologyNow]

Superseded(s, p) ==
  [methodologies[p] EXCEPT !.status = "SUPERSEDED", !.effectiveTo = edits[s].effectiveFrom]

(* protect_published_methodology_weight.                                   *)
WeightsMayChange(s) ==
  edits[s].op = "SAVE" => methodologies[edits[s].version].status # "PUBLISHED"

(* `committedAt' is history.                                               *)
Commit(s) ==
  /\ edits[s].op # "NONE"
  /\ Retained(methodologies[edits[s].version], Written(s)) /\ WeightsMayChange(s)
  /\ \A p \in edits[s].previous : Retained(methodologies[p], Superseded(s, p))
  /\ methodologies' = [v \in Versions |->
       IF v = edits[s].version THEN Written(s)
       ELSE IF v \in edits[s].previous THEN Superseded(s, v) ELSE methodologies[v]]
  /\ edits' = [edits EXCEPT ![s] = NoEdit]
  /\ UNCHANGED methodologyNow

(* The database raises an exception, or fails: everything is rolled back.  *)
Rollback(s) ==
  /\ edits[s].op # "NONE"
  /\ edits' = [edits EXCEPT ![s] = NoEdit]
  /\ UNCHANGED <<methodologyNow, methodologies>>

MethodologyTick ==
  /\ methodologyNow < MethodologyHorizon
  /\ methodologyNow' = methodologyNow + 1
  /\ UNCHANGED <<methodologies, edits>>

MethodologyNext ==
  \/ \E v \in Versions : CreateDraft(v)
  \/ \E s \in EditSessions, a \in Administrators, v \in Versions :
       BeginSave(s, a, v) \/ BeginReview(s, a, v) \/ BeginReject(s, a, v) \/ BeginPublish(s, a, v)
  \/ \E s \in EditSessions : Commit(s) \/ Rollback(s)
  \/ MethodologyTick

MethodologySpec == MethodologyInit /\ [][MethodologyNext]_methodologyVars

-----------------------------------------------------------------------------
(* Properties.                                                             *)

(* A published methodology was reviewed and published by two people, even  *)
(* if a review of the publisher's own, begun when it was a draft, commits  *)
(* between the check and the publication (OPERATIONS_RUNBOOK.md:206).      *)
TwoPersonPublication ==
  \A v \in Versions : methodologies[v].status = "PUBLISHED" =>
    /\ {methodologies[v].reviewer, methodologies[v].publisher} \subseteq Administrators
    /\ methodologies[v].reviewer # methodologies[v].publisher

(* As long as a version is published nothing of what it says changes, and  *)
(* it can only be superseded, even by an edit that began when it was a     *)
(* draft (ARCHITECTURE.md:184).                                            *)
PublishedIsFixed ==
  \A v \in Versions : methodologies[v].status = "PUBLISHED" =>
    /\ methodologies'[v].status \in {"PUBLISHED", "SUPERSEDED"}
    /\ methodologies'[v].content = methodologies[v].content
    /\ methodologies'[v].effectiveFrom = methodologies[v].effectiveFrom
    /\ methodologies'[v].reviewer = methodologies[v].reviewer
    /\ methodologies'[v].publishedAt = methodologies[v].publishedAt

(* Two versions that are published without an end were published at once,  *)
(* each before the other had committed: a later publication ends the       *)
(* earlier version, or the recalculation finds two in force and stops.     *)
TwoInForceOverlapped ==
  \A v, p \in Versions :
    LET x == methodologies[v]  y == methodologies[p] IN
    /\ v # p /\ x.status = "PUBLISHED" /\ y.status = "PUBLISHED"
    /\ x.effectiveTo = Forever /\ y.effectiveTo = Forever
    => x.publishedAt <= y.committedAt

(* A methodology in force can be answered for: two people stand behind it, *)
(* it is the one they read, and it is the only one of its time.            *)
PublicationIsOrderly ==
  [][TwoPersonPublication' /\ TwoInForceOverlapped' /\ PublishedIsFixed]_methodologyVars
=============================================================================
