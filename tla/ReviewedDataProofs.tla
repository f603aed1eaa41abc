------------------------- MODULE ReviewedDataProofs -------------------------
(***************************************************************************)
(* TLAPS proofs about what administrators review and publish, and about    *)
(* what is calculated from it: one section for each module of the model,   *)
(* for any administrators, versions, jobs, requests and callers.           *)
(*                                                                         *)
(* In all of them what a transaction or a request has read may be stale    *)
(* when it writes or answers.  Each section names what is still so of it   *)
(* (a lock, a constraint of the database, a clock, an order of versions),  *)
(* and that is what its invariant says.                                    *)
(***************************************************************************)
EXTENDS MCReviewedData, EngineProofs

-----------------------------------------------------------------------------
(* SourcePublication. A publication supersedes in a statement of its own   *)
(* what is published then, and commits later. What it saw when it began    *)
(* may have been superseded or archived in between, but can no longer be   *)
(* published anew: whatever transaction is open on such a version archives *)
(* it.                                                                     *)

(* Only a publication supersedes.                                          *)
SupersedingPublishes ==
  \A a \in Curators : transactions[a].superseded # {} => transactions[a].op = "PUBLISH"

(* What is so of a version w that the publication of a has seen.           *)
SeenBy(a, w) ==
  /\ w # transactions[a].version
  /\ records[w] \in {"PUBLISHED", "SUPERSEDED", "ARCHIVED"}
  /\ records[w] = "PUBLISHED" => w \notin ended
  /\ \A b \in Curators : transactions[b].op \in Transitions /\ transactions[b].version = w =>
       transactions[b].op = "ARCHIVE"
  /\ transactions[a].ready /\ records[w] = "PUBLISHED" => w \in transactions[a].superseded

SeenIsSettled ==
  \A a \in Curators : transactions[a].op = "PUBLISH" =>
    \A w \in transactions[a].saw : SeenBy(a, w)

ReplaceInv == PublicationTypeOK /\ SupersedingPublishes /\ SeenIsSettled

LEMMA NoTransactionType ==
  /\ NoTransaction \in Transactions /\ NoTransaction.op = "NONE"
  /\ NoTransaction.superseded = {} /\ ~NoTransaction.ready
BY PublicationConstants DEF NoTransaction, Transactions, RecordVersions

LEMMA InitReplaceInv == PublicationInit => ReplaceInv
BY NoTransactionType
   DEF PublicationInit, ReplaceInv, PublicationTypeOK, SupersedingPublishes, SeenIsSettled,
       RecordStatuses

-----------------------------------------------------------------------------
(* A transaction that begins.                                              *)
LEMMA BeginKeepsReplaceInv ==
  ASSUME ReplaceInv, NEW a \in Curators, NEW tx \in Transactions, BeginTransaction(a, tx),
         tx.superseded = {}, ~tx.ready \/ tx.op # "PUBLISH",
         \A b \in Curators : transactions[b].op = "PUBLISH" => \A w \in transactions[b].saw :
           (tx.op \in Transitions /\ tx.version = w => tx.op = "ARCHIVE"),
         tx.op = "PUBLISH" => \A w \in tx.saw :
           /\ w # tx.version /\ records[w] = "PUBLISHED" /\ w \notin ended /\ ~Busy(w)
  PROVE  ReplaceInv'
<1>1. PublicationTypeOK /\ SupersedingPublishes /\ SeenIsSettled
  BY DEF ReplaceInv
<1>2. /\ \A b \in Curators : transactions'[b] = IF b = a THEN tx ELSE transactions[b]
      /\ UNCHANGED <<table, termsEvidence, records, ended>>
  BY <1>1 DEF BeginTransaction, PublicationTypeOK
<1>3. PublicationTypeOK'
  BY <1>1, <1>2 DEF BeginTransaction, PublicationTypeOK
<1>4. SupersedingPublishes'
  BY <1>1, <1>2 DEF SupersedingPublishes
<1>5. SeenIsSettled'
  <2> SUFFICES ASSUME NEW b \in Curators, transactions'[b].op = "PUBLISH",
                      NEW w \in transactions'[b].saw
               PROVE  SeenBy(b, w)'
    BY DEF SeenIsSettled
  <2>1. CASE b = a
    BY <1>2, <2>1 DEF SeenBy, Busy
  <2>2. CASE b # a
    <3>1. SeenBy(b, w)
      BY <1>1, <1>2, <2>2 DEF SeenIsSettled
    <3> QED  BY <1>2, <2>2, <3>1 DEF SeenBy
  <2> QED  BY <2>1, <2>2
<1> QED  BY <1>3, <1>4, <1>5 DEF ReplaceInv

(* A transaction that ends, having left the versions seen by others where  *)
(* they are, or superseded or archived them.                               *)
LEMMA EndKeepsReplaceInv ==
  ASSUME ReplaceInv, NEW a \in Curators, PublicationTypeOK',
         transactions' = [transactions EXCEPT ![a] = NoTransaction],
         \A b \in Curators \ {a} : transactions[b].op = "PUBLISH" => \A w \in transactions[b].saw :
           \/ records'[w] = records[w] /\ (w \in ended' => w \in ended)
           \/ records'[w] \in {"SUPERSEDED", "ARCHIVED"}
  PROVE  ReplaceInv'
<1>1. PublicationTypeOK /\ SupersedingPublishes /\ SeenIsSettled
  BY DEF ReplaceInv
<1>2. \A b \in Curators : transactions'[b] = IF b = a THEN NoTransaction ELSE transactions[b]
  BY <1>1 DEF PublicationTypeOK
<1>3. SupersedingPublishes'
  BY <1>1, <1>2, NoTransactionType DEF SupersedingPublishes
<1>4. SeenIsSettled'
  <2> SUFFICES ASSUME NEW b \in Curators, transactions'[b].op = "PUBLISH",
                      NEW w \in transactions'[b].saw
               PROVE  SeenBy(b, w)'
    BY DEF SeenIsSettled
  <2>1. b # a /\ transactions'[b] = transactions[b]
    BY <1>2, NoTransactionType
  <2>2. SeenBy(b, w)
    BY <1>1, <2>1 DEF SeenIsSettled
  <2>3. \A c \in Curators : transactions'[c].op \in Transitions => transactions'[c] = transactions[c]
    BY <1>2, NoTransactionType DEF Transitions
  <2> QED  BY <2>1, <2>2, <2>3 DEF SeenBy
<1> QED  BY <1>3, <1>4 DEF ReplaceInv

(* What a commit makes of a version.                                       *)
LEMMA CommitMoves ==
  ASSUME ReplaceInv, NEW a \in Curators, CommitTransition(a), NEW w \in RecordVersions
  PROVE  /\ w = transactions[a].version =>
              /\ records'[w] = StatusAfter(transactions[a].op)
              /\ records[w] = "PUBLISHED" => transactions[a].op = "ARCHIVE"
         /\ w # transactions[a].version /\ w \in transactions[a].superseded =>
              records'[w] = "SUPERSEDED"
         /\ w # transactions[a].version /\ w \notin transactions[a].superseded =>
              records'[w] = records[w] /\ (w \in ended' => w \in ended)
BY DEF CommitTransition, KeepsPublished, ReplaceInv, PublicationTypeOK

LEMMA NextReplaceInv ==
  ASSUME ReplaceInv, [PublicationNext]_publicationVars
  PROVE  ReplaceInv'
<1>1. PublicationTypeOK /\ SupersedingPublishes /\ SeenIsSettled
  BY DEF ReplaceInv
<1>2. \A a \in Curators : /\ transactions[a] \in Transactions
                          /\ transactions[a].saw \subseteq RecordVersions
                          /\ transactions[a].version \in RecordVersions
  BY <1>1 DEF PublicationTypeOK, Transactions
<1>3. CASE EvidenceChanges
  BY <1>1, <1>3 DEF EvidenceChanges, ReplaceInv, PublicationTypeOK, SupersedingPublishes,
                    SeenIsSettled, SeenBy
<1>4. ASSUME NEW a \in Curators, BeginVersion(a) PROVE ReplaceInv'
  <2>1. PICK v \in RecordVersions :
          BeginTransaction(a, [NoTransaction EXCEPT !.op = "VERSION", !.version = v])
    BY <1>4 DEF BeginVersion
  <2> DEFINE tx == [NoTransaction EXCEPT !.op = "VERSION", !.version = v]
  <2>2. tx \in Transactions /\ tx.op = "VERSION" /\ tx.superseded = {}
    BY NoTransactionType DEF Transactions
  <2>3. "VERSION" \notin Transitions
    BY DEF Transitions
  <2> HIDE DEF tx
  <2> QED  BY <2>1, <2>2, <2>3, BeginKeepsReplaceInv DEF tx
<1>5. ASSUME NEW a \in Curators, NEW v \in RecordVersions, NEW op \in Transitions,
             BeginTransition(a, v, op)
      PROVE  ReplaceInv'
  <2> DEFINE seen == IF op = "PUBLISH" THEN {w \in PublishedOthers(v) : ~Busy(w)} ELSE {}
             ready == op # "PUBLISH"
             tx == [NoTransaction EXCEPT !.op = op, !.version = v, !.ready = ready, !.saw = seen]
  <2>1. BeginTransaction(a, tx)
    BY <1>5 DEF BeginTransition
  <2>2. seen \subseteq RecordVersions /\ ready \in BOOLEAN
    BY DEF PublishedOthers
  <2>3. op = "PUBLISH" => \A w \in seen :
          w # v /\ records[w] = "PUBLISHED" /\ w \notin ended /\ ~Busy(w)
    BY DEF PublishedOthers
  <2>4. op = "PUBLISH" => ~ready
    OBVIOUS
  <2> HIDE DEF seen, ready
  <2>5. /\ tx \in Transactions /\ tx.op = op /\ tx.version = v /\ tx.superseded = {}
        /\ tx.ready = ready /\ tx.saw = seen
    BY <2>2, NoTransactionType DEF Transactions
  <2> HIDE DEF tx
  <2>6. ASSUME NEW b \in Curators, transactions[b].op = "PUBLISH", v \in transactions[b].saw
        PROVE  op = "ARCHIVE"
    <3>1. records[v] \in {"PUBLISHED", "SUPERSEDED", "ARCHIVED"}
      BY <1>1, <2>6 DEF SeenIsSettled, SeenBy
    <3>2. Allowed(op, records[v])
      BY <1>5 DEF BeginTransition
    <3> QED  BY <3>1, <3>2 DEF Allowed, Transitions
  <2> QED  BY <2>1, <2>3, <2>4, <2>5, <2>6, BeginKeepsReplaceInv
<1>6. ASSUME NEW a \in Curators, CommitVersion(a) PROVE ReplaceInv'
  <2> DEFINE v == transactions[a].version
  <2>1. /\ records[v] = "NONE" /\ v \in RecordVersions /\ ended' = ended
        /\ records' = [records EXCEPT ![v] = "DRAFT"]
        /\ transactions' = [transactions EXCEPT ![a] = NoTransaction]
    BY <1>2, <1>6 DEF CommitVersion
  <2>2. PublicationTypeOK'
    BY <1>1, <1>6, <2>1, NoTransactionType DEF CommitVersion, PublicationTypeOK, RecordStatuses
  <2>3. ASSUME NEW b \in Curators, transactions[b].op = "PUBLISH", NEW w \in transactions[b].saw
        PROVE  records'[w] = records[w]
    <3>1. w # v /\ w \in RecordVersions
      BY <1>1, <1>2, <2>1, <2>3 DEF SeenIsSettled, SeenBy
    <3> QED  BY <1>1, <2>1, <3>1 DEF PublicationTypeOK
  <2> QED  BY <2>1, <2>2, <2>3, EndKeepsReplaceInv
<1>7. ASSUME NEW a \in Curators, SupersedeOthers(a) PROVE ReplaceInv'
  <2> DEFINE new == [transactions[a] EXCEPT !.ready = TRUE,
                                            !.superseded = PublishedOthers(transactions[a].version)]
  <2>1. transactions' = [transactions EXCEPT ![a] = new]
    BY <1>7 DEF SupersedeOthers
  <2>2. PublishedOthers(transactions[a].version) \subseteq RecordVersions
    BY DEF PublishedOthers
  <2>3. /\ new \in Transactions /\ new.op = "PUBLISH" /\ transactions[a].op = "PUBLISH"
        /\ new.version = transactions[a].version /\ new.saw = transactions[a].saw
        /\ new.superseded = PublishedOthers(transactions[a].version)
    BY <1>2, <1>7, <2>2 DEF SupersedeOthers, Transactions
  <2> HIDE DEF new
  <2>4. /\ \A b \in Curators : transactions'[b] = IF b = a THEN new ELSE transactions[b]
        /\ records' = records /\ ended' = ended
    BY <1>1, <1>7, <2>1 DEF SupersedeOthers, PublicationTypeOK
  <2>5. PublicationTypeOK'
    BY <1>1, <1>7, <2>1, <2>3 DEF SupersedeOthers, PublicationTypeOK
  <2>6. SupersedingPublishes'
    BY <1>1, <2>3, <2>4 DEF SupersedingPublishes
  <2>7. ASSUME NEW b \in Curators, transactions'[b].op = "PUBLISH", NEW w \in transactions'[b].saw
        PROVE  SeenBy(b, w)'
    <3>1. SeenBy(b, w) /\ w \in RecordVersions
      BY <1>1, <1>2, <2>3, <2>4, <2>7 DEF SeenIsSettled
    <3>2. b = a => (records[w] = "PUBLISHED" => w \in new.superseded)
      BY <2>3, <3>1 DEF SeenBy, PublishedOthers
    <3>3. \A c \in Curators : /\ transactions'[c].op = transactions[c].op
                              /\ transactions'[c].version = transactions[c].version
      BY <2>3, <2>4
    <3> QED  BY <2>4, <3>1, <3>2, <3>3 DEF SeenBy
  <2> QED  BY <2>5, <2>6, <2>7 DEF ReplaceInv, SeenIsSettled
<1>8. ASSUME NEW a \in Curators, CommitTransition(a) PROVE ReplaceInv'
  <2>1. /\ transactions' = [transactions EXCEPT ![a] = NoTransaction]
        /\ transactions[a].op \in Transitions
    BY <1>8 DEF CommitTransition
  <2>2. PublicationTypeOK'
    <3>1. StatusAfter(transactions[a].op) \in RecordStatuses
      BY <2>1 DEF StatusAfter, Transitions, RecordStatuses
    <3>2. transactions[a].superseded \subseteq RecordVersions
      BY <1>2 DEF Transactions
    <3>3. records' \in [RecordVersions -> RecordStatuses]
      BY <1>1, <1>8, <3>1 DEF CommitTransition, PublicationTypeOK, RecordStatuses
    <3>4. ended' \subseteq RecordVersions
      BY <1>1, <1>2, <1>8, <3>2 DEF CommitTransition, PublicationTypeOK
    <3> QED
      BY <1>1, <1>8, <2>1, <3>3, <3>4, NoTransactionType DEF CommitTransition, PublicationTypeOK
  <2>3. ASSUME NEW b \in Curators \ {a}, transactions[b].op = "PUBLISH",
               NEW w \in transactions[b].saw
        PROVE  \/ records'[w] = records[w] /\ (w \in ended' => w \in ended)
               \/ records'[w] \in {"SUPERSEDED", "ARCHIVED"}
    <3>1. SeenBy(b, w) /\ w \in RecordVersions
      BY <1>1, <1>2, <2>3 DEF SeenIsSettled
    <3>2. w = transactions[a].version => transactions[a].op = "ARCHIVE"
      BY <2>1, <3>1 DEF SeenBy
    <3>3. StatusAfter("ARCHIVE") = "ARCHIVED"
      BY DEF StatusAfter
    <3> QED  BY <1>8, <3>1, <3>2, <3>3, CommitMoves
  <2> QED  BY <2>1, <2>2, <2>3, EndKeepsReplaceInv
<1>9. ASSUME NEW a \in Curators, AbortTransaction(a) PROVE ReplaceInv'
  <2>1. PublicationTypeOK'
    BY <1>1, <1>9, NoTransactionType DEF AbortTransaction, PublicationTypeOK
  <2> QED  BY <1>9, <2>1, EndKeepsReplaceInv DEF AbortTransaction
<1>10. CASE UNCHANGED publicationVars
  BY <1>1, <1>10 DEF publicationVars, ReplaceInv, PublicationTypeOK, SupersedingPublishes,
                     SeenIsSettled, SeenBy, Busy
<1> QED
  BY <1>3, <1>4, <1>5, <1>6, <1>7, <1>8, <1>9, <1>10 DEF PublicationNext

-----------------------------------------------------------------------------
(* Only the commit of a transition changes what is published.              *)
LEMMA PublishedMoves ==
  ASSUME ReplaceInv, PublicationNext, NEW v \in RecordVersions,
         (records[v] = "PUBLISHED") # (records'[v] = "PUBLISHED")
  PROVE  \E a \in Curators : CommitTransition(a)
<1>1. ASSUME NEW a \in Curators, CommitVersion(a) PROVE FALSE
  <2>1. records' = [records EXCEPT ![transactions[a].version] = "DRAFT"]
        /\ records[transactions[a].version] = "NONE"
    BY <1>1 DEF CommitVersion
  <2> QED  BY <2>1 DEF ReplaceInv, PublicationTypeOK
<1>2. CASE records' = records
  BY <1>2
<1> QED
  BY <1>1, <1>2 DEF PublicationNext, EvidenceChanges, BeginVersion, BeginTransition,
                    BeginTransaction, SupersedeOthers, AbortTransaction

LEMMA ReplacesWhatItSaw ==
  ASSUME ReplaceInv, PublicationNext
  PROVE  LaterPublicationSupersedes
<1> SUFFICES ASSUME NEW a \in Curators, transactions[a].op = "PUBLISH",
                    records[transactions[a].version] # "PUBLISHED",
                    records'[transactions[a].version] = "PUBLISHED",
                    transactions'[a].op = "NONE", NEW w \in transactions[a].saw
             PROVE  records'[w] # "PUBLISHED"
  BY DEF LaterPublicationSupersedes
<1>1. /\ transactions[a].version \in RecordVersions /\ w \in RecordVersions
      /\ transactions \in [Curators -> Transactions]
  BY DEF ReplaceInv, PublicationTypeOK, Transactions
<1>2. PICK b \in Curators : CommitTransition(b)
  BY <1>1, PublishedMoves
<1>3. b = a /\ transactions[a].ready
  BY <1>1, <1>2 DEF CommitTransition
<1>4. SeenBy(a, w)
  BY DEF ReplaceInv, SeenIsSettled
<1> QED  BY <1>1, <1>2, <1>3, <1>4, CommitMoves DEF SeenBy

LEMMA StaysUntilReplaced ==
  ASSUME ReplaceInv, PublicationNext
  PROVE  PublishedUntilReplaced
<1> SUFFICES ASSUME NEW v \in RecordVersions, records[v] = "PUBLISHED", records'[v] # "PUBLISHED"
             PROVE  \/ records'[v] = "ARCHIVED"
                    \/ \E w \in RecordVersions : records[w] # "PUBLISHED" /\ records'[w] = "PUBLISHED"
  BY DEF PublishedUntilReplaced
<1>1. PICK a \in Curators : CommitTransition(a)
  BY PublishedMoves
<1>2. transactions[a].version \in RecordVersions
  BY DEF ReplaceInv, PublicationTypeOK, Transactions
<1>3. CASE v = transactions[a].version
  BY <1>1, <1>3, CommitMoves DEF StatusAfter
<1>4. CASE v # transactions[a].version
  <2>1. v \in transactions[a].superseded
    BY <1>1, <1>4, CommitMoves
  <2>2. transactions[a].op = "PUBLISH"
    BY <2>1 DEF ReplaceInv, SupersedingPublishes
  <2>3. /\ records[transactions[a].version] # "PUBLISHED"
        /\ records'[transactions[a].version] = "PUBLISHED"
    BY <1>1, <1>2, <2>2, CommitMoves DEF StatusAfter
  <2> QED  BY <1>2, <2>3
<1> QED  BY <1>3, <1>4

(* A version that is published replaces the one published before it, as a  *)
(* whole, and nothing else takes a published version away but archiving it.*)
THEOREM PublicationsReplaceEachOther == PublicationSpec => PublicationsReplace
<1>1. ReplaceInv /\ [PublicationNext]_publicationVars => ReplaceInv'
  BY NextReplaceInv
<1>2. ReplaceInv /\ [PublicationNext]_publicationVars =>
        [LaterPublicationSupersedes /\ PublishedUntilReplaced]_publicationVars
  BY ReplacesWhatItSaw, StaysUntilReplaced
<1> QED
  BY <1>1, <1>2, InitReplaceInv, PTL DEF PublicationSpec, PublicationsReplace

-----------------------------------------------------------------------------
(* AdminRevisions.  Nothing is compared when a transaction commits: that   *)
(* the audit log is right follows from the lock on the row of the entity.  *)
(* Whoever has written it holds the lock until its audit row is there, so  *)
(* what it wrote and the number it took are still the next ones.           *)

EditingRecords ==
  [op : {"NONE", "FOUND", "WRITTEN", "AUDITED", "REVIEW", "RESOLVE"},
   value : Nat, number : 1 .. MaxRevisions + 1]

RevisionsTyped ==
  /\ revisionSource \in BOOLEAN
  /\ entity \in [value : 0 .. MaxRevisions, writer : Editors \cup {NoEditor}]
  /\ entityAudit \in Seq(AuditRows)
  /\ observations \in Seq(1 .. MaxRevisions)
  /\ quality \in Editors \cup {NoEditor} /\ qualityAudit \in Seq(Editors)
  /\ editing \in [Editors -> EditingRecords]
  /\ \A a \in Editors : editing[a].op = "REVIEW" => editing[a].number <= MaxRevisions

(* What a transaction has done under the lock.                             *)
WriterHoldsLock ==
  \A a \in Editors :
    /\ editing[a].op \in {"WRITTEN", "AUDITED"} =>
         /\ entity.writer = a /\ editing[a].value = entity.value + 1
         /\ Len(entityAudit) < MaxRevisions
    /\ editing[a].op = "AUDITED" => editing[a].number = Len(entityAudit) + 1

RevisionsInv == RevisionsTyped /\ WriterHoldsLock /\ AuditIsFaithful

LEMMA RevisionsInvInit == RevisionsInit => RevisionsInv
<1> SUFFICES ASSUME RevisionsInit PROVE RevisionsInv
  OBVIOUS
<1>1. NoEditing \in EditingRecords /\ NoEditing.op = "NONE"
  BY RevisionConstants DEF NoEditing, EditingRecords
<1>2. RevisionsTyped
  BY <1>1, RevisionConstants DEF RevisionsInit, RevisionsTyped
<1>3. WriterHoldsLock
  BY <1>1 DEF RevisionsInit, WriterHoldsLock
<1>4. AuditIsFaithful
  BY RevisionConstants
     DEF RevisionsInit, AuditIsFaithful, RevisionsAreMonotonic, AuditNamesResolver
<1> QED  BY <1>2, <1>3, <1>4 DEF RevisionsInv

LEMMA TwoFields ==
  ASSUME NEW e \in EditingRecords, NEW x, NEW y
  PROVE  /\ [e EXCEPT !.op = x, !.value = y] = [op |-> x, value |-> y, number |-> e.number]
         /\ [e EXCEPT !.op = x, !.number = y] = [op |-> x, value |-> e.value, number |-> y]
<1>1. DOMAIN e = {"op", "value", "number"}
  BY DEF EditingRecords
<1> DEFINE valued   == [i \in {"op", "value", "number"} |->
                          IF i = "value" THEN y ELSE IF i = "op" THEN x ELSE e[i]]
           numbered == [i \in {"op", "value", "number"} |->
                          IF i = "number" THEN y ELSE IF i = "op" THEN x ELSE e[i]]
<1>2. /\ [e EXCEPT !.op = x, !.value = y] = valued
      /\ [e EXCEPT !.op = x, !.number = y] = numbered
  BY <1>1
<1>3. /\ valued = [op |-> x, value |-> y, number |-> e.number]
      /\ numbered = [op |-> x, value |-> e.value, number |-> y]
  OBVIOUS
<1> QED  BY <1>2, <1>3

(* A transaction goes on and commits nothing.                              *)
LEMMA EditingGoesOn ==
  ASSUME RevisionsInv, NEW a \in Editors, NEW edit \in EditingRecords,
         editing' = [editing EXCEPT ![a] = edit],
         revisionSource' = revisionSource, entity' \in [value : {entity.value}, writer : Editors \cup {NoEditor}],
         entityAudit' = entityAudit, observations' = observations, quality' = quality,
         qualityAudit' = qualityAudit,
         edit.op = "REVIEW" => edit.number <= MaxRevisions,
         edit.op \in {"WRITTEN", "AUDITED"} =>
           /\ entity'.writer = a /\ edit.value = entity.value + 1
           /\ Len(entityAudit) < MaxRevisions,
         edit.op = "AUDITED" => edit.number = Len(entityAudit) + 1,
         \A b \in Editors \ {a} : entity.writer = b => entity'.writer = b
  PROVE  RevisionsInv'
<1>1. RevisionsTyped /\ WriterHoldsLock /\ AuditIsFaithful
  BY DEF RevisionsInv
<1>2. /\ editing \in [Editors -> EditingRecords]
      /\ entity'.value = entity.value
      /\ entity' \in [value : 0 .. MaxRevisions, writer : Editors \cup {NoEditor}]
  BY <1>1 DEF RevisionsTyped
<1>3. \A b \in Editors : editing'[b] = IF b = a THEN edit ELSE editing[b]
  BY <1>2
<1>4. RevisionsTyped'
  BY <1>1, <1>2, <1>3 DEF RevisionsTyped
<1>5. WriterHoldsLock'
  BY <1>1, <1>2, <1>3 DEF WriterHoldsLock
<1>6. AuditIsFaithful'
  BY <1>1, <1>2 DEF AuditIsFaithful, RevisionsAreMonotonic, AuditNamesResolver
<1> QED  BY <1>4, <1>5, <1>6 DEF RevisionsInv

LEMMA RevisionsInvStep ==
  ASSUME RevisionsInv, [RevisionsNext]_revisionVars
  PROVE  RevisionsInv'
<1>1. RevisionsTyped /\ WriterHoldsLock /\ AuditIsFaithful
  BY DEF RevisionsInv
<1>2. /\ editing \in [Editors -> EditingRecords] /\ entityAudit \in Seq(AuditRows)
      /\ observations \in Seq(1 .. MaxRevisions) /\ qualityAudit \in Seq(Editors)
      /\ entity \in [value : 0 .. MaxRevisions, writer : Editors \cup {NoEditor}]
      /\ MaxRevisions \in Nat /\ NoEditor \notin Editors
      /\ entity.value = Len(entityAudit)
  BY <1>1, RevisionConstants DEF RevisionsTyped, AuditIsFaithful, RevisionsAreMonotonic
<1>3. NoEditing \in EditingRecords /\ NoEditing.op = "NONE"
  BY <1>2 DEF NoEditing, EditingRecords
<1>4. CASE RemoveSource
  BY <1>1, <1>4
     DEF RemoveSource, RevisionsInv, RevisionsTyped, WriterHoldsLock, AuditIsFaithful,
         RevisionsAreMonotonic, AuditNamesResolver
<1>5. CASE UNCHANGED revisionVars
  BY <1>1, <1>5
     DEF revisionVars, RevisionsInv, RevisionsTyped, WriterHoldsLock, AuditIsFaithful,
         RevisionsAreMonotonic, AuditNamesResolver
<1>6. ASSUME NEW a \in Editors, RevisionsStep(a) PROVE RevisionsInv'
  <2> DEFINE e == editing[a]
  <2>0. /\ e = [op |-> e.op, value |-> e.value, number |-> e.number]
        /\ entity = [value |-> entity.value, writer |-> entity.writer]
    BY <1>2 DEF EditingRecords
  <2>1. /\ e \in EditingRecords /\ entity.writer \in Editors \cup {NoEditor}
        /\ e.value \in Nat /\ e.number \in 1 .. MaxRevisions + 1 /\ entity.value \in Nat
    BY <1>2 DEF EditingRecords
  <2>2. CASE FindEntity(a)
    <3> DEFINE edit == [op |-> "FOUND", value |-> e.value, number |-> e.number]
    <3>0. [e EXCEPT !.op = "FOUND"] = edit
      BY <2>0
    <3>1. editing' = [editing EXCEPT ![a] = edit]
      BY <1>2, <3>0, <2>2 DEF FindEntity
    <3>3. edit \in EditingRecords
      BY <1>2, <2>1 DEF EditingRecords
    <3> QED
      BY <1>2, <2>1, <2>2, <3>1, <3>3, EditingGoesOn DEF FindEntity
  <2>3. CASE WriteEntity(a)
    <3> DEFINE edit == [op |-> "WRITTEN", value |-> entity.value + 1, number |-> e.number]
    <3>0. [e EXCEPT !.op = "WRITTEN", !.value = entity.value + 1] = edit
      BY <2>1, TwoFields
    <3>1. /\ editing' = [editing EXCEPT ![a] = edit]
          /\ entity' = [value |-> entity.value, writer |-> a]
      BY <1>2, <2>0, <3>0, <2>3 DEF WriteEntity
    <3>3. edit \in EditingRecords
      BY <1>2, <2>1 DEF EditingRecords
    <3>4. /\ entity' \in [value : {entity.value}, writer : Editors \cup {NoEditor}]
          /\ entity.writer = NoEditor /\ Len(entityAudit) < MaxRevisions
          /\ UNCHANGED <<revisionSource, entityAudit, observations, quality, qualityAudit>>
      BY <3>1, <2>3 DEF WriteEntity
    <3>5. /\ entity'.writer = a /\ edit.value = entity.value + 1
          /\ \A b \in Editors \ {a} : entity.writer = b => entity'.writer = b
      BY <1>2, <3>1, <3>4
    <3> QED
      BY <3>1, <3>3, <3>4, <3>5, EditingGoesOn
  <2>4. CASE NumberRevision(a)
    <3> DEFINE edit == [op |-> "AUDITED", value |-> e.value, number |-> Len(entityAudit) + 1]
    <3>0. [e EXCEPT !.op = "AUDITED", !.number = Len(entityAudit) + 1] = edit
      BY <2>1, TwoFields
    <3>1. editing' = [editing EXCEPT ![a] = edit]
      BY <1>2, <3>0, <2>4 DEF NumberRevision
    <3>2. entity.writer = a /\ e.value = entity.value + 1 /\ Len(entityAudit) < MaxRevisions
      BY <1>1, <2>4 DEF NumberRevision, WriterHoldsLock
    <3>3. edit \in EditingRecords
      BY <1>2, <2>1, <3>2 DEF EditingRecords
    <3> QED
      BY <1>2, <2>1, <2>4, <3>1, <3>2, <3>3, EditingGoesOn DEF NumberRevision
  <2>5. CASE CommitEntity(a)
    <3> DEFINE row == [number |-> e.number, after |-> e.value]
    <3>1. /\ entity.writer = a /\ e.value = entity.value + 1
          /\ Len(entityAudit) < MaxRevisions /\ e.number = Len(entityAudit) + 1
      BY <1>1, <2>5 DEF CommitEntity, WriterHoldsLock
    <3>2. /\ \A b \in Editors : editing'[b] = IF b = a THEN NoEditing ELSE editing[b]
          /\ editing' \in [Editors -> EditingRecords]
      BY <1>2, <1>3, <2>5 DEF CommitEntity
    <3>3. /\ entity' = [value |-> e.value, writer |-> NoEditor]
          /\ entityAudit' = Append(entityAudit, row)
          /\ row \in AuditRows
      BY <1>2, <2>1, <2>5, <3>1 DEF CommitEntity, AuditRows
    <3>4. /\ entityAudit' \in Seq(AuditRows) /\ Len(entityAudit') = Len(entityAudit) + 1
          /\ \A i \in DOMAIN entityAudit' :
               entityAudit'[i] = IF i = Len(entityAudit) + 1 THEN row ELSE entityAudit[i]
          /\ \A i \in DOMAIN entityAudit' : i # Len(entityAudit) + 1 => i \in DOMAIN entityAudit
      BY <1>2, <3>3
    <3>5. RevisionsTyped'
      BY <1>1, <1>2, <1>3, <2>5, <3>1, <3>2, <3>3, <3>4 DEF CommitEntity, RevisionsTyped
    <3>6. \A b \in Editors : editing'[b].op \notin {"WRITTEN", "AUDITED"}
      BY <1>1, <1>3, <3>1, <3>2 DEF WriterHoldsLock
    <3>7. WriterHoldsLock'
      BY <3>6 DEF WriterHoldsLock
    <3>8. \A i \in DOMAIN entityAudit' : entityAudit'[i].number = i /\ entityAudit'[i].after = i
      BY <1>1, <1>2, <3>1, <3>4 DEF AuditIsFaithful, RevisionsAreMonotonic
    <3>9. entity'.value = Len(entityAudit')
      BY <1>2, <3>1, <3>3, <3>4
    <3>10. AuditNamesResolver'
      BY <1>1, <2>5 DEF CommitEntity, AuditIsFaithful, AuditNamesResolver
    <3> QED
      BY <3>5, <3>7, <3>8, <3>9, <3>10 DEF RevisionsInv, AuditIsFaithful, RevisionsAreMonotonic
  <2>6. CASE BeginReviewObservation(a)
    <3> DEFINE edit == [op |-> "REVIEW", value |-> e.value, number |-> Len(observations) + 1]
    <3>0. [e EXCEPT !.op = "REVIEW", !.number = Len(observations) + 1] = edit
      BY <2>1, TwoFields
    <3>1. editing' = [editing EXCEPT ![a] = edit]
      BY <1>2, <3>0, <2>6 DEF BeginReviewObservation
    <3>2. Len(observations) \in Nat /\ Len(observations) < MaxRevisions
      BY <1>2, <2>6 DEF BeginReviewObservation
    <3>3. edit \in EditingRecords
      BY <1>2, <2>1, <3>2 DEF EditingRecords
    <3> QED
      <4>1. edit.op = "REVIEW" /\ edit.number <= MaxRevisions
        BY <1>2, <3>2
      <4>2. UNCHANGED <<revisionSource, entity, entityAudit, observations, quality, qualityAudit>>
        BY <2>6 DEF BeginReviewObservation
      <4> HIDE DEF edit
      <4> QED
        BY <1>2, <2>0, <2>1, <3>1, <3>3, <4>1, <4>2, EditingGoesOn
  <2>7. CASE CommitReviewObservation(a)
    <3>1. /\ \A b \in Editors : editing'[b] = IF b = a THEN NoEditing ELSE editing[b]
          /\ editing' \in [Editors -> EditingRecords]
      BY <1>2, <1>3, <2>7 DEF CommitReviewObservation
    <3>2. e.number \in 1 .. MaxRevisions
      BY <1>1, <1>2, <2>1, <2>7 DEF CommitReviewObservation, RevisionsTyped
    <3>3. observations' \in Seq(1 .. MaxRevisions)
      BY <1>2, <2>7, <3>2 DEF CommitReviewObservation
    <3>4. RevisionsTyped'
      BY <1>1, <1>3, <2>7, <3>1, <3>3 DEF CommitReviewObservation, RevisionsTyped
    <3>5. WriterHoldsLock' /\ AuditIsFaithful'
      BY <1>1, <1>3, <2>7, <3>1
         DEF CommitReviewObservation, WriterHoldsLock, AuditIsFaithful, RevisionsAreMonotonic,
             AuditNamesResolver
    <3> QED  BY <3>4, <3>5 DEF RevisionsInv
  <2>8. CASE BeginResolve(a)
    <3> DEFINE edit == [op |-> "RESOLVE", value |-> e.value, number |-> e.number]
    <3>0. [e EXCEPT !.op = "RESOLVE"] = edit
      BY <2>0
    <3>1. editing' = [editing EXCEPT ![a] = edit]
      BY <1>2, <3>0, <2>8 DEF BeginResolve
    <3>3. edit \in EditingRecords
      BY <1>2, <2>1 DEF EditingRecords
    <3> QED
      BY <1>2, <2>1, <2>8, <3>1, <3>3, EditingGoesOn DEF BeginResolve
  <2>9. CASE CommitResolve(a)
    <3>1. /\ \A b \in Editors : editing'[b] = IF b = a THEN NoEditing ELSE editing[b]
          /\ editing' \in [Editors -> EditingRecords]
      BY <1>2, <1>3, <2>9 DEF CommitResolve
    <3>2. /\ qualityAudit' = Append(qualityAudit, a) /\ quality' = a
      BY <2>9 DEF CommitResolve
    <3>3. /\ qualityAudit' \in Seq(Editors) /\ Len(qualityAudit') = Len(qualityAudit) + 1
          /\ qualityAudit'[Len(qualityAudit')] = a
      BY <1>2, <3>2
    <3>4. AuditNamesResolver'
      <4>1. qualityAudit' # <<>>
        BY <1>2, <3>2
      <4> QED  BY <1>2, <3>2, <3>3, <4>1 DEF AuditNamesResolver, Last
    <3>5. RevisionsTyped'
      BY <1>1, <1>3, <2>9, <3>1, <3>2, <3>3 DEF CommitResolve, RevisionsTyped
    <3>6. WriterHoldsLock' /\ RevisionsAreMonotonic'
      BY <1>1, <1>3, <2>9, <3>1
         DEF CommitResolve, WriterHoldsLock, AuditIsFaithful, RevisionsAreMonotonic
    <3> QED  BY <3>4, <3>5, <3>6 DEF RevisionsInv, AuditIsFaithful
  <2>10. CASE AbortEditing(a)
    <3>1. entity' \in [value : {entity.value}, writer : Editors \cup {NoEditor}]
          /\ \A b \in Editors \ {a} : entity.writer = b => entity'.writer = b
      BY <1>2, <2>1, <2>10 DEF AbortEditing
    <3> QED
      BY <1>3, <2>10, <3>1, EditingGoesOn DEF AbortEditing
  <2> QED
    BY <1>6, <2>2, <2>3, <2>4, <2>5, <2>6, <2>7, <2>8, <2>9, <2>10 DEF RevisionsStep
<1> QED
  BY <1>4, <1>5, <1>6 DEF RevisionsNext

(* The audit log tells how an entity came to be what it is and who has     *)
(* resolved a data quality event, whatever transactions overlap and abort: *)
(* the audit rows of apps/web/src/lib/admin-service.ts.                    *)
THEOREM AuditStaysFaithful == RevisionsSpec => []AuditIsFaithful
<1>1. RevisionsInv => AuditIsFaithful
  BY DEF RevisionsInv
<1> QED
  BY <1>1, RevisionsInvInit, RevisionsInvStep, PTL DEF RevisionsSpec

-----------------------------------------------------------------------------
(* Catalogue.  What a transaction has read may be replaced when it writes, *)
(* and it is written by id.  What stays is when a version took effect, and *)
(* that versions follow one another without a gap: the next number is free *)
(* only as long as the version that was read is still the latest.          *)

CatalogueTables ==
  /\ catalogueNow \in EntryTimes
  /\ products \in [EntryVersions -> Rows] /\ routes \in [EntryVersions -> Rows]

RowsMatch ==
  \A v \in EntryVersions :
    /\ routes[v].status = products[v].status /\ routes[v].to = products[v].to
    /\ routes[v].content = products[v].content

(* The latest version has ended only if it was archived.                   *)
LatestIsOpen ==
  \A v \in Stored : v + 1 \notin Stored => routes[v].to = NotEnded \/ routes[v].archived

NoGaps == \E k \in 0 .. MaxEntryVersion : Stored = 1 .. k

WorkRecords ==
  [op : {"NONE", "EDIT", "IMPORT", "MATCHED"} \cup Reviews, version : 1 .. MaxEntryVersion + 1,
   at : EntryTimes, payload : Payloads \cup {NoWork.payload}]

(* What is still so of what a transaction has read.                        *)
WorkSound(t) ==
  /\ t.op = "EDIT" => t.version \in Stored /\ routes[t.version].from < t.at
  /\ t.op \in Reviews => t.version \in Stored
  /\ t.op \in {"IMPORT", "MATCHED"} => t.payload \in Payloads
  /\ t.op = "IMPORT" /\ t.version # 1 =>
       t.version - 1 \in Stored /\ routes[t.version - 1].from < t.payload.verifiedAt

CatalogueInv ==
  /\ CatalogueTables /\ RowsMatch /\ NoGaps /\ HistoryIsOrdered /\ LatestIsOpen
  /\ work \in [Workers -> WorkRecords] /\ \A w \in Workers : WorkSound(work[w])

LEMMA CatalogueNumbers ==
  /\ MaxEntryVersion \in Nat \ {0} /\ CatalogueHorizon \in Nat
  /\ \A t \in EntryTimes : t \in Nat /\ t # NotEnded
  /\ \A v \in EntryVersions : v \in Nat /\ v >= 1
  /\ \A p \in Payloads : p.verifiedAt \in EntryTimes /\ p.gated \in BOOLEAN
BY CatalogueConstants DEF EntryTimes, EntryVersions, NotEnded

LEMMA NoWorkSound == NoWork \in WorkRecords /\ NoWork.op = "NONE" /\ WorkSound(NoWork)
BY CatalogueNumbers DEF NoWork, WorkRecords, WorkSound, Reviews, EntryTimes

LEMMA CatalogueInvInit == CatalogueInit => CatalogueInv
<1> SUFFICES ASSUME CatalogueInit PROVE CatalogueInv
  OBVIOUS
<1>1. NoRow \in Rows /\ NoRow.status = "NONE"
  BY CatalogueNumbers DEF NoRow, Rows, EntryStatuses, EntryTimes
<1>2. Stored = {}
  BY <1>1 DEF CatalogueInit, Stored
<1>3. CatalogueTables /\ RowsMatch
  BY <1>1, CatalogueNumbers DEF CatalogueInit, CatalogueTables, RowsMatch, EntryTimes
<1>4. NoGaps
  <2>1. Stored = 1 .. 0 /\ 0 \in 0 .. MaxEntryVersion
    BY <1>2, CatalogueNumbers
  <2> QED  BY <2>1 DEF NoGaps
<1>5. HistoryIsOrdered /\ LatestIsOpen
  BY <1>2 DEF HistoryIsOrdered, LatestIsOpen
<1>6. work \in [Workers -> WorkRecords] /\ \A w \in Workers : WorkSound(work[w])
  BY NoWorkSound DEF CatalogueInit
<1> QED  BY <1>3, <1>4, <1>5, <1>6 DEF CatalogueInv

LEMMA CoherentFollows == CatalogueInv => CatalogueIsCoherent
<1> SUFFICES ASSUME CatalogueInv PROVE CatalogueIsCoherent
  OBVIOUS
<1>1. ASSUME NEW v \in Visible, NEW u \in Stored PROVE u <= v
  <2>1. PICK k \in 0 .. MaxEntryVersion : Stored = 1 .. k
    BY DEF CatalogueInv, NoGaps
  <2>2. v \in Stored /\ routes[v].to = NotEnded
    BY <1>1 DEF Visible
  <2>3. v + 1 \notin Stored
    BY <2>2 DEF CatalogueInv, HistoryIsOrdered
  <2> QED  BY <2>1, <2>2, <2>3
<1> QED  BY <1>1 DEF CatalogueInv, RowsMatch, CatalogueIsCoherent, PairsAgree

-----------------------------------------------------------------------------
(* What becomes of a row.                                                  *)
RowFields == {"status", "from", "to", "content", "active", "archived"}

LEMMA SupersededFields ==
  ASSUME NEW row \in Rows, NEW at \in EntryTimes
  PROVE  SupersededRow(row, at) =
           [status |-> "SUPERSEDED", from |-> row.from, to |-> at, content |-> row.content,
            active |-> row.active, archived |-> row.archived]
<1> DEFINE byField == [i \in RowFields |-> CASE i = "status" -> "SUPERSEDED" [] i = "to" -> at
                                            [] OTHER -> row[i]]
<1>1. DOMAIN row = RowFields
  BY DEF Rows, RowFields
<1>2. SupersededRow(row, at) = byField
  BY <1>1 DEF SupersededRow
<1>3. byField = [status |-> "SUPERSEDED", from |-> row.from, to |-> at, content |-> row.content,
                 active |-> row.active, archived |-> row.archived]
  BY DEF RowFields
<1> QED  BY <1>2, <1>3

COROLLARY SupersededTyped ==
  ASSUME NEW row \in Rows, NEW at \in EntryTimes
  PROVE  SupersededRow(row, at) \in Rows
BY SupersededFields DEF Rows, EntryStatuses

(* The status that a review gives.                                         *)
Given(op) == CASE op = "VERIFY" -> "REVIEWED" [] op = "PUBLISH" -> "PUBLISHED"
               [] op = "REJECT" -> "REJECTED" [] op = "ARCHIVE" -> "ARCHIVED"

LEMMA ReviewedFields ==
  ASSUME NEW row \in Rows, NEW at \in EntryTimes, NEW op \in Reviews \ {"SET_LIFECYCLE"},
         NEW new, new = ReviewedRow(row, op, at)
  PROVE  /\ new \in Rows /\ new.status = Given(op) /\ new.status # "NONE"
         /\ new.from = row.from /\ new.content = row.content
         /\ new.to = IF op = "ARCHIVE" THEN at ELSE row.to
         /\ op = "ARCHIVE" => new.archived
         /\ row.archived => new.archived
<1>1. CASE op # "ARCHIVE"
  <2>1. new = [row EXCEPT !.status = Given(op)]
    BY <1>1 DEF ReviewedRow, Given, Reviews
  <2>2. Given(op) \in EntryStatuses \ {"NONE"}
    BY DEF Given, Reviews, EntryStatuses
  <2> QED  BY <1>1, <2>1, <2>2 DEF Rows
<1>2. CASE op = "ARCHIVE"
  <2> DEFINE b1 == [row EXCEPT !.status = "ARCHIVED"]
             b2 == [b1 EXCEPT !.to = at]
             b3 == [b2 EXCEPT !.active = FALSE]
             b4 == [b3 EXCEPT !.archived = TRUE]
  <2>1. /\ b1 \in Rows /\ b1.status = "ARCHIVED" /\ b1.from = row.from
        /\ b1.content = row.content
    BY DEF Rows, EntryStatuses
  <2>2. new = b4
    BY <1>2 DEF ReviewedRow
  <2> HIDE DEF b1
  <2>3. /\ b2 \in Rows /\ b2.status = b1.status /\ b2.from = b1.from
        /\ b2.content = b1.content /\ b2.to = at
    BY <2>1 DEF Rows
  <2> HIDE DEF b2
  <2>4. /\ b3 \in Rows /\ b3.status = b2.status /\ b3.from = b2.from
        /\ b3.content = b2.content /\ b3.to = b2.to
    BY <2>3 DEF Rows
  <2> HIDE DEF b3
  <2>5. /\ b4 \in Rows /\ b4.status = b3.status /\ b4.from = b3.from
        /\ b4.content = b3.content /\ b4.to = b3.to /\ b4.archived
    BY <2>4 DEF Rows
  <2> HIDE DEF b4
  <2> QED  BY <1>2, <2>1, <2>2, <2>3, <2>4, <2>5 DEF Given
<1> QED  BY <1>1, <1>2

-----------------------------------------------------------------------------
(* What a write keeps of what transactions have read.                      *)
LEMMA WorkKeeps ==
  ASSUME CatalogueInv, NEW w \in Workers, NEW t \in WorkRecords,
         \A v \in Stored : v \in Stored' /\ routes'[v].from = routes[v].from,
         work' = [work EXCEPT ![w] = t], t.op # "NONE" => WorkSound(t)'
  PROVE  work' \in [Workers -> WorkRecords] /\ \A x \in Workers : WorkSound(work[x])'
<1>1. work \in [Workers -> WorkRecords]
  BY DEF CatalogueInv
<1>2. \A x \in Workers : work'[x] = IF x = w THEN t ELSE work[x]
  BY <1>1
<1>3. ASSUME NEW x \in Workers PROVE WorkSound(work[x])'
  <2>1. PICK u : u = work'[x]
    OBVIOUS
  <2> SUFFICES WorkSound(u)'
    BY <2>1
  <2>2. CASE x = w
    BY <1>2, <2>1, <2>2 DEF WorkSound, Reviews
  <2>3. CASE x # w
    <3>1. WorkSound(u)
      BY <1>2, <2>1, <2>3 DEF CatalogueInv
    <3> QED  BY <3>1 DEF WorkSound
  <2> QED  BY <2>2, <2>3
<1> QED  BY <1>1, <1>3

(* Rows are reviewed, none is added.                                       *)
LEMMA HistoryStays ==
  ASSUME CatalogueInv, Stored' = Stored,
         \A v \in Stored :
           /\ routes'[v].from = routes[v].from /\ (routes[v].archived => routes'[v].archived)
           /\ \/ routes'[v].to = routes[v].to
              \/ routes'[v].to # NotEnded /\ routes'[v].archived
  PROVE  NoGaps' /\ HistoryIsOrdered' /\ LatestIsOpen'
<1>1. NoGaps /\ HistoryIsOrdered /\ LatestIsOpen
  BY DEF CatalogueInv
<1> QED  BY <1>1 DEF NoGaps, HistoryIsOrdered, LatestIsOpen

(* The next version is added, and the one before it ends.                  *)
LEMMA HistoryGrows ==
  ASSUME CatalogueInv, NEW n \in EntryVersions, n \notin Stored, n = 1 => Stored = {},
         n # 1 => /\ n - 1 \in Stored
                  /\ routes'[n - 1].from = routes[n - 1].from
                  /\ routes[n - 1].from < routes'[n].from
                  /\ routes'[n - 1].to # NotEnded
                  /\ routes'[n - 1].archived \/ routes'[n - 1].to = routes'[n].from,
         Stored' = Stored \cup {n}, routes'[n].to = NotEnded,
         \A v \in Stored : v # n - 1 => routes'[v] = routes[v]
  PROVE  NoGaps' /\ HistoryIsOrdered' /\ LatestIsOpen'
<1>1. PICK k \in 0 .. MaxEntryVersion : Stored = 1 .. k
  BY DEF CatalogueInv, NoGaps
<1>2. n = k + 1 /\ k \in Nat /\ n \in Nat /\ n \in 0 .. MaxEntryVersion
  <2>1. n \in 1 .. MaxEntryVersion
    BY DEF EntryVersions
  <2> QED  BY <1>1, <2>1, CatalogueNumbers
<1>3. Stored' = 1 .. n
  BY <1>1, <1>2
<1>4. NoGaps'
  BY <1>2, <1>3 DEF NoGaps
<1>5. \A v \in Stored' : v + 1 \notin Stored' => v = n
  BY <1>2, <1>3
<1>6. LatestIsOpen'
  BY <1>5 DEF LatestIsOpen
<1>7. ASSUME NEW v \in Stored', v + 1 \in Stored'
      PROVE  /\ routes'[v].from < routes'[v + 1].from
             /\ routes'[v].to # NotEnded
             /\ routes'[v].archived \/ routes'[v].to = routes'[v + 1].from
  <2>1. v \in 1 .. k /\ v + 1 \in 1 .. k + 1
    BY <1>2, <1>3, <1>7
  <2>2. CASE v = k
    <3>1. v = n - 1 /\ n # 1 /\ v + 1 = n
      BY <1>2, <2>1, <2>2
    <3> QED  BY <3>1
  <2>3. CASE v # k
    <3>1. v \in Stored /\ v + 1 \in Stored /\ v # n - 1 /\ routes'[v] = routes[v]
      BY <1>1, <1>2, <2>1, <2>3
    <3>2. routes'[v + 1].from = routes[v + 1].from
      BY <1>1, <1>2, <2>1, <2>3, <3>1
    <3> QED  BY <3>1, <3>2 DEF CatalogueInv, HistoryIsOrdered
  <2> QED  BY <2>2, <2>3
<1>8. HistoryIsOrdered'
  BY <1>7 DEF HistoryIsOrdered
<1> QED  BY <1>4, <1>6, <1>8

(* A transaction begins or is given up; the tables stay.                   *)
LEMMA TablesStay ==
  ASSUME CatalogueInv, UNCHANGED <<products, routes>>, catalogueNow' \in EntryTimes,
         work' \in [Workers -> WorkRecords], \A w \in Workers : WorkSound(work'[w])
  PROVE  CatalogueInv'
<1>1. Stored' = Stored
  BY DEF Stored
<1>2. CatalogueTables' /\ RowsMatch'
  BY DEF CatalogueInv, CatalogueTables, RowsMatch
<1>3. NoGaps' /\ HistoryIsOrdered' /\ LatestIsOpen'
  BY <1>1 DEF CatalogueInv, NoGaps, HistoryIsOrdered, LatestIsOpen
<1>4. ASSUME NEW w \in Workers PROVE WorkSound(work[w])'
  BY <1>1 DEF WorkSound
<1> QED  BY <1>2, <1>3, <1>4 DEF CatalogueInv

LEMMA StartKeepsWork ==
  ASSUME CatalogueInv, NEW w \in Workers, NEW op \in {"EDIT", "IMPORT", "MATCHED"} \cup Reviews,
         NEW v \in 1 .. MaxEntryVersion + 1, NEW payload \in Payloads \cup {NoWork.payload},
         Start(w, op, v, payload),
         WorkSound([op |-> op, version |-> v, at |-> catalogueNow, payload |-> payload])
  PROVE  CatalogueInv'
<1>1. PICK t : t = [op |-> op, version |-> v, at |-> catalogueNow, payload |-> payload]
  OBVIOUS
<1>2. t \in WorkRecords /\ WorkSound(t)
  BY <1>1 DEF CatalogueInv, CatalogueTables, WorkRecords
<1>3. /\ work' = [work EXCEPT ![w] = t] /\ UNCHANGED <<products, routes, catalogueNow>>
      /\ work \in [Workers -> WorkRecords]
  BY <1>1 DEF Start, CatalogueInv
<1>4. \A x \in Workers : work'[x] = IF x = w THEN t ELSE work[x]
  BY <1>3
<1>5. \A x \in Workers : WorkSound(work'[x])
  BY <1>2, <1>4 DEF CatalogueInv
<1> QED
  BY <1>2, <1>3, <1>5, TablesStay DEF CatalogueInv, CatalogueTables

LEMMA BeginEditKeeps ==
  ASSUME CatalogueInv, NEW w \in CatalogueEditors, NEW v \in EntryVersions, BeginEdit(w, v)
  PROVE  CatalogueInv'
<1>1. v \in Stored /\ routes[v].from < catalogueNow
  BY CatalogueNumbers DEF BeginEdit, Current, CatalogueInv, CatalogueTables, Rows
<1>2. v \in 1 .. MaxEntryVersion + 1 /\ w \in Workers
  BY CatalogueNumbers DEF EntryVersions, Workers
<1>3. WorkSound([op |-> "EDIT", version |-> v, at |-> catalogueNow, payload |-> NoWork.payload])
  BY <1>1 DEF WorkSound, Reviews
<1> QED  BY <1>2, <1>3, StartKeepsWork DEF BeginEdit

LEMMA BeginPatchKeeps ==
  ASSUME CatalogueInv, NEW w \in CatalogueEditors, NEW v \in EntryVersions, NEW op \in Reviews,
         BeginPatch(w, v, op)
  PROVE  CatalogueInv'
<1>1. v \in Stored
  BY DEF BeginPatch, Current
<1>2. v \in 1 .. MaxEntryVersion + 1 /\ w \in Workers
  BY CatalogueNumbers DEF EntryVersions, Workers
<1>3. WorkSound([op |-> op, version |-> v, at |-> catalogueNow, payload |-> NoWork.payload])
  BY <1>1 DEF WorkSound, Reviews
<1> QED  BY <1>2, <1>3, StartKeepsWork DEF BeginPatch

LEMMA BeginImportKeeps ==
  ASSUME CatalogueInv, NEW p \in Payloads, BeginImport(p)
  PROVE  CatalogueInv'
<1>1. PICK k \in 0 .. MaxEntryVersion : Stored = 1 .. k
  BY DEF CatalogueInv, NoGaps
<1>2. Cardinality(Stored) = k
  <2>1. k \in Nat /\ Cardinality(1 .. k) = IF 1 > k THEN 0 ELSE k - 1 + 1
    BY CatalogueNumbers, FS_Interval
  <2> QED  BY <1>1, <2>1
<1>3. Importer \in Workers /\ p \in Payloads \cup {NoWork.payload} /\ k \in Nat
  BY <1>1, CatalogueNumbers DEF Workers
<1>4. CASE k > 0 /\ Start(Importer, "MATCHED", k, p)
  <2>1. WorkSound([op |-> "MATCHED", version |-> k, at |-> catalogueNow, payload |-> p])
    BY DEF WorkSound, Reviews
  <2>2. k \in 1 .. MaxEntryVersion + 1
    BY <1>1, <1>4, CatalogueNumbers
  <2> QED  BY <1>3, <1>4, <2>1, <2>2, StartKeepsWork
<1>5. CASE k > 0 /\ Monotonic(p, k) /\ Start(Importer, "IMPORT", k + 1, p)
  <2>1. k \in Stored /\ k + 1 \in 1 .. MaxEntryVersion + 1 /\ (k + 1) - 1 = k
    BY <1>1, <1>5, CatalogueNumbers
  <2>2. routes[k].from < p.verifiedAt
    <3>1. routes[k] \in Rows
      BY <2>1 DEF CatalogueInv, CatalogueTables, Stored
    <3> QED  BY <1>5, <3>1, CatalogueNumbers DEF Monotonic, Rows
  <2>3. WorkSound([op |-> "IMPORT", version |-> k + 1, at |-> catalogueNow, payload |-> p])
    BY <2>1, <2>2 DEF WorkSound, Reviews
  <2> QED  BY <1>3, <1>5, <2>1, <2>3, StartKeepsWork
<1>6. CASE Start(Importer, "IMPORT", 1, p)
  <2>1. WorkSound([op |-> "IMPORT", version |-> 1, at |-> catalogueNow, payload |-> p])
    BY DEF WorkSound, Reviews
  <2>2. 1 \in 1 .. MaxEntryVersion + 1
    BY CatalogueNumbers
  <2> QED  BY <1>3, <1>6, <2>1, <2>2, StartKeepsWork
<1> QED  BY <1>2, <1>3, <1>4, <1>5, <1>6 DEF BeginImport

LEMMA QuietKeeps ==
  ASSUME CatalogueInv,
         CatalogueTick \/ SourceReviewed \/ CommitMatched \/ (\E w \in Workers : Abandon(w))
           \/ UNCHANGED catalogueVars
  PROVE  CatalogueInv'
<1>1. UNCHANGED <<products, routes>> /\ catalogueNow' \in EntryTimes
  BY CatalogueNumbers
     DEF CatalogueTick, SourceReviewed, CommitMatched, Abandon, catalogueVars, CatalogueInv,
         CatalogueTables, EntryTimes
<1>2. work' = work \/ \E w \in Workers : work' = [work EXCEPT ![w] = NoWork]
  BY DEF CatalogueTick, SourceReviewed, CommitMatched, Abandon, catalogueVars, Finish, Workers
<1>3. work' \in [Workers -> WorkRecords] /\ \A w \in Workers : WorkSound(work'[w])
  BY <1>2, NoWorkSound DEF CatalogueInv
<1> QED  BY <1>1, <1>3, TablesStay

-----------------------------------------------------------------------------
(* The transactions that write.                                            *)
LEMMA DraftRow ==
  ASSUME NEW at \in EntryTimes, NEW row, row = [NoRow EXCEPT !.status = "DRAFT", !.from = at]
  PROVE  /\ row \in Rows /\ row.status = "DRAFT" /\ row.from = at /\ row.to = NotEnded
<1> DEFINE byField == [i \in RowFields |-> CASE i = "status" -> "DRAFT" [] i = "from" -> at
                                            [] OTHER -> NoRow[i]]
<1>1. NoRow \in Rows /\ NoRow.to = NotEnded
  BY CatalogueNumbers DEF NoRow, Rows, EntryStatuses, EntryTimes
<1>2. DOMAIN NoRow = RowFields
  BY <1>1 DEF Rows, RowFields
<1>3. row = byField
  BY <1>2
<1>4. byField = [status |-> "DRAFT", from |-> at, to |-> NoRow.to, content |-> NoRow.content,
                 active |-> NoRow.active, archived |-> NoRow.archived]
  BY DEF RowFields
<1> HIDE DEF byField
<1> QED  BY <1>1, <1>3, <1>4 DEF Rows, EntryStatuses

LEMMA CreateEntryKeeps == ASSUME CatalogueInv, CreateEntry PROVE CatalogueInv'
<1>1. PICK row : row = [NoRow EXCEPT !.status = "DRAFT", !.from = catalogueNow]
  OBVIOUS
<1>2. row \in Rows /\ row.status = "DRAFT" /\ row.to = NotEnded
  BY <1>1, DraftRow DEF CatalogueInv, CatalogueTables
<1>3. /\ Stored = {} /\ products' = [products EXCEPT ![1] = row]
      /\ routes' = [routes EXCEPT ![1] = row]
      /\ UNCHANGED <<catalogueNow, work>>
  BY <1>1 DEF CreateEntry, Store
<1>4. /\ 1 \in EntryVersions
      /\ products \in [EntryVersions -> Rows] /\ routes \in [EntryVersions -> Rows]
  BY CatalogueNumbers DEF EntryVersions, CatalogueInv, CatalogueTables
<1>5. \A v \in EntryVersions : /\ products'[v] = IF v = 1 THEN row ELSE products[v]
                               /\ routes'[v] = IF v = 1 THEN row ELSE routes[v]
  BY <1>3, <1>4
<1>6. CatalogueTables' /\ RowsMatch'
  BY <1>2, <1>3, <1>4, <1>5 DEF CatalogueInv, CatalogueTables, RowsMatch
<1>7. Stored' = Stored \cup {1}
  BY <1>2, <1>4, <1>5 DEF Stored
<1>8. NoGaps' /\ HistoryIsOrdered' /\ LatestIsOpen'
  BY <1>2, <1>3, <1>4, <1>5, <1>7, HistoryGrows
<1>9. ASSUME NEW w \in Workers PROVE WorkSound(work[w])'
  BY <1>3 DEF CatalogueInv, WorkSound
<1> QED  BY <1>3, <1>6, <1>8, <1>9 DEF CatalogueInv

(* The version before the next one is replaced, unless it had ended.       *)
Replaces(n, at) ==
  \A v \in EntryVersions \ {n} :
    \/ /\ routes'[v] = routes[v] /\ products'[v] = products[v]
       /\ v = n - 1 => routes[v].to # NotEnded
    \/ /\ v = n - 1 /\ routes'[v] = SupersededRow(routes[v], at)
       /\ products'[v] = SupersededRow(products[v], at)

LEMMA NextVersionKeeps ==
  ASSUME CatalogueInv, NEW w \in Workers, work' = [work EXCEPT ![w] = NoWork],
         catalogueNow' = catalogueNow,
         NEW n \in EntryVersions, n \notin Stored, n = 1 \/ n - 1 \in Stored,
         NEW at \in EntryTimes, n # 1 => routes[n - 1].from < at,
         NEW row \in Rows, row.status # "NONE", row.from = at, row.to = NotEnded,
         products' \in [EntryVersions -> Rows], routes' \in [EntryVersions -> Rows],
         products'[n] = row, routes'[n] = row,
         Replaces(n, at)
  PROVE  CatalogueInv'
<1>1. PICK k \in 0 .. MaxEntryVersion : Stored = 1 .. k
  BY DEF CatalogueInv, NoGaps
<1>2. n \in 1 .. MaxEntryVersion /\ n \in Nat /\ k \in Nat /\ n = k + 1
  <2>1. n \in 1 .. MaxEntryVersion
    BY DEF EntryVersions
  <2> QED  BY <1>1, <2>1, CatalogueNumbers
<1>3. ASSUME NEW v \in EntryVersions, routes'[v] = SupersededRow(routes[v], at),
             products'[v] = SupersededRow(products[v], at)
      PROVE  /\ routes'[v].status = "SUPERSEDED" /\ products'[v].status = "SUPERSEDED"
             /\ routes'[v].to = at /\ products'[v].to = at /\ at # NotEnded
             /\ routes'[v].from = routes[v].from /\ routes'[v].content = routes[v].content
             /\ products'[v].content = products[v].content
  <2>1. routes[v] \in Rows /\ products[v] \in Rows
    BY DEF CatalogueInv, CatalogueTables
  <2> QED  BY <1>3, <2>1, SupersededFields, CatalogueNumbers
<1>4. CatalogueTables' /\ RowsMatch'
  BY <1>3 DEF Replaces, CatalogueInv, CatalogueTables, RowsMatch
<1>5. ASSUME NEW v \in EntryVersions, v # n
      PROVE  /\ routes'[v].from = routes[v].from
             /\ v \in Stored => routes'[v].status # "NONE"
             /\ v \notin Stored => routes'[v] = routes[v]
  <2>1. v = n - 1 => v \in Stored
    BY <1>1, <1>2, CatalogueNumbers
  <2> QED  BY <1>3, <1>5, <2>1 DEF Replaces, Stored
<1>6. Stored' = Stored \cup {n}
  BY <1>5 DEF Stored
<1>7. n = 1 => Stored = {}
  BY <1>1, <1>2
<1>8. n # 1 => /\ n - 1 \in Stored /\ n - 1 \in EntryVersions /\ n - 1 # n
               /\ n - 1 + 1 \notin Stored
  BY <1>2 DEF Stored
<1>9. n # 1 => /\ routes'[n - 1].from = routes[n - 1].from
               /\ routes'[n - 1].to # NotEnded
               /\ routes'[n - 1].archived \/ routes'[n - 1].to = routes'[n].from
  <2> SUFFICES ASSUME n # 1
               PROVE  /\ routes'[n - 1].from = routes[n - 1].from
                      /\ routes'[n - 1].to # NotEnded
                      /\ routes'[n - 1].archived \/ routes'[n - 1].to = routes'[n].from
    OBVIOUS
  <2>1. CASE routes'[n - 1] = routes[n - 1] /\ routes[n - 1].to # NotEnded
    BY <1>8, <2>1 DEF CatalogueInv, LatestIsOpen
  <2>2. CASE routes'[n - 1] = SupersededRow(routes[n - 1], at)
             /\ products'[n - 1] = SupersededRow(products[n - 1], at)
    BY <1>3, <1>8, <2>2
  <2> QED  BY <1>8, <2>1, <2>2 DEF Replaces
<1>10. \A v \in Stored : v # n - 1 => routes'[v] = routes[v]
  BY DEF Replaces, Stored
<1>11. NoGaps' /\ HistoryIsOrdered' /\ LatestIsOpen'
  BY <1>6, <1>7, <1>8, <1>9, <1>10, HistoryGrows
<1>12. \A v \in Stored : v \in Stored' /\ routes'[v].from = routes[v].from
  BY <1>5, <1>6 DEF Stored
<1>13. work' \in [Workers -> WorkRecords] /\ \A x \in Workers : WorkSound(work[x])'
  BY <1>12, NoWorkSound, WorkKeeps
<1> QED  BY <1>4, <1>11, <1>13 DEF CatalogueInv

LEMMA CommitEditKeeps ==
  ASSUME CatalogueInv, NEW w \in CatalogueEditors, CommitEdit(w) PROVE CatalogueInv'
<1>1. PICK v, at, row, n : /\ v = work[w].version /\ at = work[w].at /\ n = v + 1
                           /\ row = [NoRow EXCEPT !.status = "DRAFT", !.from = at]
  OBVIOUS
<1>2. w \in Workers /\ work[w] \in WorkRecords /\ WorkSound(work[w]) /\ work[w].op = "EDIT"
  BY DEF Workers, CatalogueInv, CommitEdit
<1>3. at \in EntryTimes /\ v \in Stored /\ routes[v].from < at /\ v \in EntryVersions
  BY <1>1, <1>2 DEF WorkRecords, WorkSound, Stored
<1>4. row \in Rows /\ row.status # "NONE" /\ row.from = at /\ row.to = NotEnded
  BY <1>1, <1>3, DraftRow
<1>5. /\ n \in EntryVersions /\ n \notin Stored /\ n - 1 = v /\ n # v
      /\ products \in [EntryVersions -> Rows] /\ routes \in [EntryVersions -> Rows]
  BY <1>1, <1>3, CatalogueNumbers DEF CommitEdit, CatalogueInv, CatalogueTables
<1>6. PICK p, r : p = SupersededRow(products[v], at) /\ r = SupersededRow(routes[v], at)
  OBVIOUS
<1>7. p \in Rows /\ r \in Rows
  BY <1>3, <1>5, <1>6, SupersededTyped
<1>8. /\ products' = [products EXCEPT ![v] = p, ![n] = row]
      /\ routes' = [routes EXCEPT ![v] = r, ![n] = row]
      /\ work' = [work EXCEPT ![w] = NoWork] /\ catalogueNow' = catalogueNow
  BY <1>1, <1>6 DEF CommitEdit, Store, Finish
<1>9. /\ products' \in [EntryVersions -> Rows] /\ routes' \in [EntryVersions -> Rows]
      /\ \A u \in EntryVersions :
           /\ products'[u] = IF u = n THEN row ELSE IF u = v THEN p ELSE products[u]
           /\ routes'[u] = IF u = n THEN row ELSE IF u = v THEN r ELSE routes[u]
  BY <1>3, <1>4, <1>5, <1>7, <1>8
<1>10. Replaces(n, at)
  BY <1>5, <1>6, <1>9 DEF Replaces
<1>11. /\ n = 1 \/ n - 1 \in Stored
       /\ n # 1 => routes[n - 1].from < at
       /\ products'[n] = row /\ routes'[n] = row
  BY <1>3, <1>5, <1>9
<1>12. n \in EntryVersions /\ n \notin Stored
  BY <1>5
<1> QED
  BY <1>2, <1>3, <1>4, <1>8, <1>9, <1>10, <1>11, <1>12, NextVersionKeeps

LEMMA CommitImportKeeps == ASSUME CatalogueInv, CommitImport PROVE CatalogueInv'
<1>1. PICK p, n, at, row : /\ p = work[Importer].payload /\ n = work[Importer].version
                           /\ at = p.verifiedAt /\ row = ImportedRow(p)
  OBVIOUS
<1>2. /\ Importer \in Workers /\ work[Importer] \in WorkRecords /\ WorkSound(work[Importer])
      /\ work[Importer].op = "IMPORT"
  BY DEF Workers, CatalogueInv, CommitImport
<1>3. /\ p \in Payloads /\ at \in EntryTimes /\ n \in EntryVersions /\ n \notin Stored
      /\ n # 1 => n - 1 \in Stored /\ routes[n - 1].from < at
  BY <1>1, <1>2, CatalogueNumbers DEF WorkSound, CommitImport
<1>4. row \in Rows /\ row.status # "NONE" /\ row.from = at /\ row.to = NotEnded
  BY <1>1, <1>3 DEF ImportedRow, Rows, EntryStatuses
<1>5. /\ products \in [EntryVersions -> Rows] /\ routes \in [EntryVersions -> Rows]
      /\ RowsMatch
  BY DEF CatalogueInv, CatalogueTables
<1>6. ASSUME NEW rows \in [EntryVersions -> Rows]
      PROVE  EndedBefore(rows, n, at) \in [EntryVersions -> Rows]
  <2>1. ASSUME NEW v \in EntryVersions
        PROVE  SupersededRow(rows[v], at) \in Rows /\ rows[v] \in Rows
    BY <1>3, <1>6, SupersededTyped
  <2> QED  BY <2>1 DEF EndedBefore
<1>7. /\ products' = [EndedBefore(products, n, at) EXCEPT ![n] = row]
      /\ routes' = [EndedBefore(routes, n, at) EXCEPT ![n] = row]
      /\ work' = [work EXCEPT ![Importer] = NoWork] /\ catalogueNow' = catalogueNow
  BY <1>1 DEF CommitImport, Store, Finish
<1>8. /\ products' \in [EntryVersions -> Rows] /\ routes' \in [EntryVersions -> Rows]
      /\ \A u \in EntryVersions :
           /\ products'[u] = IF u = n THEN row ELSE EndedBefore(products, n, at)[u]
           /\ routes'[u] = IF u = n THEN row ELSE EndedBefore(routes, n, at)[u]
  BY <1>3, <1>4, <1>5, <1>6, <1>7
<1>9. Replaces(n, at)
  <2> SUFFICES ASSUME NEW u \in EntryVersions \ {n}
      PROVE  \/ /\ routes'[u] = routes[u] /\ products'[u] = products[u]
                /\ u = n - 1 => routes[u].to # NotEnded
             \/ /\ u = n - 1 /\ routes'[u] = SupersededRow(routes[u], at)
                /\ products'[u] = SupersededRow(products[u], at)
    BY DEF Replaces
  <2>1. routes[u].to = products[u].to
    BY <1>5 DEF RowsMatch
  <2>2. CASE u = n - 1 /\ routes[u].to = NotEnded
    BY <1>8, <2>1, <2>2 DEF EndedBefore
  <2>3. CASE ~(u = n - 1 /\ routes[u].to = NotEnded)
    BY <1>8, <2>1, <2>3 DEF EndedBefore
  <2> QED  BY <2>2, <2>3
<1>10. /\ products'[n] = row /\ routes'[n] = row
       /\ n = 1 \/ n - 1 \in Stored
       /\ n # 1 => routes[n - 1].from < at
  BY <1>3, <1>8
<1> QED
  BY <1>2, <1>3, <1>4, <1>7, <1>8, <1>9, <1>10, NextVersionKeeps

(* A review is written by id, whatever the version has become.             *)
LEMMA ReviewsKeep ==
  ASSUME CatalogueInv, NEW w \in Workers, work' = [work EXCEPT ![w] = NoWork],
         catalogueNow' = catalogueNow, NEW v \in Stored, NEW p \in Rows, NEW r \in Rows,
         products' = [products EXCEPT ![v] = p], routes' = [routes EXCEPT ![v] = r],
         r.status = p.status, r.to = p.to, r.content = p.content,
         r.status # "NONE", r.from = routes[v].from, routes[v].archived => r.archived,
         r.to = routes[v].to \/ (r.to # NotEnded /\ r.archived)
  PROVE  CatalogueInv'
<1>1. /\ products \in [EntryVersions -> Rows] /\ routes \in [EntryVersions -> Rows]
      /\ v \in EntryVersions
  BY DEF CatalogueInv, CatalogueTables, Stored
<1>2. \A u \in EntryVersions : /\ products'[u] = IF u = v THEN p ELSE products[u]
                               /\ routes'[u] = IF u = v THEN r ELSE routes[u]
  BY <1>1
<1>3. CatalogueTables' /\ RowsMatch'
  BY <1>1, <1>2 DEF CatalogueInv, CatalogueTables, RowsMatch
<1>4. Stored' = Stored
  BY <1>2 DEF Stored
<1>5. \A u \in Stored :
        /\ routes'[u].from = routes[u].from /\ (routes[u].archived => routes'[u].archived)
        /\ \/ routes'[u].to = routes[u].to
           \/ routes'[u].to # NotEnded /\ routes'[u].archived
  BY <1>2 DEF Stored
<1>6. NoGaps' /\ HistoryIsOrdered' /\ LatestIsOpen'
  BY <1>4, <1>5, HistoryStays
<1>7. work' \in [Workers -> WorkRecords] /\ \A x \in Workers : WorkSound(work[x])'
  BY <1>4, <1>5, NoWorkSound, WorkKeeps
<1> QED  BY <1>3, <1>6, <1>7 DEF CatalogueInv

LEMMA CommitReviewKeeps ==
  ASSUME CatalogueInv, NEW w \in CatalogueEditors, CommitReview(w) PROVE CatalogueInv'
<1>1. PICK v, op, at : v = work[w].version /\ op = work[w].op /\ at = work[w].at
  OBVIOUS
<1>2. /\ w \in Workers /\ work[w] \in WorkRecords /\ WorkSound(work[w])
      /\ op \in Reviews \ {"SET_LIFECYCLE"}
  BY <1>1 DEF Workers, CatalogueInv, CommitReview
<1>3. at \in EntryTimes /\ v \in Stored /\ v \in EntryVersions /\ at # NotEnded
  BY <1>1, <1>2, CatalogueNumbers DEF WorkRecords, WorkSound, Stored
<1>4. products[v] \in Rows /\ routes[v] \in Rows
      /\ routes[v].status = products[v].status /\ routes[v].to = products[v].to
      /\ routes[v].content = products[v].content
  BY <1>3 DEF CatalogueInv, CatalogueTables, RowsMatch
<1>5. PICK p, r : p = ReviewedRow(products[v], op, at) /\ r = ReviewedRow(routes[v], op, at)
  OBVIOUS
<1>6. /\ products' = [products EXCEPT ![v] = p] /\ routes' = [routes EXCEPT ![v] = r]
      /\ work' = [work EXCEPT ![w] = NoWork] /\ catalogueNow' = catalogueNow
  BY <1>1, <1>5 DEF CommitReview, Store, Finish
<1>7. /\ p \in Rows /\ p.status = Given(op) /\ p.content = products[v].content
      /\ p.to = IF op = "ARCHIVE" THEN at ELSE products[v].to
  BY <1>2, <1>3, <1>4, <1>5, ReviewedFields
<1>8. /\ r \in Rows /\ r.status = Given(op) /\ r.status # "NONE"
      /\ r.content = routes[v].content /\ r.from = routes[v].from
      /\ r.to = IF op = "ARCHIVE" THEN at ELSE routes[v].to
      /\ op = "ARCHIVE" => r.archived
      /\ routes[v].archived => r.archived
  BY <1>2, <1>3, <1>4, <1>5, ReviewedFields
<1>9. /\ r.status = p.status /\ r.to = p.to /\ r.content = p.content
      /\ routes[v].archived => r.archived
      /\ r.to = routes[v].to \/ (r.to # NotEnded /\ r.archived)
  BY <1>3, <1>4, <1>7, <1>8
<1> QED
  BY <1>2, <1>3, <1>6, <1>7, <1>8, <1>9, ReviewsKeep

LEMMA CommitLifecycleKeeps ==
  ASSUME CatalogueInv, NEW w \in CatalogueEditors, CommitLifecycle(w) PROVE CatalogueInv'
<1>1. PICK v : v = work[w].version
  OBVIOUS
<1>2. w \in Workers /\ work[w] \in WorkRecords /\ WorkSound(work[w]) /\ work[w].op \in Reviews
  BY DEF Workers, CatalogueInv, CommitLifecycle, Reviews
<1>3. v \in Stored /\ v \in EntryVersions
  BY <1>1, <1>2 DEF WorkSound, Stored
<1>4. PICK active \in BOOLEAN : Store(products, [routes EXCEPT ![v].active = active])
  BY <1>1 DEF CommitLifecycle
<1>5. PICK r : r = [routes[v] EXCEPT !.active = active]
  OBVIOUS
<1>6. /\ products[v] \in Rows /\ routes[v] \in Rows /\ products \in [EntryVersions -> Rows]
      /\ routes \in [EntryVersions -> Rows]
      /\ routes[v].status = products[v].status /\ routes[v].to = products[v].to
      /\ routes[v].content = products[v].content
  BY <1>3 DEF CatalogueInv, CatalogueTables, RowsMatch
<1>7. /\ r \in Rows /\ r.status = routes[v].status /\ r.from = routes[v].from
      /\ r.to = routes[v].to /\ r.content = routes[v].content
      /\ routes[v].archived => r.archived
  BY <1>5, <1>6 DEF Rows
<1>8. routes' = [routes EXCEPT ![v] = r] /\ products' = [products EXCEPT ![v] = products[v]]
  BY <1>3, <1>4, <1>5, <1>6 DEF Store
<1>9. work' = [work EXCEPT ![w] = NoWork] /\ catalogueNow' = catalogueNow /\ r.status # "NONE"
  BY <1>3, <1>7 DEF CommitLifecycle, Finish, Stored
<1> QED
  BY <1>2, <1>3, <1>6, <1>7, <1>8, <1>9, ReviewsKeep

LEMMA CatalogueInvStep ==
  ASSUME CatalogueInv, [CatalogueNext]_catalogueVars PROVE CatalogueInv'
BY QuietKeeps, CreateEntryKeeps, BeginEditKeeps, BeginPatchKeeps, CommitEditKeeps,
   CommitReviewKeeps, CommitLifecycleKeeps, BeginImportKeeps, CommitImportKeeps
   DEF CatalogueNext

(* The product and the route of an entry have one status and one present,  *)
(* and each version follows the one before it, whatever edits, reviews and *)
(* imports overlap: apps/web/src/app/api/internal/admin/catalog and        *)
(* packages/database/src/production-catalog-import.ts.                     *)
THEOREM CatalogueStaysCoherent == CatalogueSpec => []CatalogueIsCoherent
  BY CatalogueInvInit, CatalogueInvStep, CoherentFollows, PTL DEF CatalogueSpec

-----------------------------------------------------------------------------
(* RiskRecalculation.  The queries of a job are apart, but each asks for   *)
(* what was known at one cutoff, and once that has passed nothing is added *)
(* to it: snapshots are dated when they are stored, and a version that is  *)
(* published is in force from then on.  What was in force at a cutoff may  *)
(* only shrink.                                                            *)

RecalculationTyped ==
  /\ riskNow \in RiskTimes /\ sourceActive \in BOOLEAN
  /\ releases \in [Releases -> ReleaseRows]
  /\ snapshots \subseteq SnapshotRows /\ \A s \in snapshots : s.at <= riskNow
  /\ results \subseteq ResultRows
  /\ DOMAIN calculations = RiskJobs

(* What a calculation that runs is about.                                  *)
CalculationTyped(c) ==
  /\ c \in [phase : {"FACTORS", "EVIDENCE"}, cutoff : RiskTimes, begunAt : RiskTimes,
            release : Releases, todo : SUBSET RiskRoutes,
            route : RiskRoutes \cup {NoCalculation.route}, rows : SUBSET SnapshotRows]
  /\ IF c.phase = "EVIDENCE" THEN c.route \in RiskRoutes ELSE c.rows = {}

(* Nothing else can be selected any more at a cutoff that has passed.      *)
ReleaseIsFixed(c) ==
  /\ c.begunAt <= riskNow
  /\ c.begunAt > c.cutoff => InForce(c.cutoff) \subseteq {c.release}

(* What was read for a route, which is what would be read again.           *)
RowsAreFixed(c) ==
  /\ c.rows \subseteq RowsAt(c.route, c.release, c.cutoff)
  /\ c.begunAt > c.cutoff => c.rows = LatestRows(RowsAt(c.route, c.release, c.cutoff))

CalculationSound(c) ==
  \/ c = NoCalculation
  \/ CalculationTyped(c) /\ ReleaseIsFixed(c) /\ (c.phase = "EVIDENCE" => RowsAreFixed(c))

AdmittedOf(rows, cutoff) == {s.factor : s \in {t \in rows : Admissible(t, cutoff)}}

(* What a result admits would be admitted again, for good reasons.         *)
AdmittedIsFixed(x) ==
  LET rows == RowsAt(x.route, x.release, x.cutoff) IN
  /\ sourceActive /\ x.begunAt > x.cutoff => x.admitted = AdmittedOf(LatestRows(rows), x.cutoff)
  /\ \A f \in x.admitted : \E s \in rows :
       /\ s.factor = f /\ s.available
       /\ \A o \in s.evidence : o <= x.cutoff /\ x.cutoff - o <= FreshFor
       /\ x.begunAt > x.cutoff => s \in LatestRows(rows)

Runs == results \cup {calculations[j] : j \in {k \in RiskJobs : calculations[k].phase # "NONE"}}

(* Two runs at a cutoff that had passed when they began use one version.   *)
Agree(x, y) ==
  x.cutoff = y.cutoff /\ x.begunAt > x.cutoff /\ y.begunAt > y.cutoff => x.release = y.release

ReleasesAgree == \A x, y \in Runs : Agree(x, y)

ResultSound(x) == ReleaseIsFixed(x) /\ AdmittedIsFixed(x)

RecalculationInv ==
  /\ RecalculationTyped
  /\ \A j \in RiskJobs : CalculationSound(calculations[j])
  /\ \A x \in results : ResultSound(x)
  /\ ReleasesAgree

LEMMA RecalculationInvInit == RecalculationInit => RecalculationInv
BY RecalculationConstants
   DEF RecalculationInit, RecalculationInv, RecalculationTyped, RiskTimes, ReleaseRows,
       CalculationSound, NoCalculation, ReleasesAgree, Runs

LEMMA ReproducibleFollows == RecalculationInv => ResultsAreReproducible
<1> SUFFICES ASSUME RecalculationInv PROVE ResultsAreReproducible
  OBVIOUS
<1>1. ASSUME sourceActive, NEW a \in results, NEW b \in results,
             a.route = b.route, a.cutoff = b.cutoff, a.begunAt > a.cutoff, b.begunAt > b.cutoff
      PROVE  a.release = b.release /\ a.admitted = b.admitted
  <2>1. a.release = b.release
    BY <1>1 DEF RecalculationInv, ReleasesAgree, Agree, Runs
  <2>2. AdmittedIsFixed(a) /\ AdmittedIsFixed(b)
    BY DEF RecalculationInv, ResultSound
  <2> QED  BY <1>1, <2>1, <2>2 DEF AdmittedIsFixed
<1>2. ASSUME NEW x \in results, NEW f \in x.admitted
      PROVE  \E s \in snapshots :
               /\ s.route = x.route /\ s.factor = f /\ s.release = x.release /\ s.at <= x.cutoff
               /\ s.available /\ \A o \in s.evidence : o <= x.cutoff /\ x.cutoff - o <= FreshFor
               /\ x.begunAt > x.cutoff =>
                    \A t \in snapshots :
                      t.route = x.route /\ t.factor = f /\ t.release = x.release
                        /\ t.at <= x.cutoff
                      => s = t \/ LaterRow(s, t)
  <2>1. AdmittedIsFixed(x)
    BY DEF RecalculationInv, ResultSound
  <2>2. PICK s \in RowsAt(x.route, x.release, x.cutoff) :
          /\ s.factor = f /\ s.available
          /\ \A o \in s.evidence : o <= x.cutoff /\ x.cutoff - o <= FreshFor
          /\ x.begunAt > x.cutoff => s \in LatestRows(RowsAt(x.route, x.release, x.cutoff))
    BY <1>2, <2>1 DEF AdmittedIsFixed
  <2> QED  BY <2>2 DEF RowsAt, LatestRows
<1> QED
  BY <1>1, <1>2 DEF ResultsAreReproducible, ReplaysAgree, ResultsRestOnCurrentEvidence

(* What changes while no job takes a step.                                 *)
LEMMA MeanwhileNothingChanges ==
  ASSUME RecalculationInv, RecalculationTyped', UNCHANGED <<calculations, results>>,
         riskNow <= riskNow', sourceActive' => sourceActive,
         \A cutoff \in RiskTimes : cutoff < riskNow => InForce(cutoff)' \subseteq InForce(cutoff),
         \A r \in RiskRoutes, m \in Releases, cutoff \in RiskTimes :
           /\ RowsAt(r, m, cutoff) \subseteq RowsAt(r, m, cutoff)'
           /\ cutoff < riskNow => RowsAt(r, m, cutoff)' = RowsAt(r, m, cutoff)
  PROVE  RecalculationInv'
<1>1. riskNow \in Int /\ riskNow' \in Int
  BY RecalculationConstants DEF RecalculationInv, RecalculationTyped, RiskTimes
<1>2. ASSUME NEW c, ReleaseIsFixed(c), c.cutoff \in RiskTimes, c.begunAt \in RiskTimes
      PROVE  /\ ReleaseIsFixed(c)'
             /\ c.begunAt > c.cutoff => c.cutoff < riskNow
  BY <1>1, <1>2 DEF ReleaseIsFixed, RiskTimes
<1>3. ASSUME NEW j \in RiskJobs PROVE CalculationSound(calculations[j])'
  <2>0. PICK c : c = calculations[j] /\ c = calculations'[j]
    OBVIOUS
  <2>1. CalculationSound(c)
    BY <2>0 DEF RecalculationInv
  <2> SUFFICES CalculationSound(c)'
    BY <2>0
  <2>2. CASE c = NoCalculation
    BY <2>2 DEF CalculationSound, NoCalculation
  <2>3. CASE c # NoCalculation
    <3>1. CalculationTyped(c) /\ ReleaseIsFixed(c)
      BY <2>1, <2>3 DEF CalculationSound
    <3>2. ReleaseIsFixed(c)' /\ (c.begunAt > c.cutoff => c.cutoff < riskNow)
      BY <1>2, <3>1 DEF CalculationTyped
    <3>3. c.phase = "EVIDENCE" => RowsAreFixed(c)'
      BY <2>1, <3>1, <3>2, <2>3 DEF CalculationSound, CalculationTyped, RowsAreFixed, LatestRows
    <3>4. CalculationTyped(c)'
      BY <3>1 DEF CalculationTyped, NoCalculation
    <3> QED  BY <3>2, <3>3, <3>4 DEF CalculationSound
  <2> QED  BY <2>2, <2>3
<1>4. ASSUME NEW x \in results PROVE ResultSound(x)'
  <2>1. ReleaseIsFixed(x) /\ AdmittedIsFixed(x) /\ x \in ResultRows
    BY DEF RecalculationInv, RecalculationTyped, ResultSound
  <2>2. x.route \in RiskRoutes /\ x.release \in Releases /\ x.cutoff \in RiskTimes
        /\ x.begunAt \in RiskTimes
    BY <2>1 DEF ResultRows
  <2>3. ReleaseIsFixed(x)' /\ (x.begunAt > x.cutoff => x.cutoff < riskNow)
    BY <1>2, <2>1, <2>2
  <2> DEFINE rows == RowsAt(x.route, x.release, x.cutoff)
  <2>4. rows \subseteq rows' /\ (x.begunAt > x.cutoff => rows' = rows)
    BY <2>2, <2>3
  <2>5. ASSUME sourceActive', NEW t PROVE Admissible(t, x.cutoff)' <=> Admissible(t, x.cutoff)
    BY <2>5 DEF Admissible, Disposition
  <2>6. x.begunAt > x.cutoff => LatestRows(rows)' = LatestRows(rows)
    BY <2>4 DEF LatestRows
  <2>7. ASSUME sourceActive', x.begunAt > x.cutoff
        PROVE  x.admitted = AdmittedOf(LatestRows(rows), x.cutoff)'
    <3>1. x.admitted = AdmittedOf(LatestRows(rows), x.cutoff)
      BY <2>1, <2>7 DEF AdmittedIsFixed
    <3>2. LatestRows(rows)' = LatestRows(rows)
      BY <2>6, <2>7
    <3> HIDE DEF rows
    <3> QED  BY <2>5, <2>7, <3>1, <3>2 DEF AdmittedOf
  <2>8. ASSUME NEW f \in x.admitted
        PROVE  \E s \in rows' :
                 /\ s.factor = f /\ s.available
                 /\ \A o \in s.evidence : o <= x.cutoff /\ x.cutoff - o <= FreshFor
                 /\ x.begunAt > x.cutoff => s \in LatestRows(rows)'
    <3>1. PICK s \in rows :
            /\ s.factor = f /\ s.available
            /\ \A o \in s.evidence : o <= x.cutoff /\ x.cutoff - o <= FreshFor
            /\ x.begunAt > x.cutoff => s \in LatestRows(rows)
      BY <2>1, <2>8 DEF AdmittedIsFixed
    <3> HIDE DEF rows
    <3> QED  BY <2>4, <2>6, <3>1
  <2>9. AdmittedIsFixed(x)'
    BY <2>7, <2>8 DEF AdmittedIsFixed
  <2> QED  BY <2>3, <2>9 DEF ResultSound
<1>5. ReleasesAgree'
  BY DEF RecalculationInv, ReleasesAgree, Runs
<1> QED
  BY <1>3, <1>4, <1>5 DEF RecalculationInv
Active(c) == IF c.phase = "NONE" THEN {} ELSE {c}

(* A job goes on, and may store a result.                                  *)
LEMMA JobGoesOn ==
  ASSUME RecalculationInv, NEW j \in RiskJobs, NEW c, NEW new, new \subseteq ResultRows,
         calculations' = [calculations EXCEPT ![j] = c], results' = results \cup new,
         UNCHANGED <<riskNow, releases, snapshots, sourceActive>>,
         CalculationSound(c), \A x \in new : ResultSound(x),
         \A x \in new \cup Active(c) : \A y \in Runs \cup new : Agree(x, y)
  PROVE  RecalculationInv'
<1>1. RecalculationTyped /\ ReleasesAgree
  BY DEF RecalculationInv
<1>2. RecalculationTyped'
  BY <1>1 DEF RecalculationTyped
<1>3. \A i \in RiskJobs : calculations'[i] = IF i = j THEN c ELSE calculations[i]
  BY <1>1 DEF RecalculationTyped
<1>4. ASSUME NEW i \in RiskJobs PROVE CalculationSound(calculations'[i])
  BY <1>3 DEF RecalculationInv
<1>5. ASSUME NEW i \in RiskJobs PROVE CalculationSound(calculations[i])'
  <2>1. PICK d : d = calculations'[i]
    OBVIOUS
  <2> SUFFICES CalculationSound(d)'
    BY <2>1
  <2>2. CalculationSound(d)
    BY <1>4, <2>1
  <2> QED
    BY <2>2
       DEF CalculationSound, CalculationTyped, ReleaseIsFixed, RowsAreFixed, InForce, RowsAt,
           LatestRows, NoCalculation
<1>6. ASSUME NEW x \in results' PROVE ResultSound(x)'
  <2>1. ResultSound(x)
    BY DEF RecalculationInv
  <2> QED
    BY <2>1
       DEF ResultSound, ReleaseIsFixed, AdmittedIsFixed, InForce, RowsAt, LatestRows, AdmittedOf,
           Admissible, Disposition
<1>7. \A x \in Runs' : x \in Runs \/ x \in new \cup Active(c)
  BY <1>3 DEF Runs, Active
<1>8. \A x, y : Agree(x, y) <=> Agree(y, x)
  BY DEF Agree
<1>9. Agree(c, c)
  BY DEF Agree
<1>10. ReleasesAgree'
  <2> SUFFICES ASSUME NEW x \in Runs', NEW y \in Runs' PROVE Agree(x, y)
    BY DEF ReleasesAgree, Agree
  <2>1. CASE x \in Runs /\ y \in Runs
    BY <1>1, <2>1 DEF ReleasesAgree
  <2>2. CASE x \in new \cup Active(c) /\ y \in Runs \cup new
    BY <2>2
  <2>3. CASE y \in new \cup Active(c) /\ x \in Runs \cup new
    BY <1>8, <2>3
  <2>4. CASE x \in Active(c) /\ y \in Active(c)
    BY <1>9, <2>4 DEF Active
  <2> QED  BY <1>7, <2>1, <2>2, <2>3, <2>4
<1> QED  BY <1>2, <1>5, <1>6, <1>10 DEF RecalculationInv

LEMMA JobReads ==
  ASSUME RecalculationInv, NEW j \in RiskJobs, NEW c,
         calculations' = [calculations EXCEPT ![j] = c],
         UNCHANGED <<riskNow, releases, snapshots, sourceActive, results>>,
         CalculationSound(c), c.phase # "NONE" => \A y \in Runs : Agree(c, y)
  PROVE  RecalculationInv'
<1>1. PICK new : new = {}
  OBVIOUS
<1>2. /\ new \subseteq ResultRows /\ results' = results \cup new
      /\ \A x \in new : ResultSound(x)
  BY <1>1
<1>3. \A x \in new \cup Active(c) : \A y \in Runs \cup new : Agree(x, y)
  BY <1>1 DEF Active
<1> QED  BY <1>2, <1>3, JobGoesOn

(* A calculation begins, with the only version that is in force.           *)
LEMMA StartKeeps ==
  ASSUME RecalculationInv, NEW j \in RiskJobs, NEW cutoff \in 0 .. riskNow,
         NEW asked \in SUBSET RiskRoutes, StartCalculation(j, cutoff, asked)
  PROVE  RecalculationInv'
<1>1. riskNow \in RiskTimes /\ cutoff \in RiskTimes
  BY RecalculationConstants DEF RecalculationInv, RecalculationTyped, RiskTimes
<1>2. UNCHANGED <<riskNow, releases, snapshots, sourceActive>> /\ results' = results
  BY DEF StartCalculation
<1>3. CASE Selected(cutoff) = {}
  <2>1. PICK c : c = NoCalculation
    OBVIOUS
  <2>2. calculations' = [calculations EXCEPT ![j] = c] /\ c.phase = "NONE"
    BY <1>3, <2>1 DEF StartCalculation, NoCalculation
  <2>3. CalculationSound(c)
    BY <2>1 DEF CalculationSound
  <2> QED  BY <1>2, <2>2, <2>3, JobReads
<1>4. CASE Selected(cutoff) # {}
  <2>1. Cardinality(InForce(cutoff)) = 1 /\ Selected(cutoff) = InForce(cutoff) \cap Supported
    BY <1>4 DEF Selected
  <2>2. IsFiniteSet(InForce(cutoff))
    BY RecalculationConstants, FS_Subset DEF InForce
  <2>3. PICK m : InForce(cutoff) = {m}
    BY <2>1, <2>2, FS_Singleton
  <2>4. Selected(cutoff) = {m} /\ m \in Releases
    BY <1>4, <2>1, <2>3 DEF InForce
  <2>5. PICK c : c = [phase |-> "FACTORS", cutoff |-> cutoff, begunAt |-> riskNow, release |-> m,
                      todo |-> asked, route |-> NoCalculation.route, rows |-> {}]
    OBVIOUS
  <2>6. calculations' = [calculations EXCEPT ![j] = c]
    <3> DEFINE fields == {"phase", "cutoff", "begunAt", "release", "todo", "route", "rows"}
               started == [NoCalculation EXCEPT
                             !.phase = "FACTORS", !.cutoff = cutoff, !.begunAt = riskNow,
                             !.todo = asked, !.release = m]
               byField == [i \in fields |->
                             CASE i = "phase"   -> "FACTORS"
                               [] i = "cutoff"  -> cutoff
                               [] i = "begunAt" -> riskNow
                               [] i = "todo"    -> asked
                               [] i = "release" -> m
                               [] OTHER         -> NoCalculation[i]]
    <3>1. (CHOOSE n \in Selected(cutoff) : TRUE) = m
      BY <2>4
    <3>2. calculations' = [calculations EXCEPT ![j] = started]
      BY <1>4, <3>1 DEF StartCalculation
    <3>3. DOMAIN NoCalculation = fields /\ NoCalculation.rows = {}
      BY DEF NoCalculation
    <3>4. started = byField
      BY <3>3
    <3>5. byField = c
      BY <2>5, <3>3
    <3> QED  BY <3>2, <3>4, <3>5
  <2>7. CalculationSound(c)
    BY <1>1, <2>3, <2>4, <2>5
       DEF CalculationSound, CalculationTyped, ReleaseIsFixed, RiskTimes
  <2>8. ASSUME NEW y \in Runs, y.cutoff = cutoff, y.begunAt > y.cutoff PROVE y.release = m
    <3>1. ReleaseIsFixed(y)
      <4>1. CASE y \in results
        BY <4>1 DEF RecalculationInv, ResultSound
      <4>2. ASSUME NEW k \in RiskJobs, calculations[k].phase # "NONE", y = calculations[k]
            PROVE  ReleaseIsFixed(y)
        <5>1. y # NoCalculation
          BY <4>2 DEF NoCalculation
        <5> QED  BY <4>2, <5>1 DEF RecalculationInv, CalculationSound
      <4> QED  BY <4>1, <4>2 DEF Runs
    <3> QED  BY <2>3, <2>8, <3>1 DEF ReleaseIsFixed
  <2>10. \A y \in Runs : Agree(c, y)
    BY <2>5, <2>8 DEF Agree
  <2> QED  BY <1>2, <2>5, <2>6, <2>7, <2>10, JobReads
<1> QED  BY <1>3, <1>4

(* The factors of one route are read.                                      *)
LEMMA ReadFactorsKeeps ==
  ASSUME RecalculationInv, NEW j \in RiskJobs, NEW r \in RiskRoutes, ReadFactors(j, r)
  PROVE  RecalculationInv'
<1>1. PICK c : c = calculations[j]
  OBVIOUS
<1>2. /\ c.phase = "FACTORS" /\ CalculationSound(c) /\ r \in c.todo
      /\ UNCHANGED <<riskNow, releases, snapshots, sourceActive>> /\ results' = results
  BY <1>1 DEF ReadFactors, RecalculationInv
<1>3. CalculationTyped(c) /\ ReleaseIsFixed(c)
  BY <1>2 DEF CalculationSound, NoCalculation
<1>4. PICK latest : latest = LatestRows(RowsAt(r, c.release, c.cutoff))
  OBVIOUS
<1>5. PICK d : d = [phase |-> "EVIDENCE", cutoff |-> c.cutoff, begunAt |-> c.begunAt,
                    release |-> c.release, todo |-> c.todo \ {r}, route |-> r, rows |-> latest]
  OBVIOUS
<1>6. calculations' = [calculations EXCEPT ![j] = d]
  <2> DEFINE fields  == {"phase", "cutoff", "begunAt", "release", "todo", "route", "rows"}
             reading == [c EXCEPT !.phase = "EVIDENCE", !.todo = @ \ {r}, !.route = r,
                                  !.rows = latest]
             byField == [i \in fields |-> CASE i = "phase" -> "EVIDENCE"
                                            [] i = "todo"  -> c.todo \ {r}
                                            [] i = "route" -> r
                                            [] i = "rows"  -> latest
                                            [] OTHER       -> c[i]]
  <2>1. DOMAIN c = fields
    BY <1>3 DEF CalculationTyped
  <2>2. calculations' = [calculations EXCEPT ![j] = reading]
    BY <1>1, <1>4 DEF ReadFactors
  <2>3. reading = byField
    BY <2>1
  <2>4. byField = d
    BY <1>5
  <2> QED  BY <2>2, <2>3, <2>4
<1>7. latest \subseteq RowsAt(r, c.release, c.cutoff) /\ latest \subseteq SnapshotRows
  BY <1>4 DEF LatestRows, RowsAt, RecalculationInv, RecalculationTyped
<1>8. CalculationTyped(d)
  BY <1>2, <1>3, <1>5, <1>7 DEF CalculationTyped
<1>9. ReleaseIsFixed(d) /\ RowsAreFixed(d)
  BY <1>3, <1>4, <1>5, <1>7 DEF ReleaseIsFixed, RowsAreFixed
<1>10. c \in Runs /\ c.release = d.release /\ c.cutoff = d.cutoff /\ c.begunAt = d.begunAt
  BY <1>1, <1>2, <1>5 DEF Runs
<1>11. \A y \in Runs : Agree(d, y)
  BY <1>10 DEF RecalculationInv, ReleasesAgree, Agree
<1>12. CalculationSound(d)
  BY <1>5, <1>8, <1>9 DEF CalculationSound
<1> QED  BY <1>2, <1>6, <1>11, <1>12, JobReads

(* The result for one route is stored.                                     *)
LEMMA StoreResultKeeps ==
  ASSUME RecalculationInv, NEW j \in RiskJobs, StoreResult(j)
  PROVE  RecalculationInv'
<1>1. PICK c : c = calculations[j]
  OBVIOUS
<1>2. /\ c.phase = "EVIDENCE" /\ CalculationSound(c)
      /\ UNCHANGED <<riskNow, releases, snapshots, sourceActive>>
  BY <1>1 DEF StoreResult, RecalculationInv
<1>3. CalculationTyped(c) /\ ReleaseIsFixed(c) /\ RowsAreFixed(c)
  BY <1>2 DEF CalculationSound, NoCalculation
<1>4. PICK admitted : admitted = AdmittedOf(c.rows, c.cutoff)
  OBVIOUS
<1>5. PICK x : x = [route |-> c.route, release |-> c.release, cutoff |-> c.cutoff,
                    begunAt |-> c.begunAt, admitted |-> admitted,
                    status |-> ResultStatus(admitted)]
  OBVIOUS
<1>6. PICK d : d = IF c.todo = {} THEN NoCalculation
                   ELSE [phase |-> "FACTORS", cutoff |-> c.cutoff, begunAt |-> c.begunAt,
                         release |-> c.release, todo |-> c.todo, route |-> c.route, rows |-> {}]
  OBVIOUS
<1>7. calculations' = [calculations EXCEPT ![j] = d]
  <2> DEFINE fields  == {"phase", "cutoff", "begunAt", "release", "todo", "route", "rows"}
             next    == [c EXCEPT !.phase = "FACTORS", !.rows = {}]
             byField == [i \in fields |-> CASE i = "phase" -> "FACTORS"
                                            [] i = "rows"  -> {}
                                            [] OTHER       -> c[i]]
  <2>1. DOMAIN c = fields
    BY <1>3 DEF CalculationTyped
  <2>2. calculations' = [calculations EXCEPT ![j] = IF c.todo = {} THEN NoCalculation ELSE next]
    BY <1>1 DEF StoreResult
  <2>3. next = byField
    BY <2>1
  <2>4. byField = [phase |-> "FACTORS", cutoff |-> c.cutoff, begunAt |-> c.begunAt,
                   release |-> c.release, todo |-> c.todo, route |-> c.route, rows |-> {}]
    OBVIOUS
  <2> QED  BY <1>6, <2>2, <2>3, <2>4
<1>8. results' = results \cup {x}
  BY <1>1, <1>4, <1>5 DEF StoreResult, AdmittedOf
<1>9. admitted \subseteq Factors /\ ResultStatus(admitted) \in {"AVAILABLE", "PARTIAL", "UNAVAILABLE"}
  BY <1>3, <1>4 DEF AdmittedOf, CalculationTyped, SnapshotRows, ResultStatus
<1>10. x \in ResultRows
  BY <1>2, <1>3, <1>5, <1>9 DEF CalculationTyped, ResultRows
<1>11. ReleaseIsFixed(x)
  BY <1>3, <1>5 DEF ReleaseIsFixed
<1>12. AdmittedIsFixed(x)
  <2> DEFINE rows == RowsAt(c.route, c.release, c.cutoff)
  <2>1. x.begunAt > x.cutoff => c.rows = LatestRows(rows)
    BY <1>3, <1>5 DEF RowsAreFixed
  <2>2. ASSUME NEW f \in admitted
        PROVE  \E s \in rows :
                 /\ s.factor = f /\ s.available
                 /\ \A o \in s.evidence : o <= x.cutoff /\ x.cutoff - o <= FreshFor
                 /\ x.begunAt > x.cutoff => s \in LatestRows(rows)
    <3>1. PICK s \in c.rows : s.factor = f /\ Admissible(s, c.cutoff)
      BY <1>4, <2>2 DEF AdmittedOf
    <3>2. s \in rows /\ s \in SnapshotRows
      BY <1>3 DEF RowsAreFixed, CalculationTyped
    <3>3. ASSUME NEW o \in s.evidence PROVE o <= c.cutoff /\ c.cutoff - o <= FreshFor
      <4>1. o \in Int /\ c.cutoff \in Int
        BY <1>3, <3>2, RecalculationConstants DEF CalculationTyped, SnapshotRows, RiskTimes
      <4>2. Disposition(o, c.cutoff) = "CURRENT"
        BY <3>1 DEF Admissible
      <4> QED  BY <4>1, <4>2 DEF Disposition
    <3> HIDE DEF rows
    <3> QED  BY <1>5, <2>1, <3>1, <3>2, <3>3 DEF Admissible
  <2> QED  BY <1>4, <1>5, <2>1, <2>2 DEF AdmittedIsFixed
<1>13. CalculationSound(d)
  BY <1>3, <1>6 DEF CalculationSound, CalculationTyped, ReleaseIsFixed
<1>14. c \in Runs
  BY <1>1, <1>2 DEF Runs
<1>15. \A z \in {x} \cup Active(d) :
         z.release = c.release /\ z.cutoff = c.cutoff /\ z.begunAt = c.begunAt
  BY <1>5, <1>6 DEF NoCalculation, Active
<1>16. PICK new : new = {x}
  OBVIOUS
<1>17. \A z \in new \cup Active(d) : \A y \in Runs \cup new : Agree(z, y)
  BY <1>5, <1>14, <1>15, <1>16 DEF RecalculationInv, ReleasesAgree, Agree
<1>18. /\ new \subseteq ResultRows /\ results' = results \cup new
       /\ \A z \in new : ResultSound(z)
  BY <1>8, <1>10, <1>11, <1>12, <1>16 DEF ResultSound
<1> QED
  BY <1>2, <1>7, <1>13, <1>17, <1>18, JobGoesOn

(* Time passes, versions are published, factors are scored and the source  *)
(* is withdrawn.                                                           *)
LEMMA RiskTickKeeps ==
  ASSUME RecalculationInv, RiskTick PROVE RecalculationInv'
<1>1. RecalculationTyped'
  BY RecalculationConstants DEF RecalculationInv, RecalculationTyped, RiskTick, RiskTimes, SnapshotRows
<1>2. riskNow <= riskNow'
  BY DEF RiskTick, RecalculationInv, RecalculationTyped, RiskTimes
<1>3. UNCHANGED <<calculations, results, releases, snapshots, sourceActive>>
  BY DEF RiskTick
<1>4. /\ \A cutoff \in RiskTimes : InForce(cutoff)' = InForce(cutoff)
      /\ \A r \in RiskRoutes, m \in Releases, cutoff \in RiskTimes :
           RowsAt(r, m, cutoff)' = RowsAt(r, m, cutoff)
  BY <1>3 DEF InForce, RowsAt
<1> QED  BY <1>1, <1>2, <1>3, <1>4, MeanwhileNothingChanges

LEMMA PublishReleaseKeeps ==
  ASSUME RecalculationInv, NEW m \in Releases, NEW seen \in SUBSET Releases,
         PublishRelease(m, seen)
  PROVE  RecalculationInv'
<1>1. RecalculationTyped /\ riskNow \in RiskTimes /\ releases \in [Releases -> ReleaseRows]
  BY DEF RecalculationInv, RecalculationTyped
<1>2. UNCHANGED <<riskNow, calculations, results, snapshots, sourceActive>>
  BY DEF PublishRelease
<1>3. ASSUME NEW p \in Releases
      PROVE  /\ releases'[p] \in ReleaseRows
             /\ p # m => \/ releases'[p] = releases[p]
                         \/ releases'[p].status = "SUPERSEDED"
             /\ p = m => releases'[p].publishedAt = riskNow
  <2> DEFINE superseded == [releases[p] EXCEPT !.status = "SUPERSEDED", !.to = riskNow]
             published  == [status |-> "PUBLISHED", publishedAt |-> riskNow, from |-> riskNow,
                            to |-> Open]
  <2>1. releases[p] \in ReleaseRows
    BY <1>1
  <2>2. superseded \in ReleaseRows /\ superseded.status = "SUPERSEDED"
    BY <1>1, <2>1 DEF ReleaseRows
  <2>3. published \in ReleaseRows /\ published.publishedAt = riskNow
    BY <1>1 DEF ReleaseRows
  <2>4. releases'[p] = IF p = m THEN published ELSE IF p \in seen THEN superseded ELSE releases[p]
    BY DEF PublishRelease
  <2> HIDE DEF superseded, published
  <2> QED  BY <2>1, <2>2, <2>3, <2>4
<1>4. releases' \in [Releases -> ReleaseRows]
  <2>1. DOMAIN releases' = Releases /\ releases' = [p \in Releases |-> releases'[p]]
    BY DEF PublishRelease
  <2> QED  BY <1>3, <2>1
<1>5. RecalculationTyped'
  BY <1>1, <1>2, <1>4 DEF RecalculationTyped
<1>6. ASSUME NEW cutoff \in RiskTimes, cutoff < riskNow
      PROVE  InForce(cutoff)' \subseteq InForce(cutoff)
  <2>1. ASSUME NEW p \in Releases, releases'[p].status = "PUBLISHED",
               releases'[p].publishedAt <= cutoff
        PROVE  releases'[p] = releases[p]
    BY <1>1, <1>3, <1>6, <2>1, RecalculationConstants DEF RiskTimes
  <2> QED  BY <2>1 DEF InForce
<1>7. riskNow <= riskNow'
  BY <1>1, <1>2 DEF RiskTimes
<1>8. \A r \in RiskRoutes, n \in Releases, cutoff \in RiskTimes :
           RowsAt(r, n, cutoff)' = RowsAt(r, n, cutoff)
  BY <1>2 DEF RowsAt
<1> QED  BY <1>2, <1>5, <1>6, <1>7, <1>8, MeanwhileNothingChanges

LEMMA SnapshotFactorKeeps ==
  ASSUME RecalculationInv, NEW r \in RiskRoutes, NEW f \in Factors, NEW m \in Releases,
         SnapshotFactor(r, f, m)
  PROVE  RecalculationInv'
<1>1. RecalculationTyped /\ riskNow \in RiskTimes /\ snapshots \subseteq SnapshotRows
  BY DEF RecalculationInv, RecalculationTyped
<1>2. UNCHANGED <<riskNow, calculations, results, releases, sourceActive>>
  BY DEF SnapshotFactor
<1>3. PICK id \in 1 .. MaxSnapshots, available \in BOOLEAN, evidence \in SUBSET (0 .. riskNow) :
        snapshots' = snapshots \cup
          {[id |-> id, route |-> r, factor |-> f, release |-> m, at |-> riskNow,
            available |-> available, evidence |-> evidence]}
  BY DEF SnapshotFactor
<1>4. PICK s : s = [id |-> id, route |-> r, factor |-> f, release |-> m, at |-> riskNow,
                    available |-> available, evidence |-> evidence]
  OBVIOUS
<1>5. snapshots' = snapshots \cup {s} /\ s.at = riskNow /\ s \in SnapshotRows
  BY <1>1, <1>3, <1>4, RecalculationConstants DEF SnapshotRows, RiskTimes
<1>6. RecalculationTyped'
  BY <1>1, <1>2, <1>5, RecalculationConstants DEF RecalculationTyped, RiskTimes
<1>7. \A cutoff \in RiskTimes : InForce(cutoff)' = InForce(cutoff)
  BY <1>2 DEF InForce
<1>8. ASSUME NEW q \in RiskRoutes, NEW n \in Releases, NEW cutoff \in RiskTimes
      PROVE  /\ RowsAt(q, n, cutoff) \subseteq RowsAt(q, n, cutoff)'
             /\ cutoff < riskNow => RowsAt(q, n, cutoff)' = RowsAt(q, n, cutoff)
  BY <1>1, <1>5, RecalculationConstants DEF RowsAt, RiskTimes
<1>9. riskNow <= riskNow'
  BY <1>1, <1>2 DEF RiskTimes
<1> QED  BY <1>2, <1>6, <1>7, <1>8, <1>9, MeanwhileNothingChanges

LEMMA WithdrawSourceKeeps ==
  ASSUME RecalculationInv, WithdrawSource PROVE RecalculationInv'
<1>1. UNCHANGED <<riskNow, calculations, results, releases, snapshots>> /\ (sourceActive' => sourceActive)
  BY DEF WithdrawSource
<1>2. RecalculationTyped' /\ riskNow <= riskNow'
  <2>1. sourceActive' \in BOOLEAN
    BY DEF WithdrawSource
  <2> QED  BY <1>1, <2>1 DEF RecalculationInv, RecalculationTyped, RiskTimes
<1>3. /\ \A cutoff \in RiskTimes : InForce(cutoff)' = InForce(cutoff)
      /\ \A r \in RiskRoutes, m \in Releases, cutoff \in RiskTimes :
           RowsAt(r, m, cutoff)' = RowsAt(r, m, cutoff)
  BY <1>1 DEF InForce, RowsAt
<1> QED  BY <1>1, <1>2, <1>3, MeanwhileNothingChanges

LEMMA RecalculationInvStep ==
  ASSUME RecalculationInv, [RecalculationNext]_recalculationVars
  PROVE  RecalculationInv'
<1>1. ASSUME NEW j \in RiskJobs, CalculateRoute(j) PROVE RecalculationInv'
  <2>1. PICK cutoff \in 0 .. riskNow, r \in RiskRoutes : StartCalculation(j, cutoff, {r})
    BY <1>1 DEF CalculateRoute
  <2>2. {r} \in SUBSET RiskRoutes
    OBVIOUS
  <2> QED  BY <2>1, <2>2, StartKeeps
<1>2. ASSUME NEW j \in RiskJobs, CalculateAll(j) PROVE RecalculationInv'
  <2>1. riskNow \in 0 .. riskNow /\ RiskRoutes \in SUBSET RiskRoutes
    BY DEF RecalculationInv, RecalculationTyped, RiskTimes
  <2> QED  BY <1>2, <2>1, StartKeeps DEF CalculateAll
<1>3. CASE UNCHANGED recalculationVars
  <2>1. UNCHANGED <<riskNow, calculations, results, releases, snapshots, sourceActive>>
    BY <1>3 DEF recalculationVars
  <2>2. RecalculationTyped' /\ riskNow <= riskNow'
    BY <2>1 DEF RecalculationInv, RecalculationTyped, RiskTimes
  <2>3. /\ \A cutoff \in RiskTimes : InForce(cutoff)' = InForce(cutoff)
        /\ \A r \in RiskRoutes, m \in Releases, cutoff \in RiskTimes :
             RowsAt(r, m, cutoff)' = RowsAt(r, m, cutoff)
    BY <2>1 DEF InForce, RowsAt
  <2> QED  BY <2>1, <2>2, <2>3, MeanwhileNothingChanges
<1> QED
  BY <1>1, <1>2, <1>3, RiskTickKeeps, PublishReleaseKeeps, SnapshotFactorKeeps,
     WithdrawSourceKeeps, ReadFactorsKeeps, StoreResultKeeps
     DEF RecalculationNext

(* Calculations of a route at the same cutoff agree, and each rests on     *)
(* evidence that was current then, whatever is published, scored or        *)
(* withdrawn between the queries: RECALCULATE_RISK of                      *)
(* apps/worker/src/handlers.ts.                                            *)
THEOREM ResultsStayReproducible == RecalculationSpec => []ResultsAreReproducible
  BY RecalculationInvInit, RecalculationInvStep, ReproducibleFollows, PTL DEF RecalculationSpec

-----------------------------------------------------------------------------
(* LiveEvidence.  Nothing is written down of how old the evidence is that  *)
(* a caller gets, and nobody counts what the provider receives: both are   *)
(* bounded by what the cache, the request under way and the bucket know of *)
(* one another.                                                            *)

CallerRecords ==
  [at : {"idle", "modelled", "waiting", "answered", "served", "failed"},
   version : Methodologies, asked : LiveTimes, fetchedAt : LiveTimes, good : BOOLEAN]

(* A token is in the bucket, or it came back later, or it was spent.       *)
BucketSound ==
  /\ bucket.updatedAt <= liveNow
  /\ sent + bucket.tokens <= BucketCapacity + bucket.updatedAt

FlightSound ==
  inFlight # Nothing => inFlight.at <= liveNow /\ liveNow <= inFlight.at + RequestTime

CacheSound == liveCache.expiresAt <= liveCache.fetchedAt + EvidenceLifetime + RequestTime

CallerSound(c) ==
  /\ c.at = "waiting" =>
       /\ inFlight # Nothing /\ inFlight.at <= c.asked
       /\ c.asked <= liveNow
  /\ c.at = "answered" =>
       /\ c.asked <= liveNow /\ c.fetchedAt <= c.asked
       /\ liveNow <= c.fetchedAt + RequestTime
  /\ c.at = "served" => liveNow - c.fetchedAt < EvidenceLifetime + RequestTime

LiveInv ==
  /\ LiveTypeOK /\ BucketSound /\ FlightSound /\ CacheSound
  /\ \A c \in Callers : CallerSound(callers[c])

-----------------------------------------------------------------------------
(* The breaker of the live evidence keeps its type.                        *)
LiveBreakers == BreakerRecords(LiveCircuit)

LEMMA LiveBreakerFields ==
  ASSUME NEW b \in LiveBreakers
  PROVE  /\ LiveCircuit.failureThreshold \in Nat \ {0} /\ LiveCircuit.successThreshold \in Nat \ {0}
         /\ LiveCircuit.recoveryTimeout \in Nat \ {0}
         /\ b.failures \in 0 .. LiveCircuit.failureThreshold
         /\ b.successes \in 0 .. LiveCircuit.successThreshold - 1
         /\ b.openedFor \in 0 .. LiveCircuit.recoveryTimeout
         /\ b.open \in BOOLEAN /\ b.probing \in BOOLEAN
         /\ DOMAIN b = {"failures", "successes", "openedFor", "open", "probing"}
BY LiveConstants DEF LiveBreakers, BreakerRecords, BreakerOptions

LEMMA LiveBreakerFlag ==
  ASSUME NEW b \in LiveBreakers, NEW flag \in BOOLEAN
  PROVE  [b EXCEPT !.probing = flag] \in LiveBreakers
BY DEF LiveBreakers, BreakerRecords

LEMMA LiveBreakerCount ==
  ASSUME NEW b \in LiveBreakers
  PROVE  /\ \A f \in 0 .. LiveCircuit.failureThreshold : [b EXCEPT !.failures = f] \in LiveBreakers
         /\ \A s \in 0 .. LiveCircuit.successThreshold - 1 :
              [b EXCEPT !.successes = s] \in LiveBreakers
         /\ \A t \in 0 .. LiveCircuit.recoveryTimeout : [b EXCEPT !.openedFor = t] \in LiveBreakers
         /\ \A o \in BOOLEAN : [b EXCEPT !.open = o] \in LiveBreakers
BY DEF LiveBreakers, BreakerRecords

LEMMA LiveBreakerSettles ==
  ASSUME NEW b \in LiveBreakers
  PROVE  /\ RecordSuccess(b, LiveCircuit) \in LiveBreakers
         /\ RecordFailure(b, LiveCircuit) \in LiveBreakers
         /\ Aged(b, LiveCircuit) \in LiveBreakers
<1>1. RecordSuccess(b, LiveCircuit) \in LiveBreakers
  <2>1. [b EXCEPT !.failures = 0] \in LiveBreakers
    BY LiveBreakerFields, LiveBreakerCount
  <2>2. b.successes + 1 < LiveCircuit.successThreshold =>
          [b EXCEPT !.successes = @ + 1] \in LiveBreakers
    BY LiveBreakerFields, LiveBreakerCount
  <2>3. [b EXCEPT !.failures = 0, !.successes = 0, !.open = FALSE, !.openedFor = 0] \in LiveBreakers
    <3> DEFINE b1 == [b EXCEPT !.failures = 0]
               b2 == [b1 EXCEPT !.successes = 0]
               b3 == [b2 EXCEPT !.open = FALSE]
               b4 == [b3 EXCEPT !.openedFor = 0]
    <3>1. b1 \in LiveBreakers
      BY <2>1
    <3> HIDE DEF b1
    <3>2. b2 \in LiveBreakers
      BY <3>1, LiveBreakerFields, LiveBreakerCount
    <3> HIDE DEF b2
    <3>3. b3 \in LiveBreakers
      BY <3>2, LiveBreakerFields, LiveBreakerCount
    <3> HIDE DEF b3
    <3>4. b4 \in LiveBreakers
      BY <3>3, LiveBreakerFields, LiveBreakerCount
    <3> QED  BY <3>4 DEF b3, b2, b1
  <2> QED
    BY <2>1, <2>2, <2>3, LiveBreakerFields DEF RecordSuccess
<1>2. RecordFailure(b, LiveCircuit) \in LiveBreakers
  <2> DEFINE count == FailureCount(b, LiveCircuit)
  <2>1. count \in 0 .. LiveCircuit.failureThreshold
    BY LiveBreakerFields DEF FailureCount
  <2> HIDE DEF count
  <2> DEFINE b1 == [b EXCEPT !.successes = 0]
             b2 == [b1 EXCEPT !.failures = count]
             b3 == [b2 EXCEPT !.open = TRUE]
             b4 == [b3 EXCEPT !.openedFor = 0]
  <2>2. b1 \in LiveBreakers
    BY LiveBreakerFields, LiveBreakerCount
  <2> HIDE DEF b1
  <2>3. b2 \in LiveBreakers
    BY <2>1, <2>2, LiveBreakerCount
  <2> HIDE DEF b2
  <2>4. b3 \in LiveBreakers
    BY <2>3, LiveBreakerCount
  <2> HIDE DEF b3
  <2>5. b4 \in LiveBreakers
    BY <2>4, LiveBreakerFields, LiveBreakerCount
  <2>6. RecordFailure(b, LiveCircuit) = b2 \/ RecordFailure(b, LiveCircuit) = b4
    <3> DEFINE opens == \/ BreakerState(b, LiveCircuit) = "HALF_OPEN"
                        \/ count >= LiveCircuit.failureThreshold
    <3>1. b2 = [b EXCEPT !.successes = 0, !.failures = count]
      BY DEF b1, b2
    <3>2. b4 = [b EXCEPT !.successes = 0, !.failures = count, !.open = TRUE, !.openedFor = 0]
      BY DEF b1, b2, b3, b4
    <3>3. RecordFailure(b, LiveCircuit) = IF opens THEN b4 ELSE b2
      BY <3>1, <3>2 DEF RecordFailure, count
    <3> QED  BY <3>3
  <2> QED  BY <2>3, <2>5, <2>6
<1>3. Aged(b, LiveCircuit) \in LiveBreakers
  BY LiveBreakerFields, LiveBreakerCount DEF Aged
<1> QED  BY <1>1, <1>2, <1>3

-----------------------------------------------------------------------------
LEMMA LiveInvInit == LiveInit => LiveInv
<1> SUFFICES ASSUME LiveInit PROVE LiveInv
  OBVIOUS
<1>1. (CHOOSE m \in Methodologies : TRUE) \in Methodologies
  BY DEF LiveInit
<1>2. IdleCaller \in CallerRecords /\ IdleCaller.at = "idle"
  BY <1>1, LiveConstants DEF IdleCaller, CallerRecords, NoCache, LiveTimes
<1>3. LiveTypeOK
  <2>1. ClosedBreaker \in LiveBreakers
    BY LiveConstants DEF ClosedBreaker, BreakerOptions, LiveBreakers, BreakerRecords
  <2> QED
    BY <1>1, <1>2, <2>1, LiveConstants
       DEF LiveInit, LiveTypeOK, LiveTimes, NoCache, LiveBreakers, CallerRecords
<1>4. BucketSound /\ FlightSound /\ CacheSound
  BY LiveConstants DEF LiveInit, BucketSound, FlightSound, CacheSound, NoCache
<1>5. \A c \in Callers : CallerSound(callers[c])
  BY <1>2 DEF LiveInit, CallerSound
<1> QED  BY <1>3, <1>4, <1>5 DEF LiveInv

(* What the invariant says of the fields that are numbers.                 *)
LEMMA LiveNumbers ==
  ASSUME LiveTypeOK
  PROVE  /\ liveNow \in LiveTimes /\ liveNow \in Nat /\ EvidenceLifetime \in Nat \ {0}
         /\ RequestTime \in Nat /\ BucketCapacity \in Nat \ {0} /\ ProviderBackoff \in Nat \ {0}
         /\ LiveHorizon \in Nat
         /\ bucket.tokens \in 0 .. BucketCapacity /\ bucket.updatedAt \in LiveTimes
         /\ sent \in Nat /\ bucket.tokens \in Nat /\ bucket.updatedAt \in Nat
         /\ inFlight # Nothing => inFlight.at \in LiveTimes /\ inFlight.at \in Nat
         /\ liveCache.expiresAt \in Nat /\ liveCache.fetchedAt \in LiveTimes
         /\ liveCache.fetchedAt \in Nat /\ liveCache.version \in Methodologies
         /\ \A c \in Callers : callers[c] \in CallerRecords
         /\ callers \in [Callers -> CallerRecords] /\ effective \in Methodologies
BY LiveConstants DEF LiveTypeOK, LiveTimes, Nothing, CallerRecords

(* A caller's record, written field by field.                              *)
LEMMA CallerAt ==
  ASSUME NEW e \in CallerRecords, NEW at
  PROVE  [e EXCEPT !.at = at] =
           [at |-> at, version |-> e.version, asked |-> e.asked, fetchedAt |-> e.fetchedAt, good |-> e.good]
<1> DEFINE fields  == {"at", "version", "asked", "fetchedAt", "good"}
           byField == [i \in fields |->
                         CASE i = "at" -> at [] OTHER -> e[i]]
<1>1. DOMAIN e = fields
  BY DEF CallerRecords
<1>2. [e EXCEPT !.at = at] = byField
  BY <1>1
<1>3. byField = [at |-> at, version |-> e.version, asked |-> e.asked, fetchedAt |-> e.fetchedAt, good |-> e.good]
  OBVIOUS
<1> QED  BY <1>2, <1>3

LEMMA CallerModels ==
  ASSUME NEW e \in CallerRecords, NEW at, NEW version
  PROVE  [e EXCEPT !.at = at, !.version = version] =
           [at |-> at, version |-> version, asked |-> e.asked, fetchedAt |-> e.fetchedAt, good |-> e.good]
<1> DEFINE fields  == {"at", "version", "asked", "fetchedAt", "good"}
           byField == [i \in fields |->
                         CASE i = "at" -> at [] i = "version" -> version [] OTHER -> e[i]]
<1>1. DOMAIN e = fields
  BY DEF CallerRecords
<1>2. [e EXCEPT !.at = at, !.version = version] = byField
  BY <1>1
<1>3. byField = [at |-> at, version |-> version, asked |-> e.asked, fetchedAt |-> e.fetchedAt, good |-> e.good]
  OBVIOUS
<1> QED  BY <1>2, <1>3

LEMMA CallerAsks ==
  ASSUME NEW e \in CallerRecords, NEW at, NEW asked
  PROVE  [e EXCEPT !.at = at, !.asked = asked] =
           [at |-> at, version |-> e.version, asked |-> asked, fetchedAt |-> e.fetchedAt, good |-> e.good]
<1> DEFINE fields  == {"at", "version", "asked", "fetchedAt", "good"}
           byField == [i \in fields |->
                         CASE i = "at" -> at [] i = "asked" -> asked [] OTHER -> e[i]]
<1>1. DOMAIN e = fields
  BY DEF CallerRecords
<1>2. [e EXCEPT !.at = at, !.asked = asked] = byField
  BY <1>1
<1>3. byField = [at |-> at, version |-> e.version, asked |-> asked, fetchedAt |-> e.fetchedAt, good |-> e.good]
  OBVIOUS
<1> QED  BY <1>2, <1>3

LEMMA CallerHears ==
  ASSUME NEW e \in CallerRecords, NEW at, NEW fetched, NEW good
  PROVE  [e EXCEPT !.at = at, !.fetchedAt = fetched, !.good = good] =
           [at |-> at, version |-> e.version, asked |-> e.asked, fetchedAt |-> fetched, good |-> good]
<1> DEFINE fields  == {"at", "version", "asked", "fetchedAt", "good"}
           byField == [i \in fields |->
                         CASE i = "at" -> at [] i = "fetchedAt" -> fetched [] i = "good" -> good [] OTHER -> e[i]]
<1>1. DOMAIN e = fields
  BY DEF CallerRecords
<1>2. [e EXCEPT !.at = at, !.fetchedAt = fetched, !.good = good] = byField
  BY <1>1
<1>3. byField = [at |-> at, version |-> e.version, asked |-> e.asked, fetchedAt |-> fetched, good |-> good]
  OBVIOUS
<1> QED  BY <1>2, <1>3

(* One caller goes on, and the others stay where they are.                 *)
LEMMA CallerGoesOn ==
  ASSUME LiveInv, NEW c \in Callers, NEW d \in CallerRecords,
         callers' = [callers EXCEPT ![c] = d], UNCHANGED <<liveNow, effective, inFlight>>,
         CallerSound(d),
         UNCHANGED <<liveCache, bucket, sent, circuit>>,
         failureCache' \in [expiresAt : 0 .. LiveHorizon + ProviderBackoff, version : Methodologies]
  PROVE  LiveInv'
<1>1. LiveTypeOK /\ callers \in [Callers -> CallerRecords]
  BY LiveNumbers DEF LiveInv
<1>2. \A b \in Callers : callers'[b] = IF b = c THEN d ELSE callers[b]
  BY <1>1
<1>3. LiveTypeOK'
  BY <1>1 DEF LiveTypeOK, CallerRecords
<1>4. BucketSound' /\ FlightSound' /\ CacheSound'
  BY DEF LiveInv, BucketSound, FlightSound, CacheSound
<1>5. ASSUME NEW b \in Callers PROVE CallerSound(callers[b])'
  BY <1>2 DEF LiveInv, CallerSound
<1> QED  BY <1>3, <1>4, <1>5 DEF LiveInv

LEMMA ReadModelKeeps ==
  ASSUME LiveInv, NEW c \in Callers, ReadModel(c) PROVE LiveInv'
<1>1. PICK e \in CallerRecords : e = callers[c]
  BY LiveNumbers DEF LiveInv
<1> DEFINE d == [at |-> "modelled", version |-> effective, asked |-> e.asked,
                 fetchedAt |-> e.fetchedAt, good |-> e.good]
<1>2. [e EXCEPT !.at = "modelled", !.version = effective] = d
  BY CallerModels
<1>3. callers' = [callers EXCEPT ![c] = d]
  BY <1>1, <1>2, LiveNumbers DEF ReadModel, LiveInv
<1>4. d \in CallerRecords /\ CallerSound(d)
  BY LiveNumbers DEF LiveInv, CallerRecords, CallerSound
<1> QED
  BY <1>3, <1>4, CallerGoesOn DEF ReadModel, LiveInv, LiveTypeOK

LEMMA UseCacheKeeps ==
  ASSUME LiveInv, NEW c \in Callers, UseCache(c)
  PROVE  LiveInv' /\ callers'[c].version = callers[c].version
<1>1. PICK e \in CallerRecords : e = callers[c]
  BY LiveNumbers DEF LiveInv
<1> DEFINE d == [at |-> "served", version |-> liveCache.version, asked |-> liveNow,
                 fetchedAt |-> liveCache.fetchedAt, good |-> e.good]
<1>2. [e EXCEPT !.at = "served", !.asked = liveNow, !.fetchedAt = liveCache.fetchedAt,
                !.version = liveCache.version] = d
  <2> DEFINE fields  == {"at", "version", "asked", "fetchedAt", "good"}
             byField == [i \in fields |-> CASE i = "at"        -> "served"
                                            [] i = "asked"     -> liveNow
                                            [] i = "fetchedAt" -> liveCache.fetchedAt
                                            [] i = "version"   -> liveCache.version
                                            [] OTHER           -> e[i]]
  <2>1. DOMAIN e = fields
    BY DEF CallerRecords
  <2>2. [e EXCEPT !.at = "served", !.asked = liveNow, !.fetchedAt = liveCache.fetchedAt,
                  !.version = liveCache.version] = byField
    BY <2>1
  <2>3. byField = d
    OBVIOUS
  <2> QED  BY <2>2, <2>3
<1>3. callers' = [callers EXCEPT ![c] = d]
  BY <1>1, <1>2, LiveNumbers DEF UseCache, LiveInv
<1>4. d \in CallerRecords
  BY LiveNumbers DEF LiveInv, CallerRecords
<1>5. CallerSound(d)
  BY LiveNumbers DEF LiveInv, CacheSound, UseCache, Cached, CallerSound
<1>6. failureCache' \in [expiresAt : 0 .. LiveHorizon + ProviderBackoff, version : Methodologies]
  BY DEF UseCache, LiveInv, LiveTypeOK
<1>7. LiveInv'
  BY <1>3, <1>4, <1>5, <1>6, CallerGoesOn DEF UseCache
<1>8. callers'[c].version = liveCache.version /\ liveCache.version = callers[c].version
  BY <1>3, LiveNumbers DEF LiveInv, UseCache, Cached
<1> QED  BY <1>7, <1>8

(* A caller that only changes where it is.                                 *)
LEMMA CallerMoves ==
  ASSUME LiveInv, NEW c \in Callers, NEW at \in {"failed"},
         callers' = [callers EXCEPT ![c].at = at],
         UNCHANGED <<liveNow, effective, inFlight, liveCache, bucket, sent, circuit>>,
         failureCache' \in [expiresAt : 0 .. LiveHorizon + ProviderBackoff, version : Methodologies]
  PROVE  LiveInv'
<1>1. PICK e \in CallerRecords : e = callers[c]
  BY LiveNumbers DEF LiveInv
<1> DEFINE d == [at |-> at, version |-> e.version, asked |-> e.asked, fetchedAt |-> e.fetchedAt,
                 good |-> e.good]
<1>2. [e EXCEPT !.at = at] = d
  BY CallerAt
<1>3. callers' = [callers EXCEPT ![c] = d]
  BY <1>1, <1>2, LiveNumbers DEF LiveInv
<1>4. d \in CallerRecords /\ CallerSound(d)
  BY <1>1 DEF CallerRecords, CallerSound
<1> QED
  BY <1>3, <1>4, CallerGoesOn

LEMMA FailuresKeep ==
  ASSUME LiveInv, NEW c \in Callers,
         UseFailure(c) \/ RefusedByCircuit(c) \/ ServeFailure(c)
  PROVE  LiveInv'
<1>1. /\ callers' = [callers EXCEPT ![c].at = "failed"]
      /\ UNCHANGED <<liveNow, effective, inFlight, liveCache, bucket, sent, circuit>>
  BY DEF UseFailure, RefusedByCircuit, ServeFailure
<1>2. callers[c].version \in Methodologies /\ liveNow + ProviderBackoff \in 0 .. LiveHorizon + ProviderBackoff
  BY LiveNumbers DEF LiveInv, CallerRecords, LiveTimes
<1>3. failureCache' \in [expiresAt : 0 .. LiveHorizon + ProviderBackoff, version : Methodologies]
  BY <1>2 DEF UseFailure, RefusedByCircuit, ServeFailure, LiveInv, LiveTypeOK
<1> QED  BY <1>1, <1>3, CallerMoves

LEMMA JoinKeeps ==
  ASSUME LiveInv, NEW c \in Callers, Join(c) PROVE LiveInv'
<1>1. PICK e \in CallerRecords : e = callers[c]
  BY LiveNumbers DEF LiveInv
<1> DEFINE d == [at |-> "waiting", version |-> e.version, asked |-> liveNow,
                 fetchedAt |-> e.fetchedAt, good |-> e.good]
<1>2. [e EXCEPT !.at = "waiting", !.asked = liveNow] = d
  BY CallerAsks
<1>3. callers' = [callers EXCEPT ![c] = d]
  BY <1>1, <1>2, LiveNumbers DEF Join, Wait, LiveInv
<1>4. d \in CallerRecords
  BY LiveNumbers DEF LiveInv, CallerRecords
<1>5. CallerSound(d)
  BY LiveNumbers DEF LiveInv, FlightSound, Join, CallerSound
<1> QED
  BY <1>3, <1>4, <1>5, CallerGoesOn DEF Join, LiveInv, LiveTypeOK

(* The request is launched: nobody waits for another one.                  *)
LEMMA LaunchKeeps ==
  ASSUME LiveInv, NEW c \in Callers, Launch(c) PROVE LiveInv'
<1>1. PICK e \in CallerRecords : e = callers[c]
  BY LiveNumbers DEF LiveInv
<1> DEFINE d == [at |-> "waiting", version |-> e.version, asked |-> liveNow,
                 fetchedAt |-> e.fetchedAt, good |-> e.good]
<1>2. [e EXCEPT !.at = "waiting", !.asked = liveNow] = d
  BY CallerAsks
<1>3. callers' = [callers EXCEPT ![c] = d]
  BY <1>1, <1>2, LiveNumbers DEF Launch, Wait, LiveInv
<1>4. /\ d \in CallerRecords /\ UNCHANGED <<liveNow, effective, liveCache, failureCache>>
      /\ \A b \in Callers : callers'[b] = IF b = c THEN d ELSE callers[b]
      /\ callers' \in [Callers -> CallerRecords] /\ inFlight = Nothing
  BY <1>3, LiveNumbers DEF LiveInv, CallerRecords, Launch
<1>5. PICK granted \in BOOLEAN : inFlight' = [at |-> liveNow, granted |-> granted]
  <2> DEFINE granted == TokensAt(liveNow) >= 1
  <2>1. granted \in BOOLEAN
    OBVIOUS
  <2>2. inFlight' = [at |-> liveNow, granted |-> granted]
    BY DEF Launch
  <2> HIDE DEF granted
  <2> QED  BY <2>1, <2>2
<1>6. inFlight' # Nothing /\ inFlight'.at = liveNow
  BY <1>5, LiveNumbers DEF Nothing, LiveInv
<1>7. circuit' \in LiveBreakers
  <2> DEFINE flag == circuit.probing \/ BreakerState(circuit, LiveCircuit) = "HALF_OPEN"
  <2>1. circuit \in LiveBreakers /\ flag \in BOOLEAN
    BY LiveBreakerFields DEF LiveInv, LiveTypeOK, LiveBreakers
  <2>2. circuit' = [circuit EXCEPT !.probing = flag]
    BY DEF Launch, Admitted
  <2> HIDE DEF flag
  <2> QED  BY <2>1, <2>2, LiveBreakerFlag
<1>8. /\ bucket' \in [tokens : 0 .. BucketCapacity, updatedAt : LiveTimes]
      /\ sent' \in Nat
      /\ bucket'.updatedAt = liveNow /\ sent' + bucket'.tokens <= BucketCapacity + liveNow
  <2> DEFINE tokens == TokensAt(liveNow)
  <2>1. /\ tokens \in Nat /\ tokens <= BucketCapacity
        /\ tokens <= bucket.tokens + (liveNow - bucket.updatedAt)
    BY LiveNumbers DEF TokensAt, LiveInv, BucketSound
  <2>2. /\ bucket' = [tokens |-> IF tokens < 1 THEN tokens ELSE tokens - 1, updatedAt |-> liveNow]
        /\ sent' = IF tokens < 1 THEN sent ELSE sent + 1
    BY DEF Launch, Acquire
  <2> HIDE DEF tokens
  <2>3. sent' + bucket'.tokens = sent + tokens
    BY <2>1, <2>2, LiveNumbers DEF LiveInv
  <2>4. sent + bucket.tokens <= BucketCapacity + bucket.updatedAt
    BY DEF LiveInv, BucketSound
  <2>5. sent + tokens <= BucketCapacity + liveNow
    BY <2>1, <2>4, LiveNumbers DEF LiveInv
  <2> QED  BY <2>1, <2>2, <2>3, <2>5, LiveNumbers DEF LiveInv
<1>9. LiveTypeOK'
  <2>1. inFlight' \in [at : LiveTimes, granted : BOOLEAN] \cup {Nothing}
    BY <1>5, LiveNumbers DEF LiveInv
  <2> QED  BY <1>4, <1>7, <1>8, <2>1 DEF LiveInv, LiveTypeOK, CallerRecords, LiveBreakers
<1>10. BucketSound' /\ FlightSound' /\ CacheSound'
  BY <1>4, <1>6, <1>8, LiveNumbers DEF LiveInv, BucketSound, FlightSound, CacheSound
<1>11. ASSUME NEW b \in Callers PROVE CallerSound(callers[b])'
  <2>1. CASE b = c
    BY <1>4, <1>6, <2>1, LiveNumbers DEF LiveInv, CallerSound
  <2>2. CASE b # c
    BY <1>4, <2>2 DEF LiveInv, CallerSound
  <2> QED  BY <2>1, <2>2
<1> QED  BY <1>9, <1>10, <1>11 DEF LiveInv

LEMMA RespondKeeps ==
  ASSUME LiveInv, NEW answered \in BOOLEAN, NEW good \in BOOLEAN, RespondLive(answered, good)
  PROVE  /\ LiveInv'
         /\ \A c \in Callers : callers'[c].at = "served" => callers'[c] = callers[c]
<1>1. /\ inFlight # Nothing /\ inFlight' = Nothing /\ inFlight.at \in LiveTimes
      /\ UNCHANGED <<liveNow, effective, liveCache, failureCache, bucket, sent>>
  BY LiveNumbers DEF RespondLive, LiveInv
<1>2. ASSUME NEW c \in Callers
      PROVE  /\ callers'[c] \in CallerRecords
             /\ callers[c].at # "waiting" => callers'[c] = callers[c]
             /\ callers[c].at = "waiting" =>
                  /\ callers'[c].at = "answered" /\ callers'[c].fetchedAt = inFlight.at
                  /\ callers'[c].asked = callers[c].asked
  <2>1. PICK e \in CallerRecords : e = callers[c]
    BY LiveNumbers DEF LiveInv
  <2>2. [e EXCEPT !.at = "answered", !.fetchedAt = inFlight.at, !.good = good] =
          [at |-> "answered", version |-> e.version, asked |-> e.asked,
           fetchedAt |-> inFlight.at, good |-> good]
    BY CallerHears
  <2>3. callers'[c] = IF e.at = "waiting"
                      THEN [e EXCEPT !.at = "answered", !.fetchedAt = inFlight.at, !.good = good]
                      ELSE e
    BY <2>1 DEF RespondLive
  <2>4. [at |-> "answered", version |-> e.version, asked |-> e.asked,
         fetchedAt |-> inFlight.at, good |-> good] \in CallerRecords
    BY <1>1 DEF CallerRecords
  <2> QED  BY <2>1, <2>2, <2>3, <2>4
<1>3. callers' \in [Callers -> CallerRecords]
  <2>1. DOMAIN callers' = Callers /\ callers' = [c \in Callers |-> callers'[c]]
    BY DEF RespondLive
  <2> QED  BY <1>2, <2>1
<1>4. circuit' \in LiveBreakers
  <2> DEFINE after == IF answered THEN RecordSuccess(circuit, LiveCircuit)
                      ELSE RecordFailure(circuit, LiveCircuit)
  <2>1. after \in LiveBreakers
    BY LiveBreakerSettles DEF LiveInv, LiveTypeOK, LiveBreakers
  <2>2. circuit' = [after EXCEPT !.probing = FALSE]
    BY DEF RespondLive, Settled
  <2> HIDE DEF after
  <2> QED  BY <2>1, <2>2, LiveBreakerFlag
<1>5. LiveTypeOK'
  BY <1>1, <1>3, <1>4 DEF LiveInv, LiveTypeOK, CallerRecords, LiveBreakers
<1>6. BucketSound' /\ FlightSound' /\ CacheSound'
  BY <1>1 DEF LiveInv, BucketSound, FlightSound, CacheSound
<1>7. ASSUME NEW c \in Callers PROVE CallerSound(callers[c])'
  <2>1. CallerSound(callers[c]) /\ FlightSound
    BY DEF LiveInv
  <2>2. CASE callers[c].at = "waiting"
    BY <1>1, <1>2, <2>1, <2>2, LiveNumbers DEF LiveInv, CallerSound, FlightSound
  <2>3. CASE callers[c].at # "waiting"
    BY <1>1, <1>2, <2>1, <2>3 DEF CallerSound
  <2> QED  BY <2>2, <2>3
<1> QED  BY <1>2, <1>5, <1>6, <1>7 DEF LiveInv

LEMMA ServeKeeps ==
  ASSUME LiveInv, NEW c \in Callers, Serve(c)
  PROVE  LiveInv' /\ callers'[c].version = callers[c].version
<1>1. PICK e \in CallerRecords : e = callers[c]
  BY LiveNumbers DEF LiveInv
<1> DEFINE d == [at |-> "served", version |-> e.version, asked |-> e.asked,
                 fetchedAt |-> e.fetchedAt, good |-> e.good]
<1>2. [e EXCEPT !.at = "served"] = d
  BY CallerAt
<1>3. callers' = [callers EXCEPT ![c] = d]
  BY <1>1, <1>2, LiveNumbers DEF Serve, LiveInv
<1>4. /\ \A b \in Callers : callers'[b] = IF b = c THEN d ELSE callers[b]
      /\ callers' \in [Callers -> CallerRecords]
      /\ UNCHANGED <<liveNow, effective, inFlight, circuit, bucket, sent>>
      /\ liveCache' = [expiresAt |-> e.asked + EvidenceLifetime, fetchedAt |-> e.fetchedAt,
                       version |-> e.version]
  BY <1>1, <1>3, LiveNumbers DEF LiveInv, Serve, CallerRecords
<1>5. /\ e.asked \in LiveTimes /\ e.asked \in Nat /\ e.fetchedAt \in Nat
      /\ e.fetchedAt \in LiveTimes /\ e.version \in Methodologies
  BY LiveConstants DEF CallerRecords, LiveTimes
<1>6. e.asked <= liveNow /\ e.fetchedAt <= e.asked /\ liveNow <= e.fetchedAt + RequestTime
  BY <1>1 DEF LiveInv, CallerSound, Serve
<1>7. failureCache' \in [expiresAt : 0 .. LiveHorizon + ProviderBackoff, version : Methodologies]
  BY LiveNumbers DEF Serve, LiveInv, LiveTypeOK
<1>8. LiveTypeOK'
  <2>1. liveCache' \in [expiresAt : 0 .. LiveHorizon + EvidenceLifetime, fetchedAt : LiveTimes,
                        version : Methodologies]
    BY <1>4, <1>5, LiveNumbers DEF LiveInv, LiveTimes
  <2> QED  BY <1>4, <1>7, <2>1 DEF LiveInv, LiveTypeOK, CallerRecords
<1>9. BucketSound' /\ FlightSound' /\ CacheSound'
  BY <1>4, <1>5, <1>6, LiveNumbers DEF LiveInv, BucketSound, FlightSound, CacheSound
<1>10. ASSUME NEW b \in Callers PROVE CallerSound(callers[b])'
  BY <1>4, <1>5, <1>6, LiveNumbers DEF LiveInv, CallerSound
<1> QED  BY <1>1, <1>4, <1>8, <1>9, <1>10 DEF LiveInv

LEMMA LeaveKeeps ==
  ASSUME LiveInv, NEW c \in Callers, Leave(c) PROVE LiveInv' /\ callers'[c].at = "idle"
<1>1. IdleCaller \in CallerRecords /\ IdleCaller.at = "idle"
  <2>1. (CHOOSE m \in Methodologies : TRUE) \in Methodologies
    BY LiveNumbers DEF LiveInv
  <2> QED  BY <2>1, LiveConstants DEF IdleCaller, CallerRecords, NoCache, LiveTimes
<1>2. CallerSound(IdleCaller)
  BY <1>1 DEF CallerSound
<1>3. callers' = [callers EXCEPT ![c] = IdleCaller]
  BY DEF Leave
<1>4. LiveInv'
  BY <1>1, <1>2, <1>3, CallerGoesOn DEF Leave, LiveInv, LiveTypeOK
<1> QED  BY <1>1, <1>3, <1>4, LiveNumbers DEF LiveInv

LEMMA SupersedeKeeps == ASSUME LiveInv, Supersede PROVE LiveInv'
<1>1. LiveTypeOK'
  BY DEF Supersede, LiveInv, LiveTypeOK
<1> QED
  BY <1>1 DEF Supersede, LiveInv, BucketSound, FlightSound, CacheSound, CallerSound

LEMMA LiveTickKeeps == ASSUME LiveInv, LiveTick PROVE LiveInv'
<1>1. circuit' \in LiveBreakers
  BY LiveBreakerSettles DEF LiveTick, LiveInv, LiveTypeOK, LiveBreakers
<1>2. /\ liveNow' = liveNow + 1 /\ liveNow' \in LiveTimes
      /\ UNCHANGED <<effective, liveCache, failureCache, inFlight, bucket, callers, sent>>
  BY LiveNumbers DEF LiveTick, LiveInv, LiveTimes
<1>3. LiveTypeOK'
  BY <1>1, <1>2 DEF LiveInv, LiveTypeOK, LiveBreakers
<1>4. BucketSound' /\ FlightSound' /\ CacheSound'
  BY <1>2, LiveNumbers DEF LiveTick, LiveInv, BucketSound, FlightSound, CacheSound
<1>5. ASSUME NEW c \in Callers PROVE CallerSound(callers[c])'
  <2>1. callers[c].at \in {"idle", "modelled", "waiting"} /\ CallerSound(callers[c])
    BY DEF LiveTick, LiveInv
  <2>2. callers[c].asked \in Int
    BY LiveNumbers, LiveConstants DEF LiveInv, CallerRecords, LiveTimes
  <2> QED  BY <1>2, <2>1, <2>2, LiveNumbers DEF LiveInv, CallerSound
<1> QED  BY <1>3, <1>4, <1>5 DEF LiveInv

LEMMA LiveInvStep ==
  ASSUME LiveInv, [LiveNext]_liveVars
  PROVE  LiveInv' /\ EvidenceUsesMethodology
<1>1. ASSUME NEW c \in Callers, LiveStep(c) PROVE LiveInv' /\ EvidenceUsesMethodology
  <2>1. LiveInv'
    BY <1>1, ReadModelKeeps, UseCacheKeeps, FailuresKeep, JoinKeeps, LaunchKeeps, ServeKeeps,
       LeaveKeeps DEF LiveStep
  <2>2. ASSUME NEW b \in Callers, b # c PROVE callers'[b] = callers[b]
    BY <1>1, <2>2, LiveNumbers
       DEF LiveInv, LiveStep, ReadModel, UseCache, UseFailure, Join, Launch, RefusedByCircuit,
           Serve, ServeFailure, Leave, Wait
  <2>3. callers'[c].at = "served" => callers'[c].version = callers[c].version
    <3>1. CASE UseCache(c) \/ Serve(c)
      BY <3>1, UseCacheKeeps, ServeKeeps
    <3>2. CASE Leave(c)
      BY <3>2, LeaveKeeps
    <3>3. CASE ReadModel(c) \/ UseFailure(c) \/ Join(c) \/ Launch(c) \/ RefusedByCircuit(c)
                 \/ ServeFailure(c)
      <4>1. callers'[c].at \in {"modelled", "failed", "waiting"}
        BY <3>3, LiveNumbers
           DEF LiveInv, CallerRecords, ReadModel, UseFailure, Join, Launch, RefusedByCircuit,
               ServeFailure, Wait
      <4> QED  BY <4>1
    <3> QED  BY <1>1, <3>1, <3>2, <3>3 DEF LiveStep
  <2> QED  BY <2>1, <2>2, <2>3 DEF EvidenceUsesMethodology
<1>2. ASSUME NEW answered \in BOOLEAN, NEW good \in BOOLEAN, RespondLive(answered, good)
      PROVE  LiveInv' /\ EvidenceUsesMethodology
  BY <1>2, RespondKeeps DEF EvidenceUsesMethodology
<1>3. CASE Supersede \/ LiveTick
  BY <1>3, SupersedeKeeps, LiveTickKeeps DEF EvidenceUsesMethodology, Supersede, LiveTick
<1>4. CASE UNCHANGED liveVars
  <2>1. LiveTypeOK'
    BY <1>4 DEF liveVars, LiveInv, LiveTypeOK
  <2> QED
    BY <1>4, <2>1
       DEF liveVars, LiveInv, BucketSound, FlightSound, CacheSound, CallerSound,
           EvidenceUsesMethodology
<1> QED  BY <1>1, <1>2, <1>3, <1>4 DEF LiveNext

LEMMA LiveSoundFollows == LiveInv => EvidenceIsRecent /\ ProviderBudget
<1> SUFFICES ASSUME LiveInv PROVE EvidenceIsRecent /\ ProviderBudget
  OBVIOUS
<1>1. EvidenceIsRecent
  BY DEF LiveInv, CallerSound, EvidenceIsRecent
<1>2. ProviderBudget
  BY LiveNumbers DEF LiveInv, BucketSound, ProviderBudget
<1> QED  BY <1>1, <1>2

(* One cache and one bucket serve all callers: no evidence older than its  *)
(* lifetime and its request, none of another methodology, and no more      *)
(* requests than the bucket allows (apps/web/src/lib/live-morpho.ts).      *)
THEOREM LiveEvidenceStaysSound == LiveSpec => LiveEvidenceIsSound
<1>1. LiveInv /\ [LiveNext]_liveVars => LiveInv'
  BY LiveInvStep
<1>2. LiveInv /\ LiveInv' /\ [LiveNext]_liveVars =>
        [EvidenceIsRecent' /\ EvidenceUsesMethodology /\ ProviderBudget']_liveVars
  <2>1. LiveInv' => EvidenceIsRecent' /\ ProviderBudget'
    BY LiveSoundFollows, PTL
  <2> QED  BY <2>1, LiveInvStep
<1> QED
  BY <1>1, <1>2, LiveInvInit, PTL DEF LiveSpec, LiveEvidenceIsSound

-----------------------------------------------------------------------------
(* RiskMethodologies. What a transaction reads may be stale when it        *)
(* writes, so the properties do not follow from its checks. Two people:    *)
(* the table says so of every row it accepts. One in force: a transaction  *)
(* that publishes knows every version in force, save those that were       *)
(* committed after it began.                                               *)

USE DEF MethodologyStatuses, Someone, Times, Forever

LEMMA AnyTypes ==
  AnyVersion \in Versions /\ AnyContent \in Contents /\ AnyTime \in EffectiveTimes
  BY MethodologyConstants DEF AnyVersion, AnyContent, AnyTime

LEMMA NoneTypes == NoEdit \in Edits /\ NoMethodology \in MethodologyRows
  BY AnyTypes, MethodologyConstants DEF NoEdit, Edits, NoMethodology, MethodologyRows

(* What a transaction writes is a row.                                     *)
LEMMA WrittenType ==
  ASSUME MethodologyTypeOK, NEW s \in EditSessions, edits[s].op # "NONE"
  PROVE  /\ Written(s) \in MethodologyRows
         /\ \A p \in Versions : Superseded(s, p) \in MethodologyRows
<1> DEFINE edit == edits[s]
           row  == methodologies[edit.version]
<1>1. edit \in Edits /\ row \in MethodologyRows /\ methodologyNow \in Times
  BY DEF MethodologyTypeOK, Edits
<1>2. ASSUME edit.op = "SAVE" PROVE Written(s) \in MethodologyRows
  BY <1>1, <1>2 DEF Written, Edits, MethodologyRows
<1>3. ASSUME edit.op = "REVIEW" PROVE Written(s) \in MethodologyRows
  BY <1>1, <1>3 DEF Written, Edits, MethodologyRows
<1>4. ASSUME edit.op = "REJECT" PROVE Written(s) \in MethodologyRows
  BY <1>1, <1>4 DEF Written, Edits, MethodologyRows
<1>5. ASSUME edit.op = "PUBLISH" PROVE Written(s) \in MethodologyRows
  <2>1. Written(s) = [row EXCEPT !.status = "PUBLISHED", !.publisher = edit.by,
                                 !.publishedAt = edit.at, !.committedAt = methodologyNow]
    BY <1>5 DEF Written
  <2>2. edit.by \in Someone /\ edit.at \in Times
    BY <1>1 DEF Edits
  <2> QED  BY <1>1, <2>1, <2>2 DEF MethodologyRows
<1>6. \A p \in Versions : Superseded(s, p) \in MethodologyRows
  BY <1>1 DEF Superseded, Edits, MethodologyRows, MethodologyTypeOK
<1> QED
  BY <1>1, <1>2, <1>3, <1>4, <1>5, <1>6 DEF Edits

(* A transaction that begins is well formed.                               *)
LEMMA BeginKeepsMethodologyType ==
  ASSUME MethodologyTypeOK, NEW s \in EditSessions, NEW a \in Administrators,
         NEW op \in {"SAVE", "REVIEW", "REJECT", "PUBLISH"}, NEW v \in Versions,
         NEW values \in Edits, Begin(s, a, op, v, values)
  PROVE  MethodologyTypeOK'
  BY DEF MethodologyTypeOK, Begin, Edits

LEMMA MethodologyTypeStep ==
  ASSUME MethodologyTypeOK, [MethodologyNext]_methodologyVars
  PROVE  MethodologyTypeOK'
<1>1. ASSUME NEW v \in Versions, CreateDraft(v) PROVE MethodologyTypeOK'
  <2>1. PICK c \in Contents, from \in EffectiveTimes :
          methodologies' = [methodologies EXCEPT
            ![v] = [NoMethodology EXCEPT !.status = "DRAFT", !.content = c, !.effectiveFrom = from]]
    BY <1>1 DEF CreateDraft
  <2>2. [NoMethodology EXCEPT !.status = "DRAFT", !.content = c, !.effectiveFrom = from]
          \in MethodologyRows
    BY NoneTypes DEF MethodologyRows
  <2>3. methodologyNow' = methodologyNow /\ edits' = edits
    BY <1>1 DEF CreateDraft
  <2> QED  BY <2>1, <2>2, <2>3 DEF MethodologyTypeOK
<1>2. ASSUME NEW s \in EditSessions, NEW a \in Administrators, NEW v \in Versions,
             BeginSave(s, a, v)
      PROVE  MethodologyTypeOK'
  <2>1. PICK c \in Contents, from \in EffectiveTimes :
          Begin(s, a, "SAVE", v, [NoEdit EXCEPT !.content = c, !.effectiveFrom = from])
    BY <1>2 DEF BeginSave
  <2>2. [NoEdit EXCEPT !.content = c, !.effectiveFrom = from] \in Edits
    BY NoneTypes DEF Edits
  <2> QED
    BY <2>1, <2>2, BeginKeepsMethodologyType
<1>3. ASSUME NEW s \in EditSessions, NEW a \in Administrators, NEW v \in Versions,
             BeginReview(s, a, v)
      PROVE  MethodologyTypeOK'
  BY <1>3, NoneTypes, BeginKeepsMethodologyType DEF BeginReview
<1>4. ASSUME NEW s \in EditSessions, NEW a \in Administrators, NEW v \in Versions,
             BeginReject(s, a, v)
      PROVE  MethodologyTypeOK'
  BY <1>4, NoneTypes, BeginKeepsMethodologyType DEF BeginReject
<1>5. ASSUME NEW s \in EditSessions, NEW a \in Administrators, NEW v \in Versions,
             BeginPublish(s, a, v)
      PROVE  MethodologyTypeOK'
  <2> DEFINE values == [NoEdit EXCEPT !.effectiveFrom = methodologies[v].effectiveFrom,
                                      !.previous = PreviousPublished(v)]
  <2>1. values \in Edits
    BY NoneTypes DEF Edits, MethodologyTypeOK, MethodologyRows, PreviousPublished
  <2>2. Begin(s, a, "PUBLISH", v, values)
    BY <1>5 DEF BeginPublish
  <2> QED
    BY <2>1, <2>2, BeginKeepsMethodologyType
<1>6. ASSUME NEW s \in EditSessions, Commit(s) PROVE MethodologyTypeOK'
  BY <1>6, NoneTypes, WrittenType DEF MethodologyTypeOK, Commit
<1>7. ASSUME NEW s \in EditSessions, Rollback(s) PROVE MethodologyTypeOK'
  BY <1>7, NoneTypes DEF MethodologyTypeOK, Rollback
<1>8. CASE MethodologyTick
  BY <1>8, MethodologyConstants DEF MethodologyTypeOK, MethodologyTick
<1>9. CASE UNCHANGED methodologyVars
  BY <1>9 DEF MethodologyTypeOK, methodologyVars
<1> QED
  BY <1>1, <1>2, <1>3, <1>4, <1>5, <1>6, <1>7, <1>8, <1>9 DEF MethodologyNext

LEMMA MethodologyTypeInit == MethodologyInit => MethodologyTypeOK
  BY NoneTypes, MethodologyConstants DEF MethodologyInit, MethodologyTypeOK

(* The variables of RiskMethodologies keep their types.                    *)
THEOREM MethodologyTyped == MethodologySpec => []MethodologyTypeOK
  BY MethodologyTypeInit, MethodologyTypeStep, PTL DEF MethodologySpec

-----------------------------------------------------------------------------
(* Which rows are published, and what open requests know of them.          *)

OpenlyPublished(v) == methodologies[v].status = "PUBLISHED" /\ methodologies[v].effectiveTo = Forever

NothingFromTheFuture ==
  /\ \A s \in EditSessions : edits[s].at <= methodologyNow
  /\ \A v \in Versions : /\ methodologies[v].publishedAt <= methodologyNow
                         /\ methodologies[v].committedAt <= methodologyNow

(* Who publishes is an administrator.                                      *)
SomebodyAsks == \A s \in EditSessions : edits[s].op # "NONE" => edits[s].by \in Administrators

(* What a request that publishes does not know was committed since.        *)
UnknownIsLater ==
  \A s \in EditSessions : edits[s].op = "PUBLISH" =>
    \A y \in Versions : OpenlyPublished(y) /\ y # edits[s].version /\ y \notin edits[s].previous =>
      edits[s].at <= methodologies[y].committedAt

PublicationInv ==
  /\ MethodologyTypeOK /\ NothingFromTheFuture /\ SomebodyAsks /\ UnknownIsLater
  /\ TwoPersonPublication /\ TwoInForceOverlapped

LEMMA InitPublicationInv == MethodologyInit => PublicationInv
<1> SUFFICES ASSUME MethodologyInit PROVE PublicationInv
  OBVIOUS
<1>1. MethodologyTypeOK
  BY MethodologyTypeInit
<1> QED
  BY <1>1 DEF MethodologyInit, PublicationInv, NothingFromTheFuture, SomebodyAsks, UnknownIsLater,
              TwoPersonPublication, TwoInForceOverlapped, NoEdit, NoMethodology

(* A row of a commit that is published was so before, or is the one that   *)
(* the request publishes.                                                  *)
LEMMA CommitPublishes ==
  ASSUME MethodologyTypeOK, NEW s \in EditSessions, Commit(s), NEW v \in Versions,
         methodologies'[v].status = "PUBLISHED"
  PROVE  \/ methodologies'[v] = methodologies[v] /\ v \notin edits[s].previous
         \/ /\ v = edits[s].version /\ edits[s].op = "PUBLISH"
            /\ methodologies'[v].publishedAt = edits[s].at
            /\ methodologies'[v].committedAt = methodologyNow
            /\ methodologies'[v].publisher = edits[s].by
            /\ Publishable(methodologies'[v])
<1> DEFINE edit == edits[s]
           row  == methodologies[edit.version]
<1>1. edit \in Edits /\ row \in MethodologyRows
  BY DEF MethodologyTypeOK, Edits
<1>2. v # edit.version => v \notin edit.previous /\ methodologies'[v] = methodologies[v]
  <2> SUFFICES ASSUME v # edit.version, v \in edit.previous PROVE FALSE
    BY DEF Commit
  <2>1. methodologies'[v] = Superseded(s, v)
    BY DEF Commit
  <2>2. methodologies[v] \in MethodologyRows
    BY DEF MethodologyTypeOK
  <2> QED  BY <2>1, <2>2 DEF Superseded, MethodologyRows
<1>3. ASSUME v = edit.version PROVE edit.op = "PUBLISH"
  <2>1. methodologies'[v] = Written(s) /\ Retained(row, Written(s)) /\ edit.op # "NONE"
    BY <1>3 DEF Commit
  <2>2. CASE edit.op = "SAVE"
    <3>1. Written(s).status = row.status
      BY <1>1, <2>2 DEF Written, MethodologyRows
    <3> QED  BY <1>3, <2>1, <2>2, <3>1 DEF Commit, WeightsMayChange
  <2>3. CASE edit.op = "REVIEW"
    BY <1>1, <2>1, <2>3 DEF Written, MethodologyRows
  <2>4. CASE edit.op = "REJECT"
    BY <1>1, <2>1, <2>4 DEF Written, MethodologyRows
  <2> QED  BY <1>1, <2>1, <2>2, <2>3, <2>4 DEF Edits
<1>4. ASSUME v = edit.version
      PROVE  /\ methodologies'[v].publishedAt = edit.at
             /\ methodologies'[v].committedAt = methodologyNow
             /\ methodologies'[v].publisher = edit.by
             /\ Publishable(methodologies'[v])
  <2>1. methodologies'[v] = Written(s) /\ Retained(row, Written(s))
    BY <1>4 DEF Commit
  <2>2. Written(s) = [row EXCEPT !.status = "PUBLISHED", !.publisher = edit.by,
                                 !.publishedAt = edit.at, !.committedAt = methodologyNow]
    BY <1>3, <1>4 DEF Written
  <2> QED  BY <1>1, <2>1, <2>2 DEF Retained, MethodologyRows
<1> QED
  BY <1>2, <1>3, <1>4

(* A step that leaves the published rows alone, and opens no request that  *)
(* publishes.                                                              *)
LEMMA QuietKeepsPublicationInv ==
  ASSUME PublicationInv, MethodologyTypeOK', SomebodyAsks', NothingFromTheFuture',
         \A v \in Versions : methodologies'[v].status = "PUBLISHED" =>
           methodologies'[v] = methodologies[v],
         \A s \in EditSessions : edits'[s].op = "PUBLISH" => edits'[s] = edits[s]
  PROVE  PublicationInv'
<1>1. UnknownIsLater'
  BY DEF PublicationInv, UnknownIsLater, OpenlyPublished
<1>2. TwoPersonPublication'
  BY DEF PublicationInv, TwoPersonPublication
<1>3. TwoInForceOverlapped'
  BY DEF PublicationInv, TwoInForceOverlapped
<1> QED
  BY <1>1, <1>2, <1>3 DEF PublicationInv

LEMMA CommitKeepsPublicationInv ==
  ASSUME PublicationInv, NEW s \in EditSessions, Commit(s), MethodologyTypeOK'
  PROVE  PublicationInv'
<1> DEFINE edit == edits[s]
<1>1. /\ MethodologyTypeOK /\ NothingFromTheFuture /\ SomebodyAsks /\ UnknownIsLater
      /\ TwoPersonPublication /\ TwoInForceOverlapped
  BY DEF PublicationInv
<1>2. /\ edit \in Edits /\ edit.op # "NONE" /\ methodologyNow' = methodologyNow
      /\ edits' = [edits EXCEPT ![s] = NoEdit] /\ methodologyNow \in Times
      /\ edit.at \in Times
  BY <1>1 DEF MethodologyTypeOK, Commit, Edits
<1>3. NoEdit.op = "NONE" /\ NoEdit.at = 0
  BY DEF NoEdit
<1>4. \A t \in EditSessions : t # s => edits'[t] = edits[t]
  BY <1>1, <1>2 DEF MethodologyTypeOK
<1>5. edits'[s] = NoEdit
  BY <1>1, <1>2 DEF MethodologyTypeOK
<1>6. \A v \in Versions : methodologies[v] \in MethodologyRows /\ methodologies'[v] \in MethodologyRows
  BY <1>1 DEF MethodologyTypeOK
<1>7. NothingFromTheFuture'
  <2>1. ASSUME NEW t \in EditSessions PROVE edits'[t].at <= methodologyNow'
    BY <1>1, <1>2, <1>3, <1>4, <1>5 DEF NothingFromTheFuture
  <2>2. ASSUME NEW v \in Versions
        PROVE  /\ methodologies'[v].publishedAt <= methodologyNow'
               /\ methodologies'[v].committedAt <= methodologyNow'
    <3>1. CASE v = edit.version
      <4>1. methodologies'[v] = Written(s)
        BY <3>1 DEF Commit
      <4>2. \/ Written(s).publishedAt = methodologies[v].publishedAt
            \/ Written(s).publishedAt = edit.at
        BY <1>2, <1>6, <3>1 DEF Written, MethodologyRows, Edits
      <4>3. \/ Written(s).committedAt = methodologies[v].committedAt
            \/ Written(s).committedAt = methodologyNow
        BY <1>2, <1>6, <3>1 DEF Written, MethodologyRows, Edits
      <4> QED  BY <1>1, <1>2, <4>1, <4>2, <4>3 DEF NothingFromTheFuture
    <3>2. CASE v # edit.version /\ v \in edit.previous
      <4>1. methodologies'[v] = Superseded(s, v)
        BY <3>2 DEF Commit
      <4>2. /\ Superseded(s, v).publishedAt = methodologies[v].publishedAt
            /\ Superseded(s, v).committedAt = methodologies[v].committedAt
        BY <1>6 DEF Superseded, MethodologyRows
      <4> QED  BY <1>1, <1>2, <4>1, <4>2 DEF NothingFromTheFuture
    <3>3. CASE v # edit.version /\ v \notin edit.previous
      BY <1>1, <1>2, <3>3 DEF NothingFromTheFuture, Commit
    <3> QED  BY <3>1, <3>2, <3>3
  <2> QED  BY <2>1, <2>2 DEF NothingFromTheFuture
<1>8. SomebodyAsks'
  BY <1>1, <1>3, <1>4, <1>5 DEF SomebodyAsks
<1> DEFINE Fresh(v) == /\ v = edit.version /\ edit.op = "PUBLISH"
                       /\ methodologies'[v].publishedAt = edit.at
                       /\ methodologies'[v].committedAt = methodologyNow
                       /\ methodologies'[v].publisher = edit.by
                       /\ Publishable(methodologies'[v])
           Kept(v)  == methodologies'[v] = methodologies[v] /\ v \notin edit.previous
<1>9. ASSUME NEW v \in Versions, methodologies'[v].status = "PUBLISHED"
      PROVE  Kept(v) \/ Fresh(v)
  BY <1>1, <1>9, CommitPublishes
<1> HIDE DEF Fresh, Kept
<1>10. UnknownIsLater'
  <2> SUFFICES ASSUME NEW t \in EditSessions, edits'[t].op = "PUBLISH", NEW y \in Versions,
                      OpenlyPublished(y)', y # edits'[t].version, y \notin edits'[t].previous
               PROVE  edits'[t].at <= methodologies'[y].committedAt
    BY DEF UnknownIsLater
  <2>1. edits'[t] = edits[t]
    BY <1>3, <1>4, <1>5
  <2>2. CASE Kept(y)
    BY <1>1, <2>1, <2>2 DEF UnknownIsLater, OpenlyPublished, Kept
  <2>3. CASE Fresh(y)
    BY <1>1, <2>1, <2>3 DEF NothingFromTheFuture, Fresh
  <2> QED  BY <1>9, <2>2, <2>3 DEF OpenlyPublished
<1>11. TwoPersonPublication'
  <2> SUFFICES ASSUME NEW v \in Versions, methodologies'[v].status = "PUBLISHED"
               PROVE  /\ {methodologies'[v].reviewer, methodologies'[v].publisher}
                             \subseteq Administrators
                      /\ methodologies'[v].reviewer # methodologies'[v].publisher
    BY DEF TwoPersonPublication
  <2>1. CASE Kept(v)
    BY <1>1, <2>1 DEF TwoPersonPublication, Kept
  <2>2. CASE Fresh(v)
    BY <1>1, <1>2, <1>6, <2>2
       DEF Fresh, Publishable, SomebodyAsks, MethodologyRows
  <2> QED  BY <1>9, <2>1, <2>2
<1>12. TwoInForceOverlapped'
  <2> SUFFICES ASSUME NEW v \in Versions, NEW p \in Versions, v # p, OpenlyPublished(v)', OpenlyPublished(p)'
               PROVE  methodologies'[v].publishedAt <= methodologies'[p].committedAt
    BY DEF TwoInForceOverlapped, OpenlyPublished
  <2>1. CASE Kept(v) /\ Kept(p)
    BY <1>1, <2>1 DEF TwoInForceOverlapped, Kept, OpenlyPublished
  <2>2. CASE Fresh(v) /\ Kept(p)
    BY <1>1, <2>2 DEF UnknownIsLater, Fresh, Kept, OpenlyPublished
  <2>3. CASE Kept(v) /\ Fresh(p)
    BY <1>1, <2>3 DEF NothingFromTheFuture, Fresh, Kept
  <2>4. ~(Fresh(v) /\ Fresh(p))
    BY DEF Fresh
  <2> QED  BY <1>9, <2>1, <2>2, <2>3, <2>4 DEF OpenlyPublished
<1> QED
  BY <1>7, <1>8, <1>10, <1>11, <1>12 DEF PublicationInv

(* A request that begins.                                                  *)
LEMMA BeginKeepsPublicationInv ==
  ASSUME PublicationInv, MethodologyTypeOK', NEW s \in EditSessions, NEW a \in Administrators,
         NEW op \in {"SAVE", "REVIEW", "REJECT", "PUBLISH"}, NEW v \in Versions,
         NEW values \in Edits, Begin(s, a, op, v, values),
         op = "PUBLISH" => values.previous = PreviousPublished(v)
  PROVE  PublicationInv'
<1> DEFINE new == [values EXCEPT !.op = op, !.by = a, !.version = v, !.at = methodologyNow]
<1>1. /\ MethodologyTypeOK /\ NothingFromTheFuture /\ SomebodyAsks /\ UnknownIsLater
      /\ TwoPersonPublication /\ TwoInForceOverlapped
  BY DEF PublicationInv
<1>2. methodologyNow' = methodologyNow /\ methodologies' = methodologies
  BY DEF Begin
<1>3. \A t \in EditSessions : edits'[t] = IF t = s THEN new ELSE edits[t]
  BY <1>1 DEF MethodologyTypeOK, Begin
<1>4. /\ new.op = op /\ new.by = a /\ new.version = v /\ new.at = methodologyNow
      /\ new.previous = values.previous
  BY DEF Edits
<1> HIDE DEF new
<1>5. NothingFromTheFuture'
  BY <1>1, <1>2, <1>3, <1>4 DEF NothingFromTheFuture, MethodologyTypeOK
<1>6. SomebodyAsks'
  BY <1>1, <1>3, <1>4 DEF SomebodyAsks
<1>7. UnknownIsLater'
  <2> SUFFICES ASSUME NEW t \in EditSessions, edits'[t].op = "PUBLISH", NEW y \in Versions,
                      OpenlyPublished(y)', y # edits'[t].version, y \notin edits'[t].previous
               PROVE  edits'[t].at <= methodologies'[y].committedAt
    BY DEF UnknownIsLater
  <2>1. CASE t = s
    BY <1>2, <1>3, <1>4, <2>1 DEF PreviousPublished, OpenlyPublished
  <2>2. CASE t # s
    BY <1>1, <1>2, <1>3, <2>2 DEF UnknownIsLater, OpenlyPublished
  <2> QED  BY <2>1, <2>2
<1>8. TwoPersonPublication' /\ TwoInForceOverlapped'
  BY <1>1, <1>2 DEF TwoPersonPublication, TwoInForceOverlapped
<1> QED
  BY <1>5, <1>6, <1>7, <1>8 DEF PublicationInv

LEMMA NextKeepsPublicationInv ==
  ASSUME PublicationInv, [MethodologyNext]_methodologyVars
  PROVE  PublicationInv'
<1> USE DEF PublicationInv
<1>1. MethodologyTypeOK'
  BY MethodologyTypeStep
<1>2. ASSUME NEW v \in Versions, CreateDraft(v) PROVE PublicationInv'
  <2>1. PICK c \in Contents, from \in EffectiveTimes :
          methodologies' = [methodologies EXCEPT
            ![v] = [NoMethodology EXCEPT !.status = "DRAFT", !.content = c, !.effectiveFrom = from]]
    BY <1>2 DEF CreateDraft
  <2> DEFINE new == [NoMethodology EXCEPT !.status = "DRAFT", !.content = c, !.effectiveFrom = from]
  <2>2. new.status = "DRAFT" /\ new.publishedAt = 0 /\ new.committedAt = 0
    BY DEF NoMethodology
  <2> HIDE DEF new
  <2>3. \A u \in Versions : methodologies'[u] = IF u = v THEN new ELSE methodologies[u]
    BY <2>1 DEF MethodologyTypeOK, new
  <2>4. edits' = edits /\ methodologyNow' = methodologyNow
    BY <1>2 DEF CreateDraft
  <2>5. NothingFromTheFuture' /\ SomebodyAsks'
    BY <2>2, <2>3, <2>4 DEF NothingFromTheFuture, SomebodyAsks, MethodologyTypeOK
  <2> QED  BY <1>1, <2>2, <2>3, <2>4, <2>5, QuietKeepsPublicationInv
<1>3. ASSUME NEW s \in EditSessions, NEW a \in Administrators, NEW v \in Versions,
             BeginSave(s, a, v)
      PROVE  PublicationInv'
  <2>1. PICK c \in Contents, from \in EffectiveTimes :
          Begin(s, a, "SAVE", v, [NoEdit EXCEPT !.content = c, !.effectiveFrom = from])
    BY <1>3 DEF BeginSave
  <2>2. [NoEdit EXCEPT !.content = c, !.effectiveFrom = from] \in Edits
    BY NoneTypes DEF Edits
  <2> QED  BY <1>1, <2>1, <2>2, BeginKeepsPublicationInv
<1>4. ASSUME NEW s \in EditSessions, NEW a \in Administrators, NEW v \in Versions,
             BeginReview(s, a, v) \/ BeginReject(s, a, v)
      PROVE  PublicationInv'
  BY <1>1, <1>4, NoneTypes, BeginKeepsPublicationInv DEF BeginReview, BeginReject
<1>5. ASSUME NEW s \in EditSessions, NEW a \in Administrators, NEW v \in Versions,
             BeginPublish(s, a, v)
      PROVE  PublicationInv'
  <2> DEFINE values == [NoEdit EXCEPT !.effectiveFrom = methodologies[v].effectiveFrom,
                                      !.previous = PreviousPublished(v)]
  <2>1. values \in Edits /\ values.previous = PreviousPublished(v)
    BY NoneTypes DEF Edits, MethodologyTypeOK, MethodologyRows, PreviousPublished
  <2>2. Begin(s, a, "PUBLISH", v, values)
    BY <1>5 DEF BeginPublish
  <2> HIDE DEF values
  <2> QED  BY <1>1, <2>1, <2>2, BeginKeepsPublicationInv
<1>6. ASSUME NEW s \in EditSessions, Commit(s) PROVE PublicationInv'
  BY <1>1, <1>6, CommitKeepsPublicationInv
<1>7. ASSUME NEW s \in EditSessions, Rollback(s) PROVE PublicationInv'
  <2>1. \A t \in EditSessions : edits'[t] = IF t = s THEN NoEdit ELSE edits[t]
    BY <1>7 DEF Rollback, MethodologyTypeOK
  <2>2. NoEdit.op = "NONE" /\ NoEdit.at = 0
    BY DEF NoEdit
  <2>3. methodologies' = methodologies /\ methodologyNow' = methodologyNow
    BY <1>7 DEF Rollback
  <2>4. NothingFromTheFuture' /\ SomebodyAsks'
    BY <2>1, <2>2, <2>3 DEF NothingFromTheFuture, SomebodyAsks, MethodologyTypeOK
  <2> QED  BY <1>1, <2>1, <2>2, <2>3, <2>4, QuietKeepsPublicationInv
<1>8. CASE MethodologyTick
  <2>1. /\ methodologies' = methodologies /\ edits' = edits
        /\ methodologyNow \in Nat /\ methodologyNow' = methodologyNow + 1
    BY <1>8, MethodologyConstants DEF MethodologyTick, MethodologyTypeOK
  <2>2. \A s \in EditSessions : edits[s].at \in Nat
    BY MethodologyConstants DEF MethodologyTypeOK, Edits
  <2>3. \A v \in Versions : methodologies[v].publishedAt \in Nat /\ methodologies[v].committedAt \in Nat
    BY MethodologyConstants DEF MethodologyTypeOK, MethodologyRows
  <2>4. NothingFromTheFuture' /\ SomebodyAsks'
    BY <2>1, <2>2, <2>3 DEF NothingFromTheFuture, SomebodyAsks
  <2> QED  BY <1>1, <2>1, <2>4, QuietKeepsPublicationInv
<1>9. CASE UNCHANGED methodologyVars
  BY <1>1, <1>9, QuietKeepsPublicationInv DEF methodologyVars, NothingFromTheFuture, SomebodyAsks
<1> QED
  BY <1>2, <1>3, <1>4, <1>5, <1>6, <1>7, <1>8, <1>9 DEF MethodologyNext

(* What an open request may still do to a published row, the table stops.  *)
LEMMA PublishedStaysFixed ==
  ASSUME MethodologyTypeOK, MethodologyNext
  PROVE  PublishedIsFixed
<1> SUFFICES ASSUME NEW v \in Versions, methodologies[v].status = "PUBLISHED"
             PROVE  /\ methodologies'[v].status \in {"PUBLISHED", "SUPERSEDED"}
                    /\ methodologies'[v].content = methodologies[v].content
                    /\ methodologies'[v].effectiveFrom = methodologies[v].effectiveFrom
                    /\ methodologies'[v].reviewer = methodologies[v].reviewer
                    /\ methodologies'[v].publishedAt = methodologies[v].publishedAt
  BY DEF PublishedIsFixed
<1>1. ASSUME NEW u \in Versions, CreateDraft(u) PROVE methodologies'[v] = methodologies[v]
  BY <1>1 DEF CreateDraft, MethodologyTypeOK
<1>2. CASE UNCHANGED methodologies
  BY <1>2
<1>3. ASSUME NEW s \in EditSessions, Commit(s)
      PROVE  \E new \in MethodologyRows :
               /\ methodologies'[v] = new /\ new.status # "ARCHIVED"
               /\ (new = methodologies[v] \/ Protected(methodologies[v], new))
  <2>1. /\ Written(s) \in MethodologyRows /\ Superseded(s, v) \in MethodologyRows
        /\ methodologies[v] \in MethodologyRows
    BY <1>3, WrittenType DEF Commit, MethodologyTypeOK
  <2>2. \A row \in MethodologyRows : row.status # "ARCHIVED"
    BY DEF MethodologyRows
  <2> QED  BY <1>3, <2>1, <2>2 DEF Commit, Retained
<1>4. ASSUME NEW new \in MethodologyRows, new.status # "ARCHIVED", Protected(methodologies[v], new)
      PROVE  /\ new.status \in {"PUBLISHED", "SUPERSEDED"}
             /\ new.content = methodologies[v].content
             /\ new.effectiveFrom = methodologies[v].effectiveFrom
             /\ new.reviewer = methodologies[v].reviewer
             /\ new.publishedAt = methodologies[v].publishedAt
  <2>1. methodologies[v] \in MethodologyRows
    BY DEF MethodologyTypeOK
  <2>2. new.status \in {"PUBLISHED", "SUPERSEDED"}
    BY <1>4 DEF Protected
  <2>3. new = [methodologies[v] EXCEPT !.status = new.status, !.effectiveTo = new.effectiveTo]
    BY <1>4 DEF Protected
  <2> QED  BY <2>1, <2>2, <2>3 DEF MethodologyRows
<1>5. MethodologyNext => \/ \E u \in Versions : CreateDraft(u)
                         \/ UNCHANGED methodologies
                         \/ \E s \in EditSessions : Commit(s)
  BY DEF MethodologyNext, BeginSave, BeginReview, BeginReject, BeginPublish, Begin, Rollback,
         MethodologyTick
<1> QED
  BY <1>1, <1>2, <1>3, <1>4, <1>5

(* Published by two people, fixed from then on, and the only one in force  *)
(* unless it was published while another publication was under way.        *)
THEOREM PublicationOrderly == MethodologySpec => PublicationIsOrderly
<1>1. PublicationInv => TwoPersonPublication /\ TwoInForceOverlapped /\ MethodologyTypeOK
  BY DEF PublicationInv
<1>2. PublicationInv /\ [MethodologyNext]_methodologyVars => PublicationInv'
  BY NextKeepsPublicationInv
<1>3. PublicationInv /\ [MethodologyNext]_methodologyVars =>
        [TwoPersonPublication' /\ TwoInForceOverlapped' /\ PublishedIsFixed]_methodologyVars
  <2> SUFFICES ASSUME PublicationInv, MethodologyNext
               PROVE  TwoPersonPublication' /\ TwoInForceOverlapped' /\ PublishedIsFixed
    OBVIOUS
  <2> QED  BY NextKeepsPublicationInv, PublishedStaysFixed DEF PublicationInv
<1> QED
  BY <1>2, <1>3, InitPublicationInv, PTL DEF MethodologySpec, PublicationIsOrderly

-----------------------------------------------------------------------------
(* The parts together.                                                     *)

(* Each part behaves as its module says, whichever of them runs.           *)
LEMMA ReviewedPartsBehave ==
  ReviewedSpec =>
    /\ MethodologySpec /\ PublicationSpec /\ RevisionsSpec
    /\ CatalogueSpec /\ RecalculationSpec /\ LiveSpec
<1>1. ReviewedInit =>
        /\ MethodologyInit /\ PublicationInit /\ RevisionsInit
        /\ CatalogueInit /\ RecalculationInit /\ LiveInit
  BY DEF ReviewedInit
<1>2. [ReviewedNext]_reviewedVars =>
        /\ [MethodologyNext]_methodologyVars /\ [PublicationNext]_publicationVars
        /\ [RevisionsNext]_revisionVars /\ [CatalogueNext]_catalogueVars
        /\ [RecalculationNext]_recalculationVars /\ [LiveNext]_liveVars
  BY DEF ReviewedNext, reviewedVars, adminVars, analysisVars
<1> QED
  BY <1>1, <1>2, PTL
     DEF ReviewedSpec, MethodologySpec, PublicationSpec, RevisionsSpec, CatalogueSpec,
         RecalculationSpec, LiveSpec

-----------------------------------------------------------------------------
(* Three parts have many initial states.  They run from one of theirs when *)
(* it is their turn, and what is said of them then is said only then.      *)
EnginesInv ==
  /\ part \in Parts
  /\ part = "risk" => RiskInv
  /\ part = "yield" => YieldInv
  /\ IF part = "optimizer" THEN OptimizerInv ELSE portfolio = NoResult

LEMMA EnginesStep ==
  [ReviewedNext]_reviewedVars =>
    /\ part' = part
    /\ IF part = "risk" THEN [RiskNext]_riskVars ELSE UNCHANGED riskVars
    /\ IF part = "yield" THEN [YieldNext]_yieldVars ELSE UNCHANGED yieldVars
    /\ IF part = "optimizer" THEN [OptimizerNext]_optimizerVars ELSE UNCHANGED optimizerVars
BY DEF ReviewedNext, reviewedVars, adminVars, analysisVars

LEMMA EnginesInvariant == ReviewedSpec => []EnginesInv
<1>1. ReviewedInit => EnginesInv
  BY RiskStarts, YieldStarts, OptimizerStarts DEF ReviewedInit, MCOptimizerCase, EnginesInv
<1>2. EnginesInv /\ [ReviewedNext]_reviewedVars => EnginesInv'
  <2> SUFFICES ASSUME EnginesInv, [ReviewedNext]_reviewedVars PROVE EnginesInv'
    OBVIOUS
  <2> QED
    BY EnginesStep, RiskStep, YieldStep, OptimizerStep DEF EnginesInv, optimizerVars
<1> QED
  BY <1>1, <1>2, PTL DEF ReviewedSpec

LEMMA YieldTyped == YieldInv => YieldTypeOK
BY DEF YieldInv, MetricsTyped, YieldTypeOK

LEMMA RevisionsTypeFollows == RevisionsInv => RevisionsTypeOK
<1> SUFFICES ASSUME RevisionsInv PROVE RevisionsTypeOK
  OBVIOUS
<1>1. RevisionsTyped /\ AuditIsFaithful
  BY DEF RevisionsInv
<1>2. \A T, s : s \in Seq(T) => Range(s) \subseteq T
  BY DEF Range
<1>3. Range(entityAudit) \subseteq AuditRows /\ Range(qualityAudit) \subseteq Editors
  BY <1>1, <1>2 DEF RevisionsTyped
<1>4. Len(entityAudit) <= MaxRevisions
  BY <1>1, RevisionConstants DEF RevisionsTyped, AuditIsFaithful, RevisionsAreMonotonic
<1> QED
  BY <1>1, <1>3, <1>4 DEF RevisionsTyped, RevisionsTypeOK, EditingRecords

(* What an import has matched or stored is one of its payloads.            *)
ImportsTyped ==
  CatalogueInv /\ citedSource \in {"DRAFT", "REVIEWED", "PUBLISHED"} /\ batches \subseteq Payloads

LEMMA ImportsStayTyped ==
  ASSUME ImportsTyped, [CatalogueNext]_catalogueVars PROVE ImportsTyped'
<1>1. CatalogueInv'
  BY CatalogueInvStep DEF ImportsTyped
<1>2. ASSUME UNCHANGED <<citedSource, batches>> PROVE ImportsTyped'
  BY <1>1, <1>2 DEF ImportsTyped
<1>3. CASE SourceReviewed
  BY <1>1, <1>3 DEF ImportsTyped, SourceReviewed
<1>4. CASE CommitImport \/ CommitMatched
  <2>1. work[Importer].op \in {"IMPORT", "MATCHED"} /\ Importer \in Workers
    BY <1>4 DEF CommitImport, CommitMatched, Workers
  <2>2. work[Importer].payload \in Payloads
    BY <2>1 DEF ImportsTyped, CatalogueInv, WorkSound
  <2> QED
    BY <1>1, <1>4, <2>2 DEF ImportsTyped, CommitImport, CommitMatched
<1>5. CASE CatalogueTick \/ CreateEntry \/ UNCHANGED catalogueVars
  BY <1>2, <1>5 DEF CatalogueTick, CreateEntry, catalogueVars
<1>6. ASSUME NEW w \in CatalogueEditors, NEW v \in EntryVersions, BeginEdit(w, v) PROVE ImportsTyped'
  BY <1>2, <1>6 DEF BeginEdit, Start
<1>7. ASSUME NEW w \in CatalogueEditors, NEW v \in EntryVersions, NEW op \in Reviews, BeginPatch(w, v, op)
      PROVE  ImportsTyped'
  BY <1>2, <1>7 DEF BeginPatch, Start
<1>8. ASSUME NEW w \in CatalogueEditors, CommitEdit(w) \/ CommitReview(w) \/ CommitLifecycle(w)
      PROVE  ImportsTyped'
  BY <1>2, <1>8 DEF CommitEdit, CommitReview, CommitLifecycle
<1>9. ASSUME NEW p \in Payloads, BeginImport(p) PROVE ImportsTyped'
  BY <1>2, <1>9 DEF BeginImport, Start
<1>10. ASSUME NEW w \in Workers, Abandon(w) PROVE ImportsTyped'
  BY <1>2, <1>10 DEF Abandon, Finish
<1> QED
  BY <1>3, <1>4, <1>5, <1>6, <1>7, <1>8, <1>9, <1>10 DEF CatalogueNext

LEMMA CatalogueTypeFollows == ImportsTyped => CatalogueTypeOK
BY DEF ImportsTyped, CatalogueInv, CatalogueTables, CatalogueTypeOK, WorkRecords

LEMMA RecalculationTypeFollows == RecalculationInv => RecalculationTypeOK
<1> SUFFICES ASSUME RecalculationInv PROVE RecalculationTypeOK
  OBVIOUS
<1>1. RecalculationTyped /\ \A j \in RiskJobs : CalculationSound(calculations[j])
  BY DEF RecalculationInv
<1>2. ASSUME NEW j \in RiskJobs
      PROVE  /\ calculations[j].phase \in {"NONE", "FACTORS", "EVIDENCE"}
             /\ calculations[j].todo \subseteq RiskRoutes /\ calculations[j].rows \subseteq snapshots
  <2>1. CASE calculations[j] = NoCalculation
    BY <2>1 DEF NoCalculation
  <2>2. CASE calculations[j] # NoCalculation
    <3> DEFINE c == calculations[j]
    <3>1. CalculationTyped(c) /\ (c.phase = "EVIDENCE" => RowsAreFixed(c))
      BY <1>1, <2>2 DEF CalculationSound
    <3> HIDE DEF c
    <3>2. c.phase \in {"FACTORS", "EVIDENCE"} /\ c.todo \subseteq RiskRoutes
      BY <3>1 DEF CalculationTyped
    <3>3. c.rows \subseteq snapshots
      BY <3>1, <3>2 DEF CalculationTyped, RowsAreFixed, RowsAt
    <3> QED
      BY <3>2, <3>3 DEF c
  <2> QED
    BY <2>1, <2>2
<1> QED
  BY <1>1, <1>2 DEF RecalculationTyped, RecalculationTypeOK, SnapshotRows

(* The type invariants of the other six parts.                             *)
LEMMA PartsTyped ==
  ReviewedSpec => [](/\ MethodologyTypeOK /\ PublicationTypeOK /\ RevisionsTypeOK
                     /\ CatalogueTypeOK /\ RecalculationTypeOK /\ LiveTypeOK)
<1>1. ReplaceInv => PublicationTypeOK
  BY DEF ReplaceInv
<1>2. LiveInv => LiveTypeOK
  BY DEF LiveInv
<1>3. PublicationSpec => []ReplaceInv
  <2>1. ReplaceInv /\ [PublicationNext]_publicationVars => ReplaceInv'
    BY NextReplaceInv
  <2> QED
    BY <2>1, InitReplaceInv, PTL DEF PublicationSpec
<1>4. RevisionsSpec => []RevisionsInv
  BY RevisionsInvInit, RevisionsInvStep, PTL DEF RevisionsSpec
<1>5. CatalogueSpec => []ImportsTyped
  <2>1. CatalogueInit => ImportsTyped
    BY CatalogueInvInit DEF ImportsTyped, CatalogueInit
  <2>2. ImportsTyped /\ [CatalogueNext]_catalogueVars => ImportsTyped'
    BY ImportsStayTyped
  <2> QED
    BY <2>1, <2>2, PTL DEF CatalogueSpec
<1>6. RecalculationSpec => []RecalculationInv
  BY RecalculationInvInit, RecalculationInvStep, PTL DEF RecalculationSpec
<1>7. LiveSpec => []LiveInv
  <2>1. LiveInv /\ [LiveNext]_liveVars => LiveInv'
    BY LiveInvStep
  <2> QED
    BY <2>1, LiveInvInit, PTL DEF LiveSpec
<1> QED
  BY <1>1, <1>2, <1>3, <1>4, <1>5, <1>6, <1>7, ReviewedPartsBehave, MethodologyTyped,
     RevisionsTypeFollows, CatalogueTypeFollows, RecalculationTypeFollows, PTL

(* Whichever part runs, what it keeps has its types: the rows and records  *)
(* of the nine modules, and the results the engines give.                  *)
THEOREM ReviewedTyped == ReviewedSpec => []ReviewedTypeOK
<1>1. /\ EnginesInv /\ MethodologyTypeOK /\ PublicationTypeOK /\ RevisionsTypeOK
      /\ CatalogueTypeOK /\ RecalculationTypeOK /\ LiveTypeOK
      => ReviewedTypeOK
  BY RiskTyped, YieldTyped, OptimizerTyped DEF EnginesInv, Parts, ReviewedTypeOK
<1> QED
  BY <1>1, EnginesInvariant, PartsTyped, PTL

LEMMA EnginesStaySound ==
  ReviewedSpec => [](SolverIsAccurate => PortfolioIsSound) /\ RiskFollowsEvidence /\ YieldsAreMonotone
<1>1. EnginesInv => (SolverIsAccurate => PortfolioIsSound)
  BY DEF EnginesInv, OptimizerInv, Promises, PortfolioIsSound, NoResult, WholeCapitalIsAllocated,
         NoShareIsNegative, LimitsAreKept, ExposuresAreWithinLimits, PreferenceCostsNothing,
         InfeasibleMeansNone, SuggestionsSuffice
<1>2. EnginesInv /\ EnginesInv' /\ [ReviewedNext]_reviewedVars =>
        [/\ WorseEvidenceScoresWorse /\ WeightsStayPut
         /\ PenaltiesAreBounded' /\ VerifiedHasEvidence']_riskVars
  BY EnginesStep, RiskStepSound DEF EnginesInv
<1>3. EnginesInv /\ EnginesInv' /\ [ReviewedNext]_reviewedVars =>
        [HorizonsAdd' /\ FeesAndCostsOnlyLower /\ LongerHorizonsDilute]_yieldVars
  BY EnginesStep, YieldStepSound DEF EnginesInv
<1> QED
  BY <1>1, <1>2, <1>3, EnginesInvariant, PTL DEF ReviewedSpec, RiskFollowsEvidence, YieldsAreMonotone

(* All that the run of ReviewedData checks of the nine parts holds for     *)
(* every value of the constants, of the optimizer with an accurate solver. *)
THEOREM ReviewedStaysSound ==
  ReviewedSpec =>
    /\ [](AuditIsFaithful /\ CatalogueIsCoherent /\ ResultsAreReproducible)
    /\ [](SolverIsAccurate => PortfolioIsSound)
    /\ PublicationIsOrderly /\ PublicationsReplace /\ LiveEvidenceIsSound
    /\ RiskFollowsEvidence /\ YieldsAreMonotone
BY ReviewedPartsBehave, AuditStaysFaithful, CatalogueStaysCoherent, ResultsStayReproducible,
   PublicationOrderly, PublicationsReplaceEachOther, LiveEvidenceStaysSound, EnginesStaySound, PTL
=============================================================================
