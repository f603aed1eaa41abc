--------------------------- MODULE SourcePublication ---------------------------
(***************************************************************************)
(* The versions of a source, of an eligibility rule or of redemption terms *)
(* as administrators create, review, reject, publish and archive them:     *)
(* SOURCE_* and ACCESS_TERMS_* of apps/web/src/lib/admin-service.ts with   *)
(* the constraints and triggers of the tables.  The three tables follow    *)
(* one protocol, with differences that `table' decides.                    *)
(*                                                                         *)
(* A transaction reads and checks (Begin...), may supersede the published  *)
(* versions in a statement of its own (SupersedeOthers), and updates its   *)
(* record by id as it commits; others commit in between.  A row that a     *)
(* transaction has updated is locked until it ends.  The audit row that    *)
(* each transaction writes is left out.                                    *)
(***************************************************************************)
EXTENDS Integers, FiniteSets

CONSTANTS
  Curators,      \* administrators
  MaxVersion     \* bound on the versions of the record

ASSUME PublicationConstants == IsFiniteSet(Curators) /\ MaxVersion \in Nat \ {0}

VARIABLES
  table,          \* which table the record belongs to
  termsEvidence,  \* a source of the terms is reviewed or published
  records,        \* status of each version of the record
  ended,          \* versions of terms whose effectiveTo is set
  transactions    \* the open transaction of each administrator

publicationVars == <<table, termsEvidence, records, ended, transactions>>

RecordVersions == 1 .. MaxVersion
RecordStatuses ==
  {"NONE", "DRAFT", "REVIEWED", "PUBLISHED", "SUPERSEDED", "REJECTED", "ARCHIVED"}
Transitions == {"REVIEW", "PUBLISH", "REJECT", "ARCHIVE"}

Transactions ==
  [op : {"NONE", "VERSION"} \cup Transitions, version : RecordVersions,
   superseded : SUBSET RecordVersions, ready : BOOLEAN, saw : SUBSET RecordVersions]

PublicationTypeOK ==
  /\ table \in {"SOURCE", "TERMS"} /\ termsEvidence \in BOOLEAN
  /\ records \in [RecordVersions -> RecordStatuses]
  /\ ended \subseteq RecordVersions
  /\ transactions \in [Curators -> Transactions]

NoTransaction ==
  [op |-> "NONE", version |-> 1, superseded |-> {}, ready |-> FALSE, saw |-> {}]

PublicationInit ==
  /\ table \in {"SOURCE", "TERMS"} /\ termsEvidence = FALSE
  /\ records = [v \in RecordVersions |-> "NONE"] /\ ended = {}
  /\ transactions = [a \in Curators |-> NoTransaction]

-----------------------------------------------------------------------------
(* What a transaction sees, and what the database accepts.                 *)

Existing == {v \in RecordVersions : records[v] # "NONE"}

IsLatest(v) == v \in Existing /\ \A w \in Existing : w <= v

(* The versions that a publication of v supersedes.                        *)
PublishedOthers(v) ==
  {w \in RecordVersions \ {v} : records[w] = "PUBLISHED" /\ w \notin ended}

Locked(a, v) == \E b \in Curators \ {a} : v \in transactions[b].superseded

(* A bug: published rows are not protected.                                *)
KeepsPublishedNot(status, op) == TRUE

(* protect_published_record: a published row is superseded or archived,    *)
(* but neither reviewed nor rejected nor published anew.                   *)
KeepsPublished(status, op) == status = "PUBLISHED" => op = "ARCHIVE"

-----------------------------------------------------------------------------
(* Other administrators review, publish, archive the source of the terms.  *)
EvidenceChanges ==
  /\ table = "TERMS" /\ termsEvidence' = ~termsEvidence
  /\ UNCHANGED <<table, records, ended, transactions>>

BeginTransaction(a, tx) ==
  /\ transactions[a].op = "NONE"
  /\ transactions' = [transactions EXCEPT ![a] = tx]
  /\ UNCHANGED <<table, termsEvidence, records, ended>>

(* SOURCE_CREATE, SOURCE_VERSION and ACCESS_TERMS_VERSION: a new draft     *)
(* comes after the latest version it reads.                                *)
BeginVersion(a) ==
  /\ table = "TERMS" => termsEvidence
  /\ \E v \in RecordVersions :
       /\ \/ v = 1 /\ Existing = {}
          \/ v > 1 /\ IsLatest(v - 1)
       /\ BeginTransaction(a, [NoTransaction EXCEPT !.op = "VERSION", !.version = v])

(* The insert.  Versions of a record are unique.                           *)
CommitVersion(a) ==
  LET tx == transactions[a] IN
  /\ tx.op = "VERSION" /\ records[tx.version] = "NONE"
  /\ records' = [records EXCEPT ![tx.version] = "DRAFT"]
  /\ transactions' = [transactions EXCEPT ![a] = NoTransaction]
  /\ UNCHANGED <<table, termsEvidence, ended>>

-----------------------------------------------------------------------------
(* SOURCE_TRANSITION and ACCESS_TERMS_TRANSITION.                          *)

Allowed(op, status) ==
  CASE op = "REVIEW"  -> status = "DRAFT"
    [] op = "PUBLISH" -> status = "REVIEWED"
    [] op = "REJECT"  -> status \in {"DRAFT", "REVIEWED"}
    [] op = "ARCHIVE" -> status \notin {"NONE", "ARCHIVED"}

Busy(v) == \E b \in Curators : transactions[b].op \in Transitions /\ transactions[b].version = v

(* Of a source only the current version changes its state, of terms any.   *)
(* `saw' is history: the published versions that nobody else is changing.  *)
BeginTransition(a, v, op) ==
  /\ Allowed(op, records[v])
  /\ table = "SOURCE" => IsLatest(v)
  /\ BeginTransaction(a, [NoTransaction EXCEPT
       !.op = op, !.version = v, !.ready = op # "PUBLISH",
       !.saw = IF op = "PUBLISH" THEN {w \in PublishedOthers(v) : ~Busy(w)} ELSE {}])

(* A bug: only the version before is superseded.                           *)
SupersedeLast(a) ==
  LET v == transactions[a].version IN
  /\ transactions[a].op = "PUBLISH" /\ ~transactions[a].ready
  /\ \A w \in PublishedOthers(v) : ~Locked(a, w)
  /\ transactions' = [transactions EXCEPT ![a].ready = TRUE,
                                          ![a].superseded = PublishedOthers(v) \cap {v - 1}]
  /\ UNCHANGED <<table, termsEvidence, records, ended>>

(* The published versions it finds now; it waits for a locked one.         *)
SupersedeOthers(a) ==
  LET v == transactions[a].version IN
  /\ transactions[a].op = "PUBLISH" /\ ~transactions[a].ready
  /\ \A w \in PublishedOthers(v) : ~Locked(a, w)
  /\ transactions' = [transactions EXCEPT ![a].ready = TRUE, ![a].superseded = PublishedOthers(v)]
  /\ UNCHANGED <<table, termsEvidence, records, ended>>

StatusAfter(op) ==
  CASE op = "REVIEW"  -> "REVIEWED"
    [] op = "PUBLISH" -> "PUBLISHED"
    [] op = "REJECT"  -> "REJECTED"
    [] op = "ARCHIVE" -> "ARCHIVED"

(* The update by id, whatever the status is by now.                        *)
CommitTransition(a) ==
  LET tx == transactions[a] IN
  /\ tx.op \in Transitions /\ tx.ready
  /\ ~Locked(a, tx.version) /\ KeepsPublished(records[tx.version], tx.op)
  /\ records' = [w \in RecordVersions |->
       IF w = tx.version THEN StatusAfter(tx.op)
       ELSE IF w \in tx.superseded THEN "SUPERSEDED"
       ELSE records[w]]
  /\ ended' = IF table = "SOURCE" THEN ended
              ELSE ended \cup tx.superseded \cup (IF tx.op = "ARCHIVE" THEN {tx.version} ELSE {})
  /\ transactions' = [transactions EXCEPT ![a] = NoTransaction]
  /\ UNCHANGED <<table, termsEvidence>>

(* The transaction fails: on a constraint, a trigger, a deadlock or the    *)
(* connection.  Nothing of it remains.                                     *)
AbortTransaction(a) ==
  /\ transactions[a].op # "NONE"
  /\ transactions' = [transactions EXCEPT ![a] = NoTransaction]
  /\ UNCHANGED <<table, termsEvidence, records, ended>>

PublicationNext ==
  \/ EvidenceChanges
  \/ \E a \in Curators : BeginVersion(a)
  \/ \E a \in Curators : CommitVersion(a)
  \/ \E a \in Curators, v \in RecordVersions, op \in Transitions : BeginTransition(a, v, op)
  \/ \E a \in Curators : SupersedeOthers(a)
  \/ \E a \in Curators : CommitTransition(a)
  \/ \E a \in Curators : AbortTransaction(a)

PublicationSpec == PublicationInit /\ [][PublicationNext]_publicationVars

-----------------------------------------------------------------------------
(* Properties.                                                             *)

(* A version that was published when the publication of another one began, *)
(* with no change to it under way, is not published any more once that     *)
(* publication has committed, whatever others do meanwhile                 *)
(* (ARCHITECTURE.md:213).  Only publications that overlap may both stand.  *)
LaterPublicationSupersedes ==
  \A a \in Curators :
    LET tx == transactions[a] IN
    tx.op = "PUBLISH" /\ records[tx.version] # "PUBLISHED" /\ records'[tx.version] = "PUBLISHED"
      /\ transactions'[a].op = "NONE"
    => \A w \in tx.saw : records'[w] # "PUBLISHED"

(* A published version stays so until it is archived or another version    *)
(* is published in the same step: no review, rejection or new draft takes  *)
(* it away (ARCHITECTURE.md:213).                                          *)
PublishedUntilReplaced ==
  \A v \in RecordVersions : records[v] = "PUBLISHED" /\ records'[v] # "PUBLISHED" =>
    \/ records'[v] = "ARCHIVED"
    \/ \E w \in RecordVersions : records[w] # "PUBLISHED" /\ records'[w] = "PUBLISHED"

(* What is public of a source, its terms or its license is replaced as a   *)
(* whole: neither are two versions left, nor none.                         *)
PublicationsReplace == [][LaterPublicationSupersedes /\ PublishedUntilReplaced]_publicationVars
=============================================================================
