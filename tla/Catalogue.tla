------------------------------- MODULE Catalogue -------------------------------
(***************************************************************************)
(* The versions of one catalogue entry, a product and its route, as        *)
(* administrators create, edit and review them (apps/web/src/app/api/      *)
(* internal/admin/catalog) and as the production catalogue is imported     *)
(* over them (packages/database/src/production-catalog-import.ts), with    *)
(* the constraints and triggers of the two tables.                         *)
(*                                                                         *)
(* A transaction reads and checks first and writes when it commits, the    *)
(* product and the route in one; administrators and the one import that    *)
(* the advisory lock admits commit in between.  Time is a bounded clock.   *)
(***************************************************************************)
EXTENDS Integers, FiniteSets

CONSTANTS
  CatalogueEditors,   \* administrators
  Importer,           \* the import that holds the lock
  Payloads,           \* what may be imported: content, when verified, gated or not
  MaxEntryVersion,    \* bound on the versions
  CatalogueHorizon    \* bound on the clock

ASSUME CatalogueConstants ==
  /\ IsFiniteSet(CatalogueEditors) /\ Importer \notin CatalogueEditors
  /\ Payloads \subseteq [content : Nat, verifiedAt : 0 .. CatalogueHorizon, gated : BOOLEAN]
  /\ MaxEntryVersion \in Nat \ {0} /\ CatalogueHorizon \in Nat

VARIABLES
  catalogueNow,
  citedSource,   \* publication status of the source that administrators cite
  products,      \* each version of the product
  routes,        \* each version of the route
  batches,       \* payloads in catalog_import_batches
  work           \* the open transaction of each administrator and the import

catalogueVars == <<catalogueNow, citedSource, products, routes, batches, work>>

EntryVersions == 1 .. MaxEntryVersion
EntryTimes    == 0 .. CatalogueHorizon
Workers       == CatalogueEditors \cup {Importer}
Edited        == -1   \* the content an administrator enters
NotEnded      == -1   \* effectiveTo is null
EntryStatuses == {"NONE", "DRAFT", "REVIEWED", "PUBLISHED", "SUPERSEDED", "REJECTED", "ARCHIVED"}

Rows ==
  [status : EntryStatuses, from : EntryTimes, to : EntryTimes \cup {NotEnded},
   content : {Edited} \cup {p.content : p \in Payloads}, active : BOOLEAN, archived : BOOLEAN]

NoRow ==
  [status |-> "NONE", from |-> 0, to |-> NotEnded, content |-> Edited, active |-> TRUE,
   archived |-> FALSE]

Reviews == {"VERIFY", "PUBLISH", "REJECT", "SET_LIFECYCLE", "ARCHIVE"}

NoWork == [op |-> "NONE", version |-> 1, at |-> 0, payload |-> CHOOSE p \in Payloads : TRUE]

CatalogueTypeOK ==
  /\ catalogueNow \in EntryTimes /\ citedSource \in {"DRAFT", "REVIEWED", "PUBLISHED"}
  /\ products \in [EntryVersions -> Rows] /\ routes \in [EntryVersions -> Rows]
  /\ batches \subseteq Payloads
  /\ work \in [Workers -> [op : {"NONE", "EDIT", "IMPORT", "MATCHED"} \cup Reviews,
                           version : 1 .. MaxEntryVersion + 1, at : EntryTimes,
                           payload : Payloads \cup {NoWork.payload}]]

CatalogueInit ==
  /\ catalogueNow = 0 /\ citedSource = "DRAFT"
  /\ products = [v \in EntryVersions |-> NoRow] /\ routes = [v \in EntryVersions |-> NoRow]
  /\ batches = {} /\ work = [w \in Workers |-> NoWork]

-----------------------------------------------------------------------------
(* The tables.                                                             *)

Stored == {v \in EntryVersions : routes[v].status # "NONE"}

(* The version that has not ended, of which there is one at most.          *)
Current == {v \in Stored : routes[v].to = NotEnded}

(* What the database accepts: protect_published_record, the interval of a  *)
(* row, and one row that has not ended for each slug.                      *)
RowsAccepted(old, new) ==
  /\ \A v \in EntryVersions :
       /\ old[v].status = "PUBLISHED" => new[v].status \in {"PUBLISHED", "SUPERSEDED", "ARCHIVED"}
       /\ new[v].to = NotEnded \/ new[v].to > new[v].from
  /\ Cardinality({v \in EntryVersions : new[v].status # "NONE" /\ new[v].to = NotEnded}) <= 1

(* Both tables are written, or neither.                                    *)
Store(newProducts, newRoutes) ==
  /\ RowsAccepted(products, newProducts) /\ RowsAccepted(routes, newRoutes)
  /\ products' = newProducts /\ routes' = newRoutes

SupersededRow(row, at) == [row EXCEPT !.status = "SUPERSEDED", !.to = at]

-----------------------------------------------------------------------------
CatalogueTick ==
  /\ catalogueNow < CatalogueHorizon /\ catalogueNow' = catalogueNow + 1
  /\ UNCHANGED <<citedSource, products, routes, batches, work>>

SourceReviewed ==
  /\ citedSource # "PUBLISHED"
  /\ citedSource' = IF citedSource = "DRAFT" THEN "REVIEWED" ELSE "PUBLISHED"
  /\ UNCHANGED <<catalogueNow, products, routes, batches, work>>

Start(w, op, v, payload) ==
  /\ work[w].op = "NONE"
  /\ work' = [work EXCEPT ![w] = [op |-> op, version |-> v, at |-> catalogueNow, payload |-> payload]]
  /\ UNCHANGED <<catalogueNow, citedSource, products, routes, batches>>

Finish(w) == work' = [work EXCEPT ![w] = NoWork]

Abandon(w) ==
  /\ work[w].op # "NONE" /\ Finish(w)
  /\ UNCHANGED <<catalogueNow, citedSource, products, routes, batches>>

(* POST: a draft of an entry that does not exist yet.                      *)
CreateEntry ==
  LET row == [NoRow EXCEPT !.status = "DRAFT", !.from = catalogueNow] IN
  /\ Stored = {}
  /\ Store([products EXCEPT ![1] = row], [routes EXCEPT ![1] = row])
  /\ UNCHANGED <<catalogueNow, citedSource, batches, work>>

-----------------------------------------------------------------------------
(* PUT: an edit ends the current version and stores the next as a draft.   *)
BeginEdit(w, v) ==
  /\ v \in Current /\ citedSource \in {"REVIEWED", "PUBLISHED"}
  /\ catalogueNow > products[v].from /\ catalogueNow > routes[v].from
  /\ Start(w, "EDIT", v, NoWork.payload)

(* Versions are unique.                                                    *)
CommitEdit(w) ==
  LET v   == work[w].version
      n   == v + 1
      row == [NoRow EXCEPT !.status = "DRAFT", !.from = work[w].at]
  IN
  /\ work[w].op = "EDIT" /\ n \in EntryVersions \ Stored
  /\ Store([products EXCEPT ![v] = SupersededRow(@, work[w].at), ![n] = row],
           [routes EXCEPT ![v] = SupersededRow(@, work[w].at), ![n] = row])
  /\ Finish(w) /\ UNCHANGED <<catalogueNow, citedSource, batches>>

-----------------------------------------------------------------------------
(* PATCH: a review of the current version.                                 *)

Reviewable(op, status) ==
  CASE op = "VERIFY"  -> status \in {"DRAFT", "REVIEWED"} /\ citedSource \in {"REVIEWED", "PUBLISHED"}
    [] op = "PUBLISH" -> status = "REVIEWED" /\ citedSource = "PUBLISHED"
    [] op = "REJECT"  -> status \in {"DRAFT", "REVIEWED"} /\ citedSource \in {"REVIEWED", "PUBLISHED"}
    [] OTHER          -> citedSource \in {"REVIEWED", "PUBLISHED"}

BeginPatch(w, v, op) ==
  /\ v \in Current /\ Reviewable(op, routes[v].status)
  /\ Start(w, op, v, NoWork.payload)

ReviewedRow(row, op, at) ==
  CASE op = "VERIFY"  -> [row EXCEPT !.status = "REVIEWED"]
    [] op = "PUBLISH" -> [row EXCEPT !.status = "PUBLISHED"]
    [] op = "REJECT"  -> [row EXCEPT !.status = "REJECTED"]
    [] op = "ARCHIVE" -> [row EXCEPT !.status = "ARCHIVED", !.to = at, !.active = FALSE,
                                   !.archived = TRUE]

(* A bug: a rejection forgets the product.                                 *)
CommitReviewOfRoute(w) ==
  LET v  == work[w].version
      op == work[w].op
  IN
  /\ op \in Reviews \ {"SET_LIFECYCLE"}
  /\ routes[v].status = "PUBLISHED" => op = "ARCHIVE"
  /\ Store(IF op = "REJECT" THEN products ELSE [products EXCEPT ![v] = ReviewedRow(@, op, work[w].at)],
           [routes EXCEPT ![v] = ReviewedRow(@, op, work[w].at)])
  /\ Finish(w) /\ UNCHANGED <<catalogueNow, citedSource, batches>>

(* By id, whatever the status is by now; but what is published when it was *)
(* published stays.                                                        *)
CommitReview(w) ==
  LET v  == work[w].version
      op == work[w].op
  IN
  /\ op \in Reviews \ {"SET_LIFECYCLE"}
  /\ routes[v].status = "PUBLISHED" => op = "ARCHIVE"
  /\ Store([products EXCEPT ![v] = ReviewedRow(@, op, work[w].at)],
           [routes EXCEPT ![v] = ReviewedRow(@, op, work[w].at)])
  /\ Finish(w) /\ UNCHANGED <<catalogueNow, citedSource, batches>>

(* SET_LIFECYCLE changes the route alone.                                  *)
CommitLifecycle(w) ==
  /\ work[w].op = "SET_LIFECYCLE"
  /\ \E active \in BOOLEAN :
       Store(products, [routes EXCEPT ![work[w].version].active = active])
  /\ Finish(w) /\ UNCHANGED <<catalogueNow, citedSource, batches>>

-----------------------------------------------------------------------------
(* importProductionCatalog of a catalogue with this one entry.             *)

ImportedRow(p) ==
  [status |-> IF p.gated THEN "DRAFT" ELSE "PUBLISHED", from |-> p.verifiedAt, to |-> NotEnded,
   content |-> p.content, active |-> TRUE, archived |-> FALSE]

Matches(p, v) == products[v] = ImportedRow(p) /\ routes[v] = ImportedRow(p)

(* A bug: the latest version may be the more recent one.                   *)
MonotonicNot(p, v) == TRUE

(* No record is replaced by one that was verified earlier.                 *)
Monotonic(p, v) == p.verifiedAt > products[v].from /\ p.verifiedAt > routes[v].from

(* The same payload was imported before: an entry that administrators have *)
(* changed since has drifted, and the import fails.                        *)
MustMatch(p) == p \in batches

BeginImport(p) ==
  LET v == Cardinality(Stored) IN
  /\ p.verifiedAt <= catalogueNow
  /\ \/ v > 0 /\ Matches(p, v) /\ Start(Importer, "MATCHED", v, p)
     \/ v > 0 /\ ~Matches(p, v) /\ ~MustMatch(p) /\ Monotonic(p, v)
        /\ Start(Importer, "IMPORT", v + 1, p)
     \/ v = 0 /\ ~MustMatch(p) /\ Start(Importer, "IMPORT", 1, p)

(* The version before ends, if it has not, when the payload was verified.  *)
EndedBefore(rows, n, at) ==
  [v \in EntryVersions |->
     IF v = n - 1 /\ rows[v].to = NotEnded THEN SupersededRow(rows[v], at) ELSE rows[v]]

CommitImport ==
  LET p == work[Importer].payload
      n == work[Importer].version
  IN
  /\ work[Importer].op = "IMPORT" /\ n \in EntryVersions \ Stored
  /\ Store([EndedBefore(products, n, p.verifiedAt) EXCEPT ![n] = ImportedRow(p)],
           [EndedBefore(routes, n, p.verifiedAt) EXCEPT ![n] = ImportedRow(p)])
  /\ batches' = batches \cup {p}
  /\ Finish(Importer) /\ UNCHANGED <<catalogueNow, citedSource>>

CommitMatched ==
  /\ work[Importer].op = "MATCHED"
  /\ batches' = batches \cup {work[Importer].payload}
  /\ Finish(Importer) /\ UNCHANGED <<catalogueNow, citedSource, products, routes>>

-----------------------------------------------------------------------------
CatalogueNext ==
  \/ CatalogueTick
  \/ SourceReviewed
  \/ CreateEntry
  \/ \E w \in CatalogueEditors, v \in EntryVersions : BeginEdit(w, v)
  \/ \E w \in CatalogueEditors, v \in EntryVersions, op \in Reviews : BeginPatch(w, v, op)
  \/ \E w \in CatalogueEditors : CommitEdit(w) \/ CommitReview(w) \/ CommitLifecycle(w)
  \/ \E p \in Payloads : BeginImport(p)
  \/ CommitImport
  \/ CommitMatched
  \/ \E w \in Workers : Abandon(w)

CatalogueSpec == CatalogueInit /\ [][CatalogueNext]_catalogueVars

-----------------------------------------------------------------------------
(* Properties.                                                             *)

(* What is public under the slug of the entry: getPublishedRouteBySlug.    *)
Visible ==
  {v \in Stored : /\ routes[v].status = "PUBLISHED" /\ routes[v].active /\ routes[v].to = NotEnded
                  /\ products[v].status = "PUBLISHED" /\ products[v].to = NotEnded}

(* A route and its product are reviewed, published, replaced and archived  *)
(* together, and what is public is the latest version, whatever edits,     *)
(* reviews and imports overlap (REQUIREMENTS.md:581).                      *)
PairsAgree ==
  /\ \A v \in EntryVersions :
       routes[v].status = products[v].status /\ routes[v].to = products[v].to
       /\ routes[v].content = products[v].content
  /\ \A v \in Visible : \A u \in Stored : u <= v

(* Each version takes effect after the one before it, which ends when its  *)
(* successor takes effect unless it was archived: no version is replaced   *)
(* by an older one, and the intervals of versions that were not archived   *)
(* do not overlap (REQUIREMENTS.md:581).                                   *)
HistoryIsOrdered ==
  \A v \in Stored : v + 1 \in Stored =>
    /\ routes[v].from < routes[v + 1].from
    /\ routes[v].to # NotEnded
    /\ routes[v].archived \/ routes[v].to = routes[v + 1].from

(* The catalogue has one present and one past.                             *)
CatalogueIsCoherent == PairsAgree /\ HistoryIsOrdered
=============================================================================
