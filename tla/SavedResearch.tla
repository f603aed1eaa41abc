----------------------------- MODULE SavedResearch -----------------------------
(***************************************************************************)
(* A saved comparison, an ordered list of routes that a user keeps         *)
(* (apps/web/src/app/api/v1/saved-comparisons,                             *)
(* lib/saved-research-contract.ts, with the constraints of the tables in   *)
(* packages/database/src/schema/user-data.ts).                             *)
(*                                                                         *)
(* A user's tabs change the same comparison at once.  Routes are resolved  *)
(* before the transaction; in it PostgreSQL runs one statement at a time,  *)
(* each on the rows that are committed when it starts: an update locks the *)
(* row it changes, a delete waits for rows that another transaction has    *)
(* deleted, and unique constraints decide between concurrent inserts.      *)
(***************************************************************************)
EXTENDS Integers, Sequences, FiniteSets, SequencesExt

CONSTANTS
  Tabs,             \* requests of one user that are open at the same time
  Savable,          \* route slugs
  Lists,            \* the lists of routes that requests ask for
  MaxSaveRequests   \* bound on the requests

ASSUME SavedResearchConstants ==
  /\ IsFiniteSet(Savable) /\ MaxSaveRequests \in Nat
  /\ \A l \in Lists : l \in Seq(Savable) /\ Len(l) \in 2 .. 5 /\ IsInjective(l)

VARIABLES
  savable,      \* the routes that are published and active
  comparison,   \* state of the comparison, ABSENT before it is created
  items,        \* its committed items, each with the request that wrote it
  asked,        \* the list of each request so far
  tabs          \* the transaction of each tab

savedVars == <<savable, comparison, items, asked, tabs>>

SaveRequests == 1 .. MaxSaveRequests
Items        == [position : 1 .. 5, route : Savable, by : SaveRequests]
NoTab        == [step |-> "NONE", request |-> 0, locks |-> FALSE, deleting |-> {}]

SavedTypeOK ==
  /\ savable \subseteq Savable /\ comparison \in {"ABSENT", "SAVED", "ARCHIVED"}
  /\ items \subseteq Items /\ Len(asked) <= MaxSaveRequests
  /\ \A t \in Tabs :
       /\ tabs[t].step \in {"NONE", "CREATE", "RESOLVED", "OWNED", "UPDATED", "DELETING", "DELETED"}
       /\ tabs[t].request \in 0 .. Len(asked) /\ tabs[t].deleting \subseteq Items

SavedInit ==
  /\ savable = Savable /\ comparison = "ABSENT" /\ items = {} /\ asked = <<>>
  /\ tabs = [t \in Tabs |-> NoTab]

-----------------------------------------------------------------------------
Withdraw(r) ==
  /\ savable' = savable \ {r} /\ savable' # savable
  /\ UNCHANGED <<comparison, items, asked, tabs>>

(* resolveCurrentRoutes: all of the list are public, or the answer is 404. *)
Resolve(t, list) ==
  /\ tabs[t].step = "NONE" /\ Len(asked) < MaxSaveRequests
  /\ ToSet(list) \subseteq savable
  /\ asked' = Append(asked, list)
  /\ tabs' = [tabs EXCEPT ![t] =
       [NoTab EXCEPT !.step = IF comparison = "ABSENT" THEN "CREATE" ELSE "RESOLVED",
                     !.request = Len(asked')]]
  /\ UNCHANGED <<savable, comparison, items>>

ItemsOf(request) ==
  {[position |-> i, route |-> asked[request][i], by |-> request] : i \in 1 .. Len(asked[request])}

Done(t) == tabs' = [tabs EXCEPT ![t] = NoTab]

SaveStep(t, fields) == tabs' = [tabs EXCEPT ![t] = fields]

(* POST; the name of the comparison is unique for its user.                *)
CreateComparison(t) ==
  /\ tabs[t].step = "CREATE" /\ comparison = "ABSENT"
  /\ comparison' = "SAVED" /\ items' = ItemsOf(tabs[t].request) /\ Done(t)
  /\ UNCHANGED <<savable, asked>>

(* PATCH: the comparison is found, ...                                     *)
FindOwned(t) ==
  /\ tabs[t].step = "RESOLVED" /\ comparison = "SAVED"
  /\ SaveStep(t, [tabs[t] EXCEPT !.step = "OWNED"])
  /\ UNCHANGED <<savable, comparison, items, asked>>

ComparisonLocked == \E t \in Tabs : tabs[t].locks

(* ... its row updated, and locked unless it was archived meanwhile, ...   *)
UpdateComparison(t) ==
  /\ tabs[t].step = "OWNED"
  /\ comparison = "SAVED" => ~ComparisonLocked
  /\ SaveStep(t, [tabs[t] EXCEPT !.step = "UPDATED", !.locks = comparison = "SAVED"])
  /\ UNCHANGED <<savable, comparison, items, asked>>

(* ... its items deleted, which are those there are when the delete begins *)
BeginDelete(t) ==
  /\ tabs[t].step = "UPDATED"
  /\ SaveStep(t, [tabs[t] EXCEPT !.step = "DELETING", !.deleting = items])
  /\ UNCHANGED <<savable, comparison, items, asked>>

(* (it waits for those that another transaction has deleted), ...          *)
EndDelete(t) ==
  /\ tabs[t].step = "DELETING"
  /\ \A u \in Tabs \ {t} : tabs[u].step = "DELETED" => tabs[u].deleting \cap tabs[t].deleting = {}
  /\ SaveStep(t, [tabs[t] EXCEPT !.step = "DELETED", !.deleting = @ \cap items])
  /\ UNCHANGED <<savable, comparison, items, asked>>

(* A bug: an item need not have a position of its own.                     *)
UniqueRoutesOnly(rows) == \A a, b \in rows : a.route = b.route => a = b

(* saved_comparison_items: unique positions and routes.                    *)
UniqueItems(rows) ==
  \A a, b \in rows : a.position = b.position \/ a.route = b.route => a = b

(* ... and the new ones inserted: all of it is committed, or nothing.      *)
CommitItems(t) ==
  LET rows == (items \ tabs[t].deleting) \cup ItemsOf(tabs[t].request) IN
  /\ tabs[t].step = "DELETED" /\ UniqueItems(rows)
  /\ items' = rows /\ Done(t)
  /\ UNCHANGED <<savable, comparison, asked>>

(* 404 or 409: a request ends anywhere without having changed anything.    *)
AbortSave(t) ==
  /\ tabs[t].step # "NONE" /\ Done(t)
  /\ UNCHANGED <<savable, comparison, items, asked>>

(* DELETE archives, and waits for the row.                                 *)
ArchiveComparison ==
  /\ comparison = "SAVED" /\ ~ComparisonLocked /\ comparison' = "ARCHIVED"
  /\ UNCHANGED <<savable, items, asked, tabs>>

-----------------------------------------------------------------------------
SavedNext ==
  \/ \E r \in Savable : Withdraw(r)
  \/ \E t \in Tabs, list \in Lists : Resolve(t, list)
  \/ \E t \in Tabs :
       \/ CreateComparison(t) \/ FindOwned(t) \/ UpdateComparison(t) \/ BeginDelete(t)
       \/ EndDelete(t) \/ CommitItems(t) \/ AbortSave(t)
  \/ ArchiveComparison

SavedSpec == SavedInit /\ [][SavedNext]_savedVars

-----------------------------------------------------------------------------
(* Properties.                                                             *)

(* The items of a comparison are always the whole list of one request, in  *)
(* the order that it asked for, however many tabs replace and archive it   *)
(* at once (TEST_PLAN.md:215).                                             *)
ComparisonsAreOneRequest ==
  items # {} => \E n \in 1 .. Len(asked) : items = ItemsOf(n)
=============================================================================
