------------------------------- MODULE Watchlist -------------------------------
(***************************************************************************)
(* The watchlist of a user (apps/web/src/app/api/v1/watchlist, with the    *)
(* constraints of watchlists and watchlist_items in                        *)
(* packages/database/src/schema/user-data.ts), which tabs change at once.  *)
(* A route is watched by its version: a slug that was edited and published *)
(* again is another row.                                                   *)
(***************************************************************************)
EXTENDS Integers, FiniteSets

CONSTANTS
  Watchers,          \* requests of one user that are open at the same time
  MaxRouteVersion    \* bound on the versions of the route

ASSUME WatchlistConstants == IsFiniteSet(Watchers) /\ MaxRouteVersion \in Nat \ {0}

VARIABLES
  routeVersion,  \* the version of the route that is published
  watchlist,     \* the versions on the primary list, once that exists
  watchers       \* the request of each tab

watchVars == <<routeVersion, watchlist, watchers>>

RouteVersions == 1 .. MaxRouteVersion
NoWatch       == [step |-> "NONE", version |-> 1]

WatchlistTypeOK ==
  /\ routeVersion \in RouteVersions
  /\ watchlist.exists \in BOOLEAN /\ watchlist.watched \subseteq RouteVersions
  /\ watchers \in [Watchers -> [step : {"NONE", "RESOLVED", "LISTING", "LISTED", "WATCHED", "FAILED",
                                        "REMOVING"},
                                version : RouteVersions]]

WatchlistInit ==
  /\ routeVersion = 1 /\ watchlist = [exists |-> FALSE, watched |-> {}]
  /\ watchers = [t \in Watchers |-> NoWatch]

-----------------------------------------------------------------------------
PublishNextVersion ==
  /\ routeVersion < MaxRouteVersion /\ routeVersion' = routeVersion + 1
  /\ UNCHANGED <<watchlist, watchers>>

WatchStep(t, step) ==
  /\ watchers' = [watchers EXCEPT ![t].step = step] /\ UNCHANGED routeVersion

(* A bug: the latest version of the route, published or not.               *)
RequestWatchLatest(t) ==
  /\ watchers[t].step = "NONE"
  /\ watchers' = [watchers EXCEPT ![t] = [step |-> "RESOLVED", version |-> routeVersion + 1]]
  /\ UNCHANGED <<routeVersion, watchlist>>

(* POST: the published route is resolved before the transaction.           *)
RequestWatch(t) ==
  /\ watchers[t].step = "NONE"
  /\ watchers' = [watchers EXCEPT ![t] = [step |-> "RESOLVED", version |-> routeVersion]]
  /\ UNCHANGED <<routeVersion, watchlist>>

(* A bug: the list is looked for, and inserted where none is found.        *)
CreateListAtOnce(t) ==
  /\ watchers[t].step = "RESOLVED" /\ UNCHANGED watchlist
  /\ WatchStep(t, IF watchlist.exists THEN "LISTED" ELSE "LISTING")

(* An insert that does nothing on a conflict, and waits for an insert of   *)
(* the same list that is not committed yet.                                *)
CreateList(t) ==
  /\ watchers[t].step = "RESOLVED" /\ UNCHANGED watchlist
  /\ watchlist.exists \/ \A u \in Watchers : watchers[u].step # "LISTING"
  /\ WatchStep(t, IF watchlist.exists THEN "LISTED" ELSE "LISTING")

(* The list is found, the route added if it is not there, and all of it    *)
(* committed; a list of the same name is refused.                          *)
CommitWatch(t) ==
  /\ watchers[t].step \in {"LISTED", "LISTING"}
  /\ IF watchers[t].step = "LISTING" /\ watchlist.exists
       THEN UNCHANGED watchlist /\ WatchStep(t, "FAILED")
       ELSE /\ watchlist' = [exists |-> TRUE, watched |-> watchlist.watched \cup {watchers[t].version}]
            /\ WatchStep(t, "WATCHED")

(* The transaction ends, for another reason, with nothing changed.         *)
AbortWatch(t) ==
  /\ watchers[t].step \in {"RESOLVED", "LISTED", "LISTING"}
  /\ WatchStep(t, "NONE") /\ UNCHANGED watchlist

(* DELETE: some version of the slug that is watched, by the id of its item.*)
FindWatched(t) ==
  /\ watchers[t].step = "NONE"
  /\ \E v \in watchlist.watched :
       watchers' = [watchers EXCEPT ![t] = [step |-> "REMOVING", version |-> v]]
  /\ UNCHANGED <<routeVersion, watchlist>>

Unwatch(t) ==
  /\ watchers[t].step = "REMOVING"
  /\ watchlist' = [watchlist EXCEPT !.watched = @ \ {watchers[t].version}]
  /\ WatchStep(t, "NONE")

WatchAnswered(t) ==
  watchers[t].step \in {"WATCHED", "FAILED"} /\ WatchStep(t, "NONE") /\ UNCHANGED watchlist

WatchlistNext ==
  \/ PublishNextVersion
  \/ \E t \in Watchers :
       \/ RequestWatch(t) \/ CreateList(t) \/ CommitWatch(t) \/ AbortWatch(t)
       \/ FindWatched(t) \/ Unwatch(t) \/ WatchAnswered(t)

WatchlistSpec == WatchlistInit /\ [][WatchlistNext]_watchVars

-----------------------------------------------------------------------------
(* Properties.                                                             *)

(* A request to watch a published route succeeds, also when it is the      *)
(* first of its user and another one comes at the same time: the           *)
(* "Watchlist invariant failed" of the code is never thrown.               *)
WatchingNeverFails == \A t \in Watchers : watchers[t].step # "FAILED"
=============================================================================
