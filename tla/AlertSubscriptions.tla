--------------------------- MODULE AlertSubscriptions ---------------------------
(***************************************************************************)
(* Alert rules and notification destinations as users manage them          *)
(* (apps/web/src/app/api/v1/alerts and notification-destinations, with     *)
(* the constraints of packages/database/src/schema/user-data.ts).  What    *)
(* the worker does with them is in AlertEvaluation and                     *)
(* NotificationDelivery.                                                   *)
(*                                                                         *)
(* A rule is created in a transaction that finds a destination with one    *)
(* statement and links it with another; destinations are stored, disabled  *)
(* and stored again in between, from other tabs of the same user.          *)
(***************************************************************************)
EXTENDS Integers, FiniteSets

CONSTANTS
  Subscribers,       \* users
  Sessions,          \* requests that are open at the same time
  Addresses,         \* e-mail addresses, by their keyed hash
  MaxDestinations,   \* bound on destinations
  MaxRules           \* bound on rules

VARIABLES
  destinations,   \* rows of notification_destinations, by number
  subscriptions,  \* rows of alert_rules with their destination
  requests        \* the request of each session

subscriptionVars == <<destinations, subscriptions, requests>>

InApp    == "IN_APP"
NoHash   == "NONE"     \* destination_hash is null for IN_APP
Channels == {InApp, "EMAIL"}

ASSUME SubscriptionConstants ==
  /\ IsFiniteSet(Addresses) /\ NoHash \notin Addresses
  /\ {MaxDestinations, MaxRules} \subseteq Nat

DestinationRows ==
  [number : 1 .. MaxDestinations, owner : Subscribers, channel : Channels,
   hash : Addresses \cup {NoHash}, disabled : BOOLEAN]

Subscriptions ==
  [number : 1 .. MaxRules, owner : Subscribers, channel : Channels,
   destination : 1 .. MaxDestinations, enabled : BOOLEAN, unsubscribed : BOOLEAN, archived : BOOLEAN]

NoUser    == "NONE"
NoRequest == [step |-> "NONE", user |-> NoUser, channel |-> InApp, found |-> 0]

SubscriptionsTypeOK ==
  /\ destinations \subseteq DestinationRows /\ subscriptions \subseteq Subscriptions
  /\ requests \in [Sessions -> [step : {"NONE", "CHECKED", "FOUND", "CREATING"},
                                user : Subscribers \cup {NoUser}, channel : Channels,
                                found : 0 .. MaxDestinations]]

SubscriptionsInit ==
  destinations = {} /\ subscriptions = {} /\ requests = [s \in Sessions |-> NoRequest]

-----------------------------------------------------------------------------
(* Destinations.                                                           *)

(* The conflict target of the insert: user, channel and hash.              *)
SameAddress(u, a) == {d \in destinations : d.owner = u /\ d.hash = a}

(* POST: an address that was stored before is enabled again.               *)
StoreDestination(u, a) ==
  /\ IF SameAddress(u, a) = {}
       THEN /\ Cardinality(destinations) < MaxDestinations
            /\ destinations' = destinations \cup
                 {[number |-> Cardinality(destinations) + 1, owner |-> u, channel |-> "EMAIL",
                   hash |-> a, disabled |-> FALSE]}
       ELSE destinations' = {IF d \in SameAddress(u, a) THEN [d EXCEPT !.disabled = FALSE] ELSE d :
                               d \in destinations}
  /\ destinations' # destinations
  /\ UNCHANGED <<subscriptions, requests>>

(* DELETE; the deliveries that wait are cancelled with it.                 *)
RemoveDestination(u) ==
  /\ \E d \in destinations :
       /\ d.owner = u /\ ~d.disabled
       /\ destinations' = (destinations \ {d}) \cup {[d EXCEPT !.disabled = TRUE]}
  /\ UNCHANGED <<subscriptions, requests>>

-----------------------------------------------------------------------------
(* Rules.                                                                  *)

Continue(s, fields) == requests' = [requests EXCEPT ![s] = fields]

(* A bug: a destination is found by its id alone.                          *)
ReachableById(u, channel) == {d \in destinations : ~d.disabled /\ d.channel = channel}

(* The destinations that a rule of a user may have.                        *)
Reachable(u, channel) ==
  {d \in destinations : d.owner = u /\ d.channel = channel /\ ~d.disabled}

(* POST: an external destination must exist before the transaction ...     *)
RequestRule(s, u, channel) ==
  /\ requests[s].step = "NONE"
  /\ channel # InApp => Reachable(u, channel) # {}
  /\ Continue(s, [NoRequest EXCEPT !.step = "CHECKED", !.user = u, !.channel = channel])
  /\ UNCHANGED <<destinations, subscriptions>>

(* ... and is looked for again in it; IN_APP is created if there is none.  *)
FindDestination(s) ==
  LET r == requests[s] IN
  /\ r.step = "CHECKED"
  /\ \/ \E d \in Reachable(r.user, r.channel) :
          Continue(s, [r EXCEPT !.step = "FOUND", !.found = d.number])
     \/ /\ Reachable(r.user, r.channel) = {} /\ r.channel = InApp
        /\ Continue(s, [r EXCEPT !.step = "CREATING"])
  /\ UNCHANGED <<destinations, subscriptions>>

(* The rule and its link, with the new destination, if any.                *)
CommitRule(s) ==
  LET r      == requests[s]
      number == IF r.step = "CREATING" THEN Cardinality(destinations) + 1 ELSE r.found
  IN
  /\ r.step \in {"FOUND", "CREATING"}
  /\ Cardinality(subscriptions) < MaxRules /\ number <= MaxDestinations
  /\ destinations' = IF r.step = "FOUND" THEN destinations ELSE
       destinations \cup {[number |-> number, owner |-> r.user, channel |-> InApp, hash |-> NoHash,
                           disabled |-> FALSE]}
  /\ subscriptions' = subscriptions \cup
       {[number |-> Cardinality(subscriptions) + 1, owner |-> r.user, channel |-> r.channel,
         destination |-> number, enabled |-> TRUE, unsubscribed |-> FALSE, archived |-> FALSE]}
  /\ Continue(s, NoRequest)

AbortRule(s) ==
  /\ requests[s].step # "NONE" /\ Continue(s, NoRequest)
  /\ UNCHANGED <<destinations, subscriptions>>

ChangeRule(old, new) ==
  /\ subscriptions' = (subscriptions \ {old}) \cup {new} /\ new # old
  /\ UNCHANGED <<destinations, requests>>

Changeable(u) == {r \in subscriptions : r.owner = u /\ ~r.archived}

(* PATCH.                                                                  *)
SetEnabled(u, enabled) ==
  \E r \in Changeable(u) :
    ChangeRule(r, [r EXCEPT !.enabled = enabled, !.unsubscribed = @ /\ ~enabled])

(* DELETE.                                                                 *)
ArchiveRule(u) ==
  \E r \in Changeable(u) :
    ChangeRule(r, [r EXCEPT !.archived = TRUE, !.enabled = FALSE, !.unsubscribed = TRUE])

-----------------------------------------------------------------------------
SubscriptionsNext ==
  \/ \E u \in Subscribers, a \in Addresses : StoreDestination(u, a)
  \/ \E u \in Subscribers : RemoveDestination(u) \/ ArchiveRule(u)
  \/ \E u \in Subscribers, enabled \in BOOLEAN : SetEnabled(u, enabled)
  \/ \E s \in Sessions, u \in Subscribers, channel \in Channels : RequestRule(s, u, channel)
  \/ \E s \in Sessions : FindDestination(s) \/ CommitRule(s) \/ AbortRule(s)

SubscriptionsSpec == SubscriptionsInit /\ [][SubscriptionsNext]_subscriptionVars

-----------------------------------------------------------------------------
(* Properties.                                                             *)

(* A rule is linked to a destination of its own user and of the channel it *)
(* was made for, and an address of a user has one row, which disabling and *)
(* storing it again leave the rules linked to: a user who disables a       *)
(* destination and stores it again hears of the alerts as before           *)
(* (notification-destinations/route.ts:88).                                *)
RulesReachTheirOwner ==
  /\ \A r \in subscriptions : \E d \in destinations :
       d.number = r.destination /\ d.owner = r.owner /\ d.channel = r.channel
  /\ \A r \in subscriptions : \A d, e \in destinations :
       d.number = r.destination /\ e.owner = d.owner /\ e.hash = d.hash /\ d.hash # NoHash => e = d

=============================================================================
