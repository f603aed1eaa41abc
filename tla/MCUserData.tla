----------------------------- MODULE MCUserData -----------------------------
(* What users are shown, what they save, and the alerts they subscribe to, *)
(* for TLC: six modules that share no variable, of which "part" says which *)
(* one runs while the others stay as they began.                           *)
EXTENDS AlertEvaluation, PublicReadModel, Simulations, SavedResearch, Watchlist,
        AlertSubscriptions

CONSTANTS apy, mail, e1, e2, vault, fund, bundle, issuer, user, other

VARIABLE part

-----------------------------------------------------------------------------
(* Values of the constants.                                                *)

(* Two evaluators, requests or tabs.                                       *)
MCActors      == {e1, e2}
ActorSymmetry == Permutations(MCActors)

MCOneRule     == {apy}
MCDestination == {mail}
MCAttached    == [r \in Rules |-> Destinations]
OneLeftover   == {[rule |-> apy, key |-> 1, at |-> 0]}

MCSlugs         == {vault}
MCSources       == {bundle, issuer}
MCInitialYields == {[slug |-> vault, at |-> 0, source |-> issuer]}
MCInitialRisks  == {[slug |-> vault, at |-> 0, methodology |-> 1, sources |-> MCSources]}

MCUser    == {user}
MCUsers   == {user, other}
MCOffered == {vault, fund}

MCSavable == {1, 2, 3, 4}
MCLists   == {<<1, 2>>, <<2, 1>>, <<3, 4>>}

-----------------------------------------------------------------------------
(* The parts.                                                              *)

userDataVars == <<part, vars, readVars, simulationVars, savedVars, watchVars, subscriptionVars>>

UserDataInit ==
  /\ part \in {"evaluation", "read", "simulations", "comparisons", "watchlist", "subscriptions"}
  /\ Init /\ (part # "evaluation" => signal = [r \in Rules |-> [outcome |-> "NO_TRIGGER", key |-> 1]])
  /\ ReadModelInit /\ (part # "read" => \A s \in Slugs : listings[s] = NotListed)
  /\ SimulationsInit /\ SavedInit /\ WatchlistInit /\ SubscriptionsInit

UserDataNext ==
  \/ /\ part = "evaluation" /\ Next
     /\ UNCHANGED <<part, readVars, simulationVars, savedVars, watchVars, subscriptionVars>>
  \/ /\ part = "read" /\ ReadModelNext
     /\ UNCHANGED <<part, vars, simulationVars, savedVars, watchVars, subscriptionVars>>
  \/ /\ part = "simulations" /\ SimulationsNext
     /\ UNCHANGED <<part, vars, readVars, savedVars, watchVars, subscriptionVars>>
  \/ /\ part = "comparisons" /\ SavedNext
     /\ UNCHANGED <<part, vars, readVars, simulationVars, watchVars, subscriptionVars>>
  \/ /\ part = "watchlist" /\ WatchlistNext
     /\ UNCHANGED <<part, vars, readVars, simulationVars, savedVars, subscriptionVars>>
  \/ /\ part = "subscriptions" /\ SubscriptionsNext
     /\ UNCHANGED <<part, vars, readVars, simulationVars, savedVars, watchVars>>

UserDataSpec == UserDataInit /\ [][UserDataNext]_userDataVars

(* The variables of the part that runs have their types; those of the      *)
(* others never change.  TypeOK is that of the evaluation of alerts.       *)
UserDataTypeOK ==
  CASE part = "evaluation"    -> TypeOK
    [] part = "read"          -> ReadModelTypeOK
    [] part = "simulations"   -> SimulationsTypeOK
    [] part = "comparisons"   -> SavedTypeOK
    [] part = "watchlist"     -> WatchlistTypeOK
    [] part = "subscriptions" -> SubscriptionsTypeOK

(* Tabs that save to one list at the same time leave it the whole list of  *)
(* one of them, and none of them fails.                                    *)
SavedListsAreWhole == ComparisonsAreOneRequest /\ WatchingNeverFails
=============================================================================
