-------------------------- MODULE MCAlertEvaluation --------------------------
(* Instances of AlertEvaluation for TLC.                                   *)
EXTENDS AlertEvaluation

CONSTANTS apy, mail, e1

MCOneRule == {apy}
MCDestination == {mail}
MCAttached == [r \in Rules |-> Destinations]
MCEvaluator == {e1}

NoLeftovers == {}
=============================================================================
