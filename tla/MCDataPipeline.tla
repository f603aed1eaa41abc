--------------------------- MODULE MCDataPipeline ---------------------------
(* What reaches the stored history and the alerts, for TLC: the requests of *)
(* a source adapter, the observations and rollups made of its answers, and *)
(* the signals an alert rule is evaluated with.  The three share nothing   *)
(* but the clock of the world, so that "part" says which of them runs and  *)
(* the others stay as they began.                                          *)
EXTENDS ProviderRequests, ObservationPipeline, AlertSignals

CONSTANTS fetch1, fetch2, fetch3, vault

VARIABLE part

pipelineVars == <<part, requestVars, pipeVars, signalVars>>

MCRequests        == {fetch1, fetch2, fetch3}
MCAdapterCircuit  == [failureThreshold |-> 3, successThreshold |-> 2, recoveryTimeout |-> 1]
MCPasses          == {1, 2}
MCRollers         == {1}
MCMorphoRoutes    == {vault}
MCOndoRoutes      == {}
MCYields          == {1}
MCSignalConditions ==
  {"APY_ABOVE", "APY_BELOW", "APY_CHANGE", "TVL_AUM_DECLINE", "INCENTIVE_END", "STALE_DATA",
   "REDEMPTION_CHANGE", "ISSUER_PROTOCOL_WARNING", "VAULT_ALLOCATION_CHANGE",
   "PRODUCT_STATUS_CHANGE"}
MCRowValues       == {1, 2}

PipelineInit ==
  /\ part \in {"requests", "pipe", "signals"}
  /\ RequestsInit
  /\ PipeInit
  /\ IF part = "signals" THEN SignalsInit
     ELSE /\ rule = [condition |-> "APY_ABOVE", createdAt |-> 0]
          /\ hour = 0 /\ rows = <<>> /\ alerts = {}

OfRequests(A) == part = "requests" /\ A /\ UNCHANGED <<part, pipeVars, signalVars>>
OfPipe(A)     == part = "pipe" /\ A /\ UNCHANGED <<part, requestVars, signalVars>>
OfSignals(A)  == part = "signals" /\ A /\ UNCHANGED <<part, requestVars, pipeVars>>

PipelineNext == OfRequests(RequestsNext) \/ OfPipe(PipeNext) \/ OfSignals(SignalsNext)

(* RequestsFairness, PipeFairness and SignalsFairness of the part that runs: *)
(* as "part" never changes, fairness of a disjunction of actions of        *)
(* different parts is fairness of each of them.                            *)
PipelineFairness ==
  /\ WF_pipelineVars(OfRequests(BreakerTick) \/ OfPipe(PipeTick) \/ OfSignals(SignalTick))
  /\ WF_pipelineVars(OfRequests(RequestStep(fetch1)) \/ OfPipe(PassStep(1)) \/ OfSignals(EvaluateRule))
  /\ WF_pipelineVars(OfRequests(RequestStep(fetch2)) \/ OfPipe(PassStep(2)))
  /\ WF_pipelineVars(OfRequests(RequestStep(fetch3)) \/ OfPipe(RunRollup(1)))
  /\ SF_pipelineVars(OfPipe(BeginRollup(1)))

PipelineSpec == PipelineInit /\ [][PipelineNext]_pipelineVars /\ PipelineFairness

(* The variables of the three modules have their types.                    *)
PipelineTypeOK == RequestsTypeOK /\ PipeTypeOK /\ SignalsTypeOK
=============================================================================
