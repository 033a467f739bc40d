----------------------------- MODULE MCIntegration -----------------------------
(* The parts of the Herdr integration, side by side: they share no state,  *)
(* and `part' says which of them a behaviour runs.                         *)
EXTENDS LiveTpsReporter, TokenRateMeter, CodexObserver, ApiKeyRouter, ShareDaemons

VARIABLE part

allVars == <<part, vars, meterVars, observerVars, routerVars, daemonVars>>
Parts == {"reporter", "meter", "observer", "router", "daemons"}

(* A part that does not run starts in one of its initial states.           *)
MCInit ==
  /\ part \in Parts
  /\ Init /\ MeterInit /\ ObserverInit /\ RouterInit /\ DaemonsInit
  /\ part = "reporter" \/ ~legacy
  /\ part = "meter" \/ counter = CHOOSE t \in Tokenizer : TRUE
  /\ part = "router" \/ ~entries
  /\ part = "daemons" \/ (source = "none" /\ ~target)

MCNext ==
  \/ /\ part = "reporter" /\ Next
     /\ UNCHANGED <<part, meterVars, observerVars, routerVars, daemonVars>>
  \/ /\ part = "meter" /\ MeterNext
     /\ UNCHANGED <<part, vars, observerVars, routerVars, daemonVars>>
  \/ /\ part = "observer" /\ ObserverNext
     /\ UNCHANGED <<part, vars, meterVars, routerVars, daemonVars>>
  \/ /\ part = "router" /\ RouterNext
     /\ UNCHANGED <<part, vars, meterVars, observerVars, daemonVars>>
  \/ /\ part = "daemons" /\ DaemonsNext
     /\ UNCHANGED <<part, vars, meterVars, observerVars, routerVars>>

MCSpec == MCInit /\ [][MCNext]_allVars /\ Fairness
=============================================================================
