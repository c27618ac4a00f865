----------------------------- MODULE MCServices -----------------------------
(* Three small instances for one run of TLC, each behaving on its own while  *)
(* the others rest in their initial states: the stack a manifest becomes, a  *)
(* process deployed from it, and the event bus such processes share.         *)
EXTENDS MCServiceStack, ServiceDaemon, EventBus

CONSTANTS e1, e2, c1, c2, r1, r2, r3

mcEvents    == {e1, e2}
mcConsumers == {c1, c2}
mcRequests  == {r1, r2, r3}

VARIABLE part

mcAt(p) == part = p
mcAll   == <<part, sVars, daemonVars, vars>>

mcServicesInit ==
  /\ part \in {"stack", "daemon", "bus"}
  /\ IF mcAt("stack") THEN mcInit ELSE owns = {} /\ uses = {} /\ deployEnv = "dev" /\ SInit
  /\ DInit /\ (mcAt("daemon") \/ kind = "service")
  /\ Init  /\ poison \subseteq {e1}     \* neither event is special
  /\ mcAt("bus") \/ ~fromBeginning
  /\ fromBeginning \/ poison = {}     \* or it could be skipped as well

mcServicesNext ==
  /\ UNCHANGED part
  /\ \/ mcAt("stack") /\ SNext /\ UNCHANGED <<daemonVars, vars>>
     \/ mcAt("daemon") /\ DNext /\ UNCHANGED <<sVars, vars>>
     \/ mcAt("bus") /\ Next /\ UNCHANGED <<sVars, daemonVars>>

\* The fairness of a part that rests asks for nothing: none of its fair actions
\* is enabled in its initial states.
mcServicesSpec ==
  /\ mcServicesInit /\ [][mcServicesNext]_mcAll
  /\ WF_daemonVars(ForceExit) /\ Fairness
=============================================================================
