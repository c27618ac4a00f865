------------------------------ MODULE MCConsole ------------------------------
(* Three small instances for one run of TLC, each behaving on its own while   *)
(* the others rest in their initial states: the cloud target and what the     *)
(* window shows of it, the sync of a front end into it, and the log views.    *)
EXTENDS CloudMonitor, WatchSync, LogFeed, TLC

CONSTANTS a, b

mcAccounts == {a, b}
mcWindows  == {15, 60}
mcBins     == [localstack |-> 15 :> 2 @@ 60 :> 3, aws |-> 15 :> 1 @@ 60 :> 2]
mcClouds   == {"localstack", "aws"}
mcStreams  == {"deploy", "runtime"}
mcInFlight == 3   \* bound on what is on its way to the window

VARIABLE part

mcAll == <<part, vars, watchVars, logVars>>

mcConsoleInit ==
  /\ part \in {"monitor", "sync", "log"}
  /\ Init /\ (part = "monitor" \/ window = 15)
  /\ WInit /\ (part = "sync" \/ bin # NoBin)
  /\ LInit

mcConsoleNext ==
  /\ UNCHANGED part
  /\ \/ part = "monitor" /\ Next /\ UNCHANGED <<watchVars, logVars>>
     \/ part = "sync" /\ WNext /\ UNCHANGED <<vars, logVars>>
     \/ part = "log" /\ LNext /\ Len(channel') <= mcInFlight /\ UNCHANGED <<vars, watchVars>>

\* The fairness of CloudMonitor, asked for only while it behaves.
mcConsoleFair ==
  /\ WF_vars(part = "monitor" /\ Tick) /\ WF_vars(part = "monitor" /\ Listed)
  /\ WF_vars(part = "monitor" /\ PollReturns)
  /\ WF_vars(part = "monitor" /\ \E w \in answers : Answer(w))

mcConsoleSpec == mcConsoleInit /\ [][mcConsoleNext]_mcAll /\ mcConsoleFair
=============================================================================
