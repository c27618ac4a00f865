---------------------------- MODULE MCRepoPage ----------------------------
(* Small instances of ProcessSlots and of RepoPage for TLC.  The two are   *)
(* checked side by side: a behaviour takes the part of one of them, with   *)
(* the variables of the other at rest.                                     *)
EXTENDS RepoPage, TLC

VARIABLE part

\* Of all slots, those of one service with a compose file and of the edge are
\* enough to make every operation meet an occupied and an empty slot; for the
\* page, the service stands in for the pseudo-service.
mcServices == {"app", "webproxy"}
mcCompose  == {"app"}

mcVars == <<rVars, part>>
mcInit == RInit /\ part \in {"slots", "repo"}
mcNext ==
  \/ part = "slots" /\ Next /\ spawned' <= 3 /\ UNCHANGED <<repoVars, part>>
  \/ part = "repo" /\ RNext /\ UNCHANGED part
\* The page lags by two messages at most.
InboxBound == Len(inbox) <= 2
mcSpec == mcInit /\ [][mcNext]_mcVars
===========================================================================
