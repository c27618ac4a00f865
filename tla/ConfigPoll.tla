----------------------------- MODULE ConfigPoll -----------------------------
(***************************************************************************)
(* The AppConfig facade, packages/services/src/aws/AppConfig.ts, for one   *)
(* profile in one environment: latest() with its rolling poll token,       *)
(* json() that parses what it got, the one caller that keeps the last      *)
(* value as their comments ask, and the control plane that creates,        *)
(* deploys and rolls back versions.                                        *)
(*                                                                         *)
(* AppConfig is external: a token stands for the version its session last  *)
(* got, a poll answers with the deployed version if it is another one and  *)
(* with nothing if it is not, and a token that is too old is refused.      *)
(***************************************************************************)
EXTENDS Naturals

CONSTANTS Polls,        \* the calls of latest() that can be under way at once
          Unparsable,   \* the versions that are not JSON
          NoToken, Unchanged,
          MaxVersions,  \* bound on the versions created
          MaxDeploys    \* bound on the deployments

ASSUME ConfigAssumption ==
  /\ MaxVersions \in Nat /\ MaxDeploys \in Nat /\ Unparsable \subseteq Nat
  /\ NoToken \notin Nat /\ Unchanged \notin Nat /\ NoToken # Unchanged

VARIABLES versions,    \* the versions created are 1..versions
          deployed,    \* the one that is deployed; 0 is a first one
          deploys,     \* deployments so far
          tokens,      \* the entry of that map: the version the token stands for
          expired,     \* the token in the map is too old
          call,        \* where each call of latest() is
          token,       \* the token it polls with
          answer,      \* what the service has answered: a version, or Unchanged
          cached,      \* the caller's last value
          overlapped   \* two calls have been under way at once

controlVars == <<versions, deployed, deploys>>
pollVars    == <<call, token, answer>>
configVars  == <<controlVars, tokens, expired, pollVars, cached, overlapped>>

CInit ==
  /\ versions = 0 /\ deployed = 0 /\ deploys = 0
  /\ tokens = NoToken /\ expired = FALSE
  /\ call = [p \in Polls |-> "idle"]
  /\ token = [p \in Polls |-> NoToken] /\ answer = [p \in Polls |-> Unchanged]
  /\ cached = Unchanged /\ overlapped = FALSE

-----------------------------------------------------------------------------
(* The control plane                                                       *)

CreateVersion ==
  /\ versions < MaxVersions /\ versions' = versions + 1
  /\ UNCHANGED <<deployed, deploys, tokens, expired, pollVars, cached, overlapped>>

\* deploy(), and rollback(), which deploys an earlier version: all at once.
Deploy(v) ==
  /\ deploys < MaxDeploys /\ deploys' = deploys + 1
  /\ v \in 0..versions /\ deployed' = v
  /\ UNCHANGED <<versions, tokens, expired, pollVars, cached, overlapped>>

-----------------------------------------------------------------------------
(* latest()                                                                *)

\* It polls with the token in the map, or starts a session when there is none.
Latest(p) ==
  /\ call[p] = "idle"
  /\ call' = [call EXCEPT ![p] = IF tokens = NoToken THEN "starting" ELSE IF expired THEN "refused" ELSE "polling"]
  /\ token' = [token EXCEPT ![p] = tokens]
  /\ overlapped' = (overlapped \/ \E q \in Polls : call[q] # "idle")
  /\ UNCHANGED <<controlVars, tokens, expired, answer, cached>>

\* The session's first token stands for no version.
SessionStarts(p) ==
  /\ call[p] = "starting"
  /\ call' = [call EXCEPT ![p] = "polling"]
  /\ UNCHANGED <<controlVars, tokens, expired, token, answer, cached, overlapped>>

\* The service takes the poll; its answer is on the way.
Served(p) ==
  /\ call[p] = "polling"
  /\ call' = [call EXCEPT ![p] = "answered"]
  /\ answer' = [answer EXCEPT ![p] = IF token[p] = deployed THEN Unchanged ELSE deployed]
  /\ token' = [token EXCEPT ![p] = deployed]
  /\ UNCHANGED <<controlVars, tokens, expired, cached, overlapped>>

\* Variant: the next token is kept before it is known that the answer has come.
FailsAfterToken(p) ==
  /\ call[p] # "idle"
  /\ call' = [call EXCEPT ![p] = "idle"]
  /\ tokens' = IF call[p] = "answered" THEN token[p] ELSE tokens
  /\ UNCHANGED <<controlVars, expired, token, answer, cached, overlapped>>

\* An error on any of the ways to the service and back: the map is left as it is.
Fails(p) ==
  /\ call[p] # "idle"
  /\ call' = [call EXCEPT ![p] = "idle"]
  /\ UNCHANGED <<controlVars, tokens, expired, token, answer, cached, overlapped>>

\* The answer: the next token goes into the map, whatever is there by now, and
\* the caller replaces its value when it got one.
Returns(p) ==
  /\ call[p] = "answered"
  /\ call' = [call EXCEPT ![p] = "idle"]
  /\ tokens' = token[p] /\ expired' = FALSE
  /\ cached' = IF answer[p] = Unchanged THEN cached ELSE answer[p]
  /\ UNCHANGED <<controlVars, token, answer, overlapped>>

\* The answer comes through json() and is not JSON: the token is in the map by
\* then, and the caller has an error and its old value.
ParseFails(p) ==
  /\ call[p] = "answered" /\ answer[p] \in Unparsable
  /\ call' = [call EXCEPT ![p] = "idle"]
  /\ tokens' = token[p] /\ expired' = FALSE
  /\ UNCHANGED <<controlVars, token, answer, cached, overlapped>>

\* The token in the map has not been used for a day.
Expire ==
  /\ tokens # NoToken /\ expired' = TRUE
  /\ \A p \in Polls : call[p] = "idle"
  /\ UNCHANGED <<controlVars, tokens, pollVars, cached, overlapped>>

CNext ==
  \/ CreateVersion \/ \E v \in 0..MaxVersions : Deploy(v)
  \/ \E p \in Polls :
       \/ Latest(p) \/ SessionStarts(p) \/ Served(p)
       \/ Returns(p) \/ ParseFails(p) \/ Fails(p)
  \/ Expire

CSpec == CInit /\ [][CNext]_configVars

-----------------------------------------------------------------------------
(* Properties                                                              *)

\* `the Data API returns an empty string when nothing changed since your last
\* poll' (AppConfig.ts:58): as long as calls do not overlap, whatever fails or is
\* lost and whichever versions are deployed and rolled back, the value the caller
\* has kept is that of the token in the map, so that the next poll that succeeds
\* leaves it with the version deployed.  The one thing that can be missed is a
\* version json() could not parse, and only until another one is polled.
NoChangeIsMissed ==
  ~overlapped /\ tokens # NoToken => cached = tokens \/ tokens \in Unparsable

\* json() `returns undefined when unchanged/empty' (AppConfig.ts:95): not only then,
\* since the call after one that failed to parse is told that nothing has changed.
UndefinedIsUnchanged == ~overlapped /\ tokens # NoToken => cached = tokens

\* Of calls that overlap, one that began before a deployment and ends after
\* another has delivered it puts an old token back, and once that version is
\* deployed again the caller is told that nothing has changed.
OverlapIsHarmless == tokens = deployed => cached = deployed
=============================================================================
