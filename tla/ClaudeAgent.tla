---------------------------- MODULE ClaudeAgent -----------------------------
(***************************************************************************)
(* The console's in-app Claude: tools/console/src/main/claudeAgent.ts with *)
(* the resume token of claudeStore.ts and the panel of the window          *)
(* (renderer/components/ClaudePanel.tsx) that shows it.                    *)
(*                                                                         *)
(* A session is one call of open(): it is filed under its service, loads   *)
(* the SDK ("loading"), asks whether the conversation saved on disk still  *)
(* exists ("checking"), runs the query ("streaming") and, whatever         *)
(* happened, is taken out of the map again ("over").  Every await of       *)
(* open() is a point where stop(), send() and another open() may run.      *)
(***************************************************************************)
EXTENDS Naturals, FiniteSets, Sequences

CONSTANTS Services,     \* the services the panel can be opened for
          None,         \* no session, no token, no panel
          Foreign,      \* a conversation saved by an earlier launch
          Choices,      \* the modes the user picks from, of the four there are
          MaxSessions,  \* bound on the sessions ever opened
          MaxTurns,     \* bound on the turns pending in one session
          MaxAsks,      \* bound on the approvals ever requested
          MaxNews       \* bound on the events on their way to the window

ASSUME NoneAssumption   == Services # {} /\ None \notin Services /\ None # Foreign
ASSUME ChoicesAssumption == Choices \subseteq {"off", "ondemand", "realtime", "fix"}
ASSUME BoundsAssumption == {MaxSessions, MaxTurns, MaxAsks, MaxNews} \subseteq Nat

Session == 1..MaxSessions       \* in the order they were opened
Ask     == 1..MaxAsks           \* in the order they were requested

ASSUME NamesAssumption == {None, Foreign} \cap (Session \cup Ask) = {}

VARIABLES mode,
          sessions,   \* the map: the session filed under each service, or None
          opened,     \* how many sessions have been opened
          svcOf, phase, aborted,   \* of each session
          fix,        \* it was opened with the approval gate
          talk,       \* the conversation it resumes, or None
          pending,    \* turns pushed into its input queue and not yet read
          closed,     \* endInput() was called
          parked,     \* its generator waits on the promise `wake' resolves
          approvals,  \* the map: requests waiting for a verdict
          asked, askOf, verdict,   \* requests made, by whom, and their outcome
          token,      \* the conversation saved on disk for each service
          news,       \* events sent to the window and not yet delivered, in order
          panel,      \* the service whose panel is mounted, or None
          running,    \* what that panel believes: a session is open
          cards       \* the requests it offers Approve and Reject for

sessionVars == <<opened, svcOf, phase, aborted, fix, talk>>
inputVars   == <<pending, closed, parked>>
askVars     == <<approvals, asked, askOf, verdict>>
windowVars  == <<news, panel, running, cards>>
vars == <<mode, sessions, sessionVars, inputVars, askVars, token, windowVars>>

Open(s) == phase[s] \in {"loading", "checking", "streaming"}

Init ==
  /\ mode = "ondemand"
  /\ sessions = [v \in Services |-> None]
  /\ opened = 0
  /\ svcOf   \in [Session -> {CHOOSE v \in Services : TRUE}]
  /\ phase   = [s \in Session |-> "unborn"]
  /\ aborted = [s \in Session |-> FALSE]
  /\ fix     = [s \in Session |-> FALSE]
  /\ talk    = [s \in Session |-> None]
  /\ pending = [s \in Session |-> 0]
  /\ closed  = [s \in Session |-> FALSE]
  /\ parked  = [s \in Session |-> FALSE]
  /\ approvals = {} /\ asked = 0
  /\ askOf   = [a \in Ask |-> 1]
  /\ verdict = [a \in Ask |-> "none"]
  /\ token \in [Services -> {None, Foreign}]
  /\ news = <<>> /\ panel = None /\ running = FALSE /\ cards = {}

-----------------------------------------------------------------------------
(* What the handlers are made of.                                          *)

State(v, r) == [kind |-> "state", to |-> v, running |-> r]
Card(v, a)  == [kind |-> "card", to |-> v, ask |-> a]

\* webContents.send(): the event is on its way, behind those sent before it.
SendToWindow(e) ==
  /\ Len(news) < MaxNews
  /\ news' = Append(news, e)
  /\ UNCHANGED <<panel, running, cards>>

EmitState(v, r) == SendToWindow(State(v, r))

\* Variant: a turn is queued without waking the generator.
PushAsleep(s) ==
  /\ pending' = [pending EXCEPT ![s] = @ + 1]
  /\ UNCHANGED <<parked, closed>>

\* makeInputQueue().push: queue the turn and wake the generator.
PushInput(s) ==
  /\ pending' = [pending EXCEPT ![s] = @ + 1]
  /\ parked'  = [parked EXCEPT ![s] = FALSE]
  /\ closed' = closed

\* Variant: open() does not look whether a session is filed.
OpenAnyway(v) ==
  /\ opened < MaxSessions
  /\ LET s == opened + 1
     IN /\ opened'   = s
        /\ sessions' = [sessions EXCEPT ![v] = s]
        /\ svcOf'    = [svcOf EXCEPT ![s] = v]
        /\ phase'    = [phase EXCEPT ![s] = "loading"]
        /\ PushInput(s)
  /\ EmitState(v, TRUE)
  /\ UNCHANGED <<mode, aborted, fix, talk, askVars, token>>

\* open(): a no-op when the mode is off or a session is filed; otherwise file
\* one, seed its first turn and start loading the SDK.
OpenSession(v) ==
  \/ /\ mode # "off" /\ sessions[v] = None
     /\ opened < MaxSessions
     /\ LET s == opened + 1
        IN /\ opened'   = s
           /\ sessions' = [sessions EXCEPT ![v] = s]
           /\ svcOf'    = [svcOf EXCEPT ![s] = v]
           /\ phase'    = [phase EXCEPT ![s] = "loading"]
           /\ PushInput(s)
     /\ EmitState(v, TRUE)
     /\ UNCHANGED <<mode, aborted, fix, talk, askVars, token>>
  \/ (mode = "off" \/ sessions[v] # None) /\ UNCHANGED vars

-----------------------------------------------------------------------------
(* Calls from the window, and the stage events of the pipeline.            *)

SetMode(m) ==
  /\ mode' = m
  /\ UNCHANGED <<sessions, sessionVars, inputVars, askVars, token, windowVars>>

\* The Diagnose button.  The panel offers it while it believes no session open,
\* and Stop otherwise; either click may cross a state event on its way.
Start(v) == panel = v /\ OpenSession(v)

\* A stage event of the pipeline with some stage failed.
OnStageFailed(v) == mode \in {"realtime", "fix"} /\ sessions[v] = None /\ OpenSession(v)

\* A follow-up for the session that is filed, or a new session.
Send(v) ==
  /\ panel = v /\ mode # "off"
  /\ \/ /\ sessions[v] # None
        /\ pending[sessions[v]] < MaxTurns
        /\ PushInput(sessions[v])
        /\ EmitState(v, TRUE)
        /\ UNCHANGED <<mode, sessions, sessionVars, askVars, token>>
     \/ sessions[v] = None /\ OpenSession(v)

\* Variant: stop() forgets to answer the requests it drops.
RejectNothing ==
  /\ approvals' = {}
  /\ UNCHANGED <<asked, askOf, verdict>>

\* stop() rejects every approval there is, whichever service asked.
RejectAll ==
  /\ verdict'   = [a \in Ask |-> IF a \in approvals THEN "deny" ELSE verdict[a]]
  /\ approvals' = {}
  /\ UNCHANGED <<asked, askOf>>

\* The Stop button: end the input, abort, unfile, and reject the approvals.
Stop(v) ==
  /\ panel = v
  /\ RejectAll
  /\ \/ /\ sessions[v] # None
        /\ sessions' = [sessions EXCEPT ![v] = None]
        /\ closed'   = [closed EXCEPT ![sessions[v]] = TRUE]
        /\ parked'   = [parked EXCEPT ![sessions[v]] = FALSE]
        /\ aborted'  = [aborted EXCEPT ![sessions[v]] = TRUE]
        /\ EmitState(v, FALSE)
        /\ UNCHANGED <<mode, pending, opened, svcOf, phase, fix, talk, token>>
     \/ /\ sessions[v] = None
        /\ UNCHANGED <<mode, sessions, sessionVars, inputVars, token, windowVars>>

\* A card is answered: the card goes, and the resolver is called if it is there.
Approve(a, allow) ==
  /\ a \in cards /\ cards' = cards \ {a}
  /\ \/ /\ a \in approvals
        /\ approvals' = approvals \ {a}
        /\ verdict' = [verdict EXCEPT ![a] = IF allow THEN "allow" ELSE "deny"]
     \/ a \notin approvals /\ UNCHANGED <<approvals, verdict>>
  /\ UNCHANGED <<mode, sessions, sessionVars, inputVars, asked, askOf, token, news, panel, running>>

\* clearConversation(): the transcript and the token of the service are wiped.
Clear(v) ==
  /\ panel = v
  /\ token' = [token EXCEPT ![v] = None]
  /\ UNCHANGED <<mode, sessions, sessionVars, inputVars, askVars, windowVars>>

\* The Claude tab of a service is opened or left: the panel is mounted afresh,
\* believing nothing.
Mount(v) ==
  /\ panel # v
  /\ panel' = v /\ running' = FALSE /\ cards' = {}
  /\ UNCHANGED <<mode, sessions, sessionVars, inputVars, askVars, token, news>>

\* The next event reaches the window: only a panel of its service, if that is
\* what is mounted by now, takes it.
Hear ==
  /\ news # <<>> /\ news' = Tail(news)
  /\ LET e == Head(news)
     IN /\ running' = IF e.kind = "state" /\ e.to = panel THEN e.running ELSE running
        /\ cards'   = IF e.kind = "card" /\ e.to = panel THEN cards \cup {e.ask} ELSE cards
  /\ UNCHANGED <<mode, sessions, sessionVars, inputVars, askVars, token, panel>>

-----------------------------------------------------------------------------
(* What a session does between its awaits.                                 *)

\* The SDK is there: the mode is read, and a saved conversation looked up.
Loaded(s) ==
  /\ phase[s] = "loading"
  /\ fix'  = [fix EXCEPT ![s] = (mode = "fix")]
  /\ talk' = [talk EXCEPT ![s] = token[svcOf[s]]]
  /\ phase' = [phase EXCEPT ![s] = IF token[svcOf[s]] = None THEN "streaming" ELSE "checking"]
  /\ UNCHANGED <<mode, sessions, opened, svcOf, aborted, inputVars, askVars, token, windowVars>>

\* getSessionInfo answers: resume the conversation, or drop the saved token.
Checked(s) ==
  /\ phase[s] = "checking"
  /\ phase' = [phase EXCEPT ![s] = "streaming"]
  /\ \/ UNCHANGED <<talk, token>>
     \/ /\ talk'  = [talk EXCEPT ![s] = None]
        /\ token' = [token EXCEPT ![svcOf[s]] = None]
  /\ UNCHANGED <<mode, sessions, opened, svcOf, aborted, fix, inputVars, askVars, windowVars>>

\* The engine reads the next turn; with none, the generator parks.
ReadTurn(s) ==
  /\ phase[s] = "streaming" /\ ~parked[s]
  /\ \/ /\ pending[s] > 0
        /\ pending' = [pending EXCEPT ![s] = @ - 1]
        /\ parked' = parked
     \/ /\ pending[s] = 0 /\ ~closed[s]
        /\ parked' = [parked EXCEPT ![s] = TRUE]
        /\ pending' = pending
  /\ UNCHANGED <<mode, sessions, sessionVars, closed, askVars, token, windowVars>>

\* The "init" message: the conversation's id is saved on disk.
InitMessage(s) ==
  /\ phase[s] = "streaming"
  /\ token' = [token EXCEPT ![svcOf[s]] = IF talk[s] = None THEN s ELSE talk[s]]
  /\ UNCHANGED <<mode, sessions, sessionVars, inputVars, askVars, windowVars>>

\* Variant: the panel is told whether or not a session is filed.
ResultAnyway(s) ==
  /\ phase[s] = "streaming"
  /\ EmitState(svcOf[s], TRUE)
  /\ UNCHANGED <<mode, sessions, sessionVars, inputVars, askVars, token>>

\* The "result" message: the turn is over, the session stays open.
ResultMessage(s) ==
  /\ phase[s] = "streaming"
  /\ sessions[svcOf[s]] # None
  /\ EmitState(svcOf[s], TRUE)
  /\ UNCHANGED <<mode, sessions, sessionVars, inputVars, askVars, token>>

\* canUseTool() for a mutating tool of a gated session: requestApproval().
RequestApproval(s) ==
  /\ phase[s] = "streaming" /\ fix[s] /\ asked < MaxAsks
  /\ LET a == asked + 1
     IN /\ asked'     = a
        /\ approvals' = approvals \cup {a}
        /\ askOf'     = [askOf EXCEPT ![a] = s]
        /\ verdict'   = [verdict EXCEPT ![a] = "pending"]
        /\ SendToWindow(Card(svcOf[s], a))
  /\ UNCHANGED <<mode, sessions, sessionVars, inputVars, token>>

\* Variant: there is no `finally'.
FinishFiled(s) ==
  /\ phase[s] \in {"loading", "streaming"}
  /\ phase' = [phase EXCEPT ![s] = "over"]
  /\ EmitState(svcOf[s], FALSE)
  /\ UNCHANGED <<mode, sessions, opened, svcOf, aborted, fix, talk, inputVars, askVars, token>>

\* runQuery() returns or throws, because the SDK could not be loaded or the
\* query ended: open()'s `finally' unfiles the service.
Finish(s) ==
  /\ phase[s] \in {"loading", "streaming"}
  /\ phase' = [phase EXCEPT ![s] = "over"]
  /\ sessions' = [sessions EXCEPT ![svcOf[s]] = None]
  /\ EmitState(svcOf[s], FALSE)
  /\ UNCHANGED <<mode, opened, svcOf, aborted, fix, talk, inputVars, askVars, token>>

User ==
  \/ \E m \in Choices : SetMode(m)
  \/ \E v \in Services : Start(v) \/ Send(v) \/ Stop(v) \/ Clear(v)
  \/ \E v \in Services \cup {None} : Mount(v)
  \/ \E a \in Ask, allow \in BOOLEAN : Approve(a, allow)
  \/ Hear

Engine ==
  \/ \E s \in Session : \/ Loaded(s) \/ Checked(s) \/ ReadTurn(s) \/ InitMessage(s)
                        \/ ResultMessage(s) \/ RequestApproval(s) \/ Finish(s)
  \/ \E v \in Services : OnStageFailed(v)

Next == User \/ Engine

Spec == Init /\ [][Next]_vars

\* The SDK is loaded, answers, and reads its prompt.  That a query ever ends, or
\* that the user does anything, is not assumed.
Fairness ==
  \A s \in Session :
    WF_vars(Loaded(s)) /\ WF_vars(Checked(s)) /\ WF_vars(ReadTurn(s))

FairSpec == Spec /\ Fairness
-----------------------------------------------------------------------------
(* Properties                                                              *)

\* What stop() and send() find under a service is a session of that service,
\* the newest one, neither stopped nor over: open() writes the entry, stop()
\* and the `finally' of any session of the service delete it.
FiledSessionIsOpen ==
  \A v \in Services : sessions[v] # None =>
    LET s == sessions[v]
    IN /\ svcOf[s] = v /\ Open(s) /\ ~aborted[s]
       /\ \A t \in Session : t > s /\ phase[t] # "unborn" => svcOf[t] # v

\* A session nobody stopped is only ever lost from the map to the late end of a
\* session of its service that had been stopped.
OnlyAnEndLosesASession ==
  \A s \in Session : Open(s) /\ ~aborted[s] /\ sessions[svcOf[s]] # s =>
    \E t \in Session \ {s} : svcOf[t] = svcOf[s] /\ phase[t] = "over" /\ aborted[t]

\* The input queue loses no wake-up: a generator that waits has nothing to read
\* and has not been told to end (push and end come between any two reads).
NoLostWakeup == \A s \in Session : parked[s] => pending[s] = 0 /\ ~closed[s]

\* A request is in the map exactly as long as its promise is unresolved, so
\* whatever removes it (a verdict or stop()) has answered it.
MapHoldsTheUnanswered == approvals = {a \in Ask : verdict[a] = "pending"}

\* Some word on the sessions of a service is on its way to the window.
WordFor(v) == \E i \in 1..Len(news) : news[i].kind = "state" /\ news[i].to = v

\* A panel that has heard all there is to hear of its service believes in no
\* session that is not filed: every way the map loses an entry tells the window,
\* and no event of the engine, however late it is delivered and whenever the
\* panel was mounted, untells it.
PanelBelievesWhatIsFiled ==
  running /\ ~WordFor(panel) => panel # None /\ sessions[panel] # None

\* A turn the user has sent is read by the engine unless the session ends
\* first, whichever way the queue, the generator and the SDK interleave.
EveryTurnIsHeard ==
  \A s \in Session : pending[s] > 0 ~> pending[s] = 0 \/ ~Open(s)

\* `reject any dangling approvals for this service' (claudeAgent.ts:101): a stop
\* answers only requests of the service whose panel it was pressed in.
StopIsPerService ==
  [][\A a \in Ask : verdict[a] = "pending" /\ svcOf[askOf[a]] # panel =>
       verdict'[a] = "pending"]_vars

\* `No-op if mode is off or already running' (claudeAgent.ts:106): a service has
\* at most one session that has neither ended nor been stopped.
OneSessionPerService ==
  \A s, t \in Session :
    Open(s) /\ Open(t) /\ ~aborted[s] /\ ~aborted[t] /\ svcOf[s] = svcOf[t] => s = t

\* `a stale/foreign id is dropped so we just start fresh' (claudeAgent.ts:191):
\* the token a check drops is the one that was found stale.
DropsWhatItChecked ==
  [][\A s \in Session :
       phase[s] = "checking" /\ phase'[s] = "streaming" /\ talk'[s] = None
       => token[svcOf[s]] \in {talk[s], None}]_vars

\* `forgets the local resume session so the next chat starts fresh'
\* (ClaudePanel.tsx:218): the conversation of an earlier launch, once it is no longer
\* saved, is never saved again.
ClearedIsForgotten == [][\A v \in Services : token[v] = None => token'[v] # Foreign]_vars

\* `each gated by Approve/Reject in the UI' (README.md:62): the panel of a
\* service offers every request its sessions wait for, once it has heard of it.
AskedIsOffered ==
  \A a \in approvals : svcOf[askOf[a]] = panel /\ news = <<>> => a \in cards

\* `Tools a read-only mode (ondemand/realtime) must never use' (claudeAgent.ts:25):
\* no mutating tool is allowed while the mode is a read-only one.
ReadOnlyModesDoNotEdit ==
  [][\A a \in Ask : verdict[a] = "pending" /\ verdict'[a] = "allow" => mode = "fix"]_vars
=============================================================================
