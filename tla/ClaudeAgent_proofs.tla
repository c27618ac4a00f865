------------------------- MODULE ClaudeAgent_proofs -------------------------
(***************************************************************************)
(* Proofs about ClaudeAgent: for any services and any bounds, the map, the *)
(* input queues, the approvals and the panel stay consistent, wherever the *)
(* awaits of open() let stop(), send() and another open() in.              *)
(***************************************************************************)
EXTENDS ClaudeAgent, SequenceTheorems, TLAPS

Modes  == {"off", "ondemand", "realtime", "fix"}
Saved  == Session \cup {None, Foreign}   \* the conversations there are
Phases == {"unborn", "loading", "checking", "streaming", "over"}
Events == [kind : {"state"}, to : Services, running : BOOLEAN]
          \cup [kind : {"card"}, to : Services, ask : Nat]

TypeOK ==
  /\ mode \in Modes
  /\ sessions \in [Services -> Session \cup {None}]
  /\ opened \in Nat
  /\ svcOf   \in [Session -> Services]
  /\ phase   \in [Session -> Phases]
  /\ aborted \in [Session -> BOOLEAN]
  /\ fix     \in [Session -> BOOLEAN]
  /\ talk    \in [Session -> Saved]
  /\ pending \in [Session -> Nat]
  /\ closed  \in [Session -> BOOLEAN]
  /\ parked  \in [Session -> BOOLEAN]
  /\ approvals \in SUBSET Ask
  /\ asked \in Nat
  /\ askOf   \in [Ask -> Nat]
  /\ verdict \in [Ask -> {"none", "pending", "allow", "deny"}]
  /\ token \in [Services -> Saved]
  /\ panel \in Services \cup {None}
  /\ running \in BOOLEAN

\* Sessions and requests are numbered as they are made, and until then they are
\* untouched.
Numbered ==
  /\ \A s \in Session : phase[s] = "unborn" <=> s > opened
  /\ \A s \in Session : s > opened => ~aborted[s]
  /\ \A a \in Ask : verdict[a] = "none" <=> a > asked

\* The last word on its way about a service is true: if it says that a session
\* is open, one is filed.
LastWordIsTrue ==
  \A i \in 1..Len(news) :
    /\ news[i].kind = "state" /\ news[i].running
    /\ \A j \in 1..Len(news) : j > i => ~(news[j].kind = "state" /\ news[j].to = news[i].to)
    => sessions[news[i].to] # None

\* What the window knows, or is about to.
WindowIsTold == news \in Seq(Events) /\ LastWordIsTrue /\ PanelBelievesWhatIsFiled

\* The inductive invariant: the five properties, and what they rest on.
CInv ==
  /\ TypeOK
  /\ Numbered
  /\ FiledSessionIsOpen
  /\ OnlyAnEndLosesASession
  /\ NoLostWakeup
  /\ MapHoldsTheUnanswered
  /\ WindowIsTold

-----------------------------------------------------------------------------
(* What the user and the stage events do.                                  *)

LEMMA SavedOnes == Session \subseteq Saved /\ None \in Saved /\ {None, Foreign} \subseteq Saved
  BY DEF Saved

LEMMA InitCInv == Init => CInv
  <1>1. Init => TypeOK /\ Numbered
    <2>1. SUFFICES ASSUME Init PROVE TypeOK /\ Numbered
      OBVIOUS
    <2>2. (CHOOSE v \in Services : TRUE) \in Services
      BY NoneAssumption
    <2>3. svcOf \in [Session -> Services]
      BY <2>1, <2>2 DEF Init
    <2>4. token \in [Services -> Saved]
      BY <2>1, SavedOnes DEF Init
    <2>5. talk \in [Session -> Saved] /\ askOf \in [Ask -> Nat]
      BY <2>1, SavedOnes DEF Init
    <2>6. TypeOK
      BY <2>1, <2>3, <2>4, <2>5 DEF Init, TypeOK, Modes, Phases
    <2>7. Numbered
      BY <2>1 DEF Init, Numbered, Session, Ask
    <2>8. QED
      BY <2>6, <2>7
  <1>2. Init => FiledSessionIsOpen /\ OnlyAnEndLosesASession /\ NoLostWakeup
    BY DEF Init, FiledSessionIsOpen, OnlyAnEndLosesASession, NoLostWakeup, Open
  <1>3. Init => MapHoldsTheUnanswered /\ WindowIsTold
    BY DEF Init, MapHoldsTheUnanswered, WindowIsTold, LastWordIsTrue, PanelBelievesWhatIsFiled
  <1>4. QED
    BY <1>1, <1>2, <1>3 DEF CInv

\* A step that neither tells the window anything nor files or unfiles a session.
LEMMA SilenceKeeps ==
  ASSUME WindowIsTold, UNCHANGED <<sessions, news, panel, running>>
  PROVE  WindowIsTold'
  BY DEF WindowIsTold, LastWordIsTrue, PanelBelievesWhatIsFiled, WordFor

\* Saying that a session is open while one is filed, or that none is, keeps the
\* window told, as long as no other service loses its session.
LEMMA WordKeeps ==
  ASSUME CInv, NEW v \in Services, NEW r \in BOOLEAN, EmitState(v, r),
         r => sessions'[v] # None,
         \A w \in Services \ {v} : sessions[w] # None => sessions'[w] # None
  PROVE  WindowIsTold' /\ UNCHANGED <<panel, running, cards>>
  <1> DEFINE n == Len(news)
             e == State(v, r)
  <1>1. news' = Append(news, e) /\ UNCHANGED <<panel, running, cards>>
    BY DEF EmitState, SendToWindow
  <1>2. news \in Seq(Events) /\ e \in Events
    BY DEF CInv, WindowIsTold, Events, State
  <1>3. /\ news' \in Seq(Events) /\ Len(news') = n + 1 /\ news'[n + 1] = e /\ n \in Nat
        /\ \A i \in 1..n : news'[i] = news[i]
    BY <1>1, <1>2, AppendProperties
  <1>4. e.kind = "state" /\ e.to = v /\ e.running = r
    BY DEF State
  <1>5. \A i \in 1..n : news[i] \in Events /\ news[i].to \in Services
    BY <1>2 DEF Events
  <1> HIDE DEF n, e
  <1>6. LastWordIsTrue'
    <2>1. SUFFICES ASSUME NEW i \in 1..(n + 1), news'[i].kind = "state", news'[i].running,
                          \A j \in 1..(n + 1) : j > i =>
                            ~(news'[j].kind = "state" /\ news'[j].to = news'[i].to)
                   PROVE  sessions'[news'[i].to] # None
      BY <1>3 DEF LastWordIsTrue
    <2>2. CASE i = n + 1
      BY <1>3, <1>4, <2>1, <2>2
    <2>3. CASE i \in 1..n
      <3>1. news'[i] = news[i] /\ news[i].to # v
        BY <1>3, <1>4, <2>1, <2>3
      <3>2. \A j \in 1..n : j > i => ~(news[j].kind = "state" /\ news[j].to = news[i].to)
        BY <1>3, <2>1, <2>3, <3>1
      <3>3. sessions[news[i].to] # None
        BY <2>1, <2>3, <3>1, <3>2 DEF CInv, WindowIsTold, LastWordIsTrue, n
      <3>4. QED
        BY <1>5, <2>3, <3>1, <3>3
    <2>4. QED
      BY <1>3, <2>1, <2>2, <2>3
  <1>7. PanelBelievesWhatIsFiled'
    <2>1. SUFFICES ASSUME running, ~WordFor(panel)' PROVE panel # None /\ sessions'[panel] # None
      BY <1>1 DEF PanelBelievesWhatIsFiled
    <2>2. panel # v
      BY <1>1, <1>3, <1>4, <2>1 DEF WordFor
    <2>3. ~WordFor(panel)
      BY <1>1, <1>3, <2>1 DEF WordFor, n
    <2>4. panel # None /\ sessions[panel] # None /\ panel \in Services
      BY <2>1, <2>3 DEF CInv, TypeOK, WindowIsTold, PanelBelievesWhatIsFiled
    <2>5. QED
      BY <2>2, <2>4
  <1>8. QED
    BY <1>1, <1>3, <1>6, <1>7 DEF WindowIsTold

\* An approval card is no word on the sessions.
LEMMA CardKeeps ==
  ASSUME CInv, NEW v \in Services, NEW a \in Nat, SendToWindow(Card(v, a)), sessions' = sessions
  PROVE  WindowIsTold' /\ UNCHANGED <<panel, running, cards>>
  <1> DEFINE n == Len(news)
             e == Card(v, a)
  <1>1. news' = Append(news, e) /\ UNCHANGED <<panel, running, cards>>
    BY DEF SendToWindow
  <1>2. news \in Seq(Events) /\ e \in Events
    BY DEF CInv, WindowIsTold, Events, Card
  <1>3. /\ news' \in Seq(Events) /\ Len(news') = n + 1 /\ news'[n + 1] = e /\ n \in Nat
        /\ \A i \in 1..n : news'[i] = news[i]
    BY <1>1, <1>2, AppendProperties
  <1>4. e.kind = "card"
    BY DEF Card
  <1> HIDE DEF e
  <1>5. LastWordIsTrue'
    <2>1. SUFFICES ASSUME NEW i \in 1..(n + 1), news'[i].kind = "state", news'[i].running,
                          \A j \in 1..(n + 1) : j > i =>
                            ~(news'[j].kind = "state" /\ news'[j].to = news'[i].to)
                   PROVE  sessions[news'[i].to] # None
      BY <1>3 DEF LastWordIsTrue
    <2>2. i \in 1..n /\ news'[i] = news[i]
      BY <1>3, <1>4, <2>1
    <2>3. \A j \in 1..n : j > i => ~(news[j].kind = "state" /\ news[j].to = news[i].to)
      BY <1>3, <2>1, <2>2
    <2>4. QED
      BY <2>1, <2>2, <2>3 DEF CInv, WindowIsTold, LastWordIsTrue
  <1>6. WordFor(panel) => WordFor(panel)'
    BY <1>1, <1>3 DEF WordFor
  <1>7. QED
    BY <1>1, <1>3, <1>5, <1>6 DEF CInv, WindowIsTold, PanelBelievesWhatIsFiled

LEMMA HearKeeps ==
  ASSUME CInv, Hear
  PROVE  CInv'
  <1> DEFINE n == Len(news)
  <1>1. /\ news # <<>> /\ news' = Tail(news)
        /\ running' = (IF Head(news).kind = "state" /\ Head(news).to = panel
                         THEN Head(news).running ELSE running)
        /\ UNCHANGED <<mode, sessions, sessionVars, inputVars, askVars, token, panel>>
    BY DEF Hear
  <1>2. news \in Seq(Events) /\ n \in Nat /\ n > 0 /\ Head(news) = news[1] /\ news[1] \in Events
    BY <1>1 DEF CInv, WindowIsTold
  <1>3. /\ news' \in Seq(Events) /\ Len(news') = n - 1
        /\ \A i \in 1..(n - 1) : news'[i] = news[i + 1]
    BY <1>1, <1>2, HeadTailProperties
  <1>4. running' \in BOOLEAN
    BY <1>1, <1>2 DEF CInv, TypeOK, Events
  <1> HIDE DEF n
  <1>5. LastWordIsTrue'
    <2>1. SUFFICES ASSUME NEW i \in 1..(n - 1), news'[i].kind = "state", news'[i].running,
                          \A j \in 1..(n - 1) : j > i =>
                            ~(news'[j].kind = "state" /\ news'[j].to = news'[i].to)
                   PROVE  sessions[news'[i].to] # None
      BY <1>1, <1>3 DEF LastWordIsTrue
    <2>2. i + 1 \in 1..n /\ news'[i] = news[i + 1]
      BY <1>2, <1>3
    <2>3. \A j \in 1..n : j > i + 1 => ~(news[j].kind = "state" /\ news[j].to = news[i + 1].to)
      <3>1. TAKE j \in 1..n
      <3>2. HAVE j > i + 1
      <3>3. j - 1 \in 1..(n - 1) /\ j - 1 > i /\ news'[j - 1] = news[j]
        <4>1. j - 1 \in 1..(n - 1) /\ j - 1 > i /\ (j - 1) + 1 = j
          BY <1>2, <3>2
        <4>2. QED
          BY <1>3, <4>1
      <3>4. QED
        BY <2>1, <2>2, <3>3
    <2>4. QED
      BY <2>1, <2>2, <2>3 DEF CInv, WindowIsTold, LastWordIsTrue, n
  <1>6. PanelBelievesWhatIsFiled'
    <2>1. SUFFICES ASSUME running', ~WordFor(panel)' PROVE panel # None /\ sessions[panel] # None
      BY <1>1 DEF PanelBelievesWhatIsFiled
    <2>2. \A j \in 1..n : j > 1 => ~(news[j].kind = "state" /\ news[j].to = panel)
      <3>1. TAKE j \in 1..n
      <3>2. HAVE j > 1
      <3>3. j - 1 \in 1..(n - 1) /\ (j - 1) + 1 = j
        BY <1>2, <3>2
      <3>4. news'[j - 1] = news[j]
        BY <1>3, <3>3
      <3>5. QED
        BY <1>1, <1>3, <2>1, <3>3, <3>4 DEF WordFor
    <2>3. CASE news[1].kind = "state" /\ news[1].to = panel
      <3>1. 1 \in 1..n /\ news[1].running
        <4>1. running' = news[1].running
          BY <1>1, <1>2, <2>3
        <4>2. news[1].running
          BY <2>1, <4>1, Zenon
        <4>3. QED
          BY <1>2, <4>2
      <3>2. sessions[news[1].to] # None
        BY <2>2, <2>3, <3>1 DEF CInv, WindowIsTold, LastWordIsTrue, n
      <3>3. panel \in Services
        BY <1>2, <2>3 DEF Events
      <3>4. QED
        BY <2>3, <3>2, <3>3, NoneAssumption
    <2>4. CASE ~(news[1].kind = "state" /\ news[1].to = panel)
      <3>1. \A j \in 1..n : ~(news[j].kind = "state" /\ news[j].to = panel)
        BY <1>2, <2>2, <2>4
      <3>2. running /\ ~WordFor(panel)
        BY <1>1, <1>2, <2>1, <2>4, <3>1 DEF WordFor, n
      <3>3. QED
        BY <3>2 DEF CInv, WindowIsTold, PanelBelievesWhatIsFiled
    <2>5. QED
      BY <2>3, <2>4
  <1>7. TypeOK' /\ Numbered'
    BY <1>1, <1>4 DEF CInv, TypeOK, Numbered, sessionVars, inputVars, askVars
  <1>8. FiledSessionIsOpen' /\ OnlyAnEndLosesASession' /\ NoLostWakeup' /\ MapHoldsTheUnanswered'
    BY <1>1 DEF CInv, FiledSessionIsOpen, OnlyAnEndLosesASession, NoLostWakeup,
       MapHoldsTheUnanswered, Open, sessionVars, inputVars, askVars
  <1>9. QED
    BY <1>3, <1>5, <1>6, <1>7, <1>8 DEF CInv, WindowIsTold

LEMMA OpenKeeps ==
  ASSUME CInv, NEW v \in Services, OpenSession(v)
  PROVE  CInv'
  <1>1. CASE UNCHANGED vars
    BY <1>1, SilenceKeeps DEF CInv, vars, sessionVars, inputVars, askVars, windowVars, TypeOK,
       Numbered, FiledSessionIsOpen, OnlyAnEndLosesASession, NoLostWakeup,
       MapHoldsTheUnanswered, Open
  <1>2. CASE mode # "off" /\ sessions[v] = None /\ opened < MaxSessions
    <2> DEFINE s == opened + 1
    <2>0. s \in Session
      BY <1>2, BoundsAssumption DEF CInv, TypeOK, Session
    <2>1. /\ opened' = s
          /\ sessions' = [sessions EXCEPT ![v] = s] /\ svcOf' = [svcOf EXCEPT ![s] = v]
          /\ phase' = [phase EXCEPT ![s] = "loading"]
          /\ pending' = [pending EXCEPT ![s] = @ + 1] /\ parked' = [parked EXCEPT ![s] = FALSE]
          /\ EmitState(v, TRUE)
          /\ UNCHANGED <<closed, mode, aborted, fix, talk, askVars, token>>
      BY <1>2 DEF OpenSession, PushInput
    <2>a. WindowIsTold' /\ UNCHANGED <<panel, running, cards>>
      <3>1. s # None /\ DOMAIN sessions = Services
        BY <2>0, NamesAssumption DEF CInv, TypeOK
      <3>2. /\ sessions'[v] # None
            /\ \A w \in Services \ {v} : sessions[w] # None => sessions'[w] # None
        BY <2>1, <3>1
      <3>3. EmitState(v, TRUE)
        BY <2>1
      <3>4. QED
        BY <3>2, <3>3, WordKeeps
    <2>2. phase[s] = "unborn" /\ ~aborted[s]
      BY <2>0, <2>1 DEF CInv, Numbered, TypeOK
    <2>3. TypeOK'
      <3>1. sessions' \in [Services -> Session \cup {None}] /\ opened' \in Nat
        BY <2>0, <2>1 DEF CInv, TypeOK
      <3>2. svcOf' \in [Session -> Services] /\ phase' \in [Session -> Phases]
        BY <2>0, <2>1 DEF CInv, TypeOK, Phases
      <3>3. pending' \in [Session -> Nat] /\ parked' \in [Session -> BOOLEAN]
        BY <2>0, <2>1 DEF CInv, TypeOK
      <3>4. QED
        BY <2>1, <2>a, <3>1, <3>2, <3>3 DEF CInv, TypeOK, askVars
    <2>4. Numbered'
      BY <2>0, <2>1 DEF CInv, TypeOK, Numbered, askVars, Session
    <2>5. FiledSessionIsOpen'
      BY <2>0, <2>1, <2>2, NamesAssumption DEF CInv, TypeOK, Numbered, FiledSessionIsOpen, Open, Session
    <2>6. OnlyAnEndLosesASession'
      BY <1>2, <2>0, <2>1, <2>2, NamesAssumption DEF CInv, TypeOK, OnlyAnEndLosesASession, Open
    <2>7. NoLostWakeup'
      BY <2>0, <2>1 DEF CInv, TypeOK, NoLostWakeup
    <2>8. MapHoldsTheUnanswered'
      BY <2>1 DEF CInv, MapHoldsTheUnanswered, askVars
    <2>9. QED
      BY <2>a, <2>3, <2>4, <2>5, <2>6, <2>7, <2>8 DEF CInv
  <1>3. QED
    BY <1>1, <1>2 DEF OpenSession

LEMMA SendKeeps ==
  ASSUME CInv, NEW v \in Services, Send(v)
  PROVE  CInv'
  <1>1. CASE sessions[v] = None
    BY <1>1, OpenKeeps DEF Send
  <1>2. CASE sessions[v] # None
    <2>1. /\ panel = v
          /\ pending' = [pending EXCEPT ![sessions[v]] = @ + 1]
          /\ parked'  = [parked EXCEPT ![sessions[v]] = FALSE]
          /\ EmitState(v, TRUE) /\ sessions[v] \in Session
          /\ UNCHANGED <<closed, mode, sessions, sessionVars, askVars, token>>
      BY <1>2 DEF Send, PushInput, CInv, TypeOK
    <2>a. WindowIsTold' /\ UNCHANGED <<panel, running, cards>>
      BY <1>2, <2>1, WordKeeps
    <2>2. TypeOK' /\ Numbered'
      BY <2>1, <2>a DEF CInv, TypeOK, Numbered, sessionVars, askVars
    <2>3. FiledSessionIsOpen' /\ OnlyAnEndLosesASession'
      BY <2>1 DEF CInv, FiledSessionIsOpen, OnlyAnEndLosesASession, Open, sessionVars
    <2>4. NoLostWakeup'
      BY <2>1 DEF CInv, TypeOK, NoLostWakeup
    <2>5. MapHoldsTheUnanswered'
      BY <2>1 DEF CInv, MapHoldsTheUnanswered, askVars
    <2>6. QED
      BY <2>a, <2>2, <2>3, <2>4, <2>5 DEF CInv
  <1>3. QED
    BY <1>1, <1>2

\* Whatever the Stop button finds, every request that was waiting is answered.
LEMMA StopKeeps ==
  ASSUME CInv, NEW v \in Services, Stop(v)
  PROVE  CInv'
  <1>1. /\ verdict' = [a \in Ask |-> IF a \in approvals THEN "deny" ELSE verdict[a]]
        /\ approvals' = {} /\ UNCHANGED <<asked, askOf>>
    BY DEF Stop, RejectAll
  <1>2. MapHoldsTheUnanswered'
    BY <1>1 DEF CInv, TypeOK, MapHoldsTheUnanswered
  <1>3. \A a \in Ask : verdict'[a] = "none" <=> a > asked'
    BY <1>1 DEF CInv, TypeOK, Numbered, MapHoldsTheUnanswered
  <1>4. verdict' \in [Ask -> {"none", "pending", "allow", "deny"}] /\ approvals' \in SUBSET Ask
        /\ asked' \in Nat /\ askOf' \in [Ask -> Nat]
    BY <1>1 DEF CInv, TypeOK
  <1>5. CASE sessions[v] = None
    <2>1. UNCHANGED <<mode, sessions, sessionVars, inputVars, token, windowVars>>
      BY <1>5 DEF Stop
    <2>2. TypeOK' /\ Numbered'
      BY <1>3, <1>4, <2>1
      DEF CInv, TypeOK, Numbered, sessionVars, inputVars, windowVars
    <2>3. FiledSessionIsOpen' /\ OnlyAnEndLosesASession' /\ NoLostWakeup' /\ WindowIsTold'
      BY <2>1, SilenceKeeps DEF CInv, FiledSessionIsOpen, OnlyAnEndLosesASession, NoLostWakeup,
         Open, sessionVars, inputVars, windowVars
    <2>4. QED
      BY <1>2, <2>2, <2>3 DEF CInv
  <1>6. CASE sessions[v] # None
    <2> DEFINE s == sessions[v]
    <2>1. /\ sessions' = [sessions EXCEPT ![v] = None]
          /\ closed'   = [closed EXCEPT ![s] = TRUE]
          /\ parked'   = [parked EXCEPT ![s] = FALSE]
          /\ aborted'  = [aborted EXCEPT ![s] = TRUE]
          /\ EmitState(v, FALSE) /\ s \in Session
          /\ UNCHANGED <<mode, pending, opened, svcOf, phase, fix, talk, token>>
      BY <1>6 DEF Stop, CInv, TypeOK
    <2>a. WindowIsTold' /\ UNCHANGED <<panel, running, cards>>
      <3>1. \A w \in Services \ {v} : sessions[w] # None => sessions'[w] # None
        BY <2>1 DEF CInv, TypeOK
      <3>2. QED
        BY <2>1, <3>1, WordKeeps
    <2>2. svcOf[s] = v /\ phase[s] # "unborn"
      BY <1>6 DEF CInv, FiledSessionIsOpen, Open
    <2>3. TypeOK' /\ Numbered'
      <3>1. TypeOK'
        BY <1>4, <2>1, <2>a DEF CInv, TypeOK
      <3>2. Numbered'
        BY <1>3, <2>1, <2>2 DEF CInv, TypeOK, Numbered
      <3>3. QED
        BY <3>1, <3>2
    <2>4. FiledSessionIsOpen'
      BY <2>1, <2>2 DEF CInv, TypeOK, FiledSessionIsOpen, Open
    <2>5. OnlyAnEndLosesASession'
      <3>1. SUFFICES ASSUME NEW t \in Session, Open(t), ~aborted'[t], sessions'[svcOf[t]] # t
                     PROVE  \E u \in Session \ {t} : svcOf[u] = svcOf[t] /\ phase[u] = "over" /\ aborted'[u]
        BY <2>1 DEF OnlyAnEndLosesASession, Open
      <3>2. ~aborted[t] /\ sessions[svcOf[t]] # t
        BY <2>1, <2>2, <3>1 DEF CInv, TypeOK
      <3>3. QED
        BY <2>1, <3>1, <3>2 DEF CInv, TypeOK, OnlyAnEndLosesASession
    <2>6. NoLostWakeup'
      BY <2>1 DEF CInv, TypeOK, NoLostWakeup
    <2>7. QED
      BY <1>2, <2>a, <2>3, <2>4, <2>5, <2>6 DEF CInv
  <1>7. QED
    BY <1>5, <1>6

\* A verdict changes nothing but its own request, which leaves the map with it.
LEMMA ApproveKeeps ==
  ASSUME CInv, NEW a \in Ask, NEW allow \in BOOLEAN, Approve(a, allow)
  PROVE  CInv'
  <1>1. UNCHANGED <<mode, sessions, sessionVars, inputVars, asked, askOf, token, news, panel, running>>
    BY DEF Approve
  <1>2. FiledSessionIsOpen' /\ OnlyAnEndLosesASession' /\ NoLostWakeup' /\ WindowIsTold'
    BY <1>1, SilenceKeeps DEF CInv, FiledSessionIsOpen, OnlyAnEndLosesASession, NoLostWakeup,
       Open, sessionVars, inputVars
  <1>3. CASE a \in approvals /\ approvals' = approvals \ {a}
             /\ verdict' = [verdict EXCEPT ![a] = IF allow THEN "allow" ELSE "deny"]
    <2>1. TypeOK' /\ Numbered'
      BY <1>1, <1>3 DEF CInv, TypeOK, Numbered, MapHoldsTheUnanswered, sessionVars, inputVars
    <2>2. MapHoldsTheUnanswered'
      BY <1>3 DEF CInv, TypeOK, MapHoldsTheUnanswered
    <2>3. QED
      BY <1>2, <2>1, <2>2 DEF CInv
  <1>4. CASE UNCHANGED <<approvals, verdict>>
    <2>1. TypeOK' /\ Numbered' /\ MapHoldsTheUnanswered'
      BY <1>1, <1>4 DEF CInv, TypeOK, Numbered, MapHoldsTheUnanswered, sessionVars, inputVars
    <2>2. QED
      BY <1>2, <2>1 DEF CInv
  <1>5. QED
    BY <1>3, <1>4 DEF Approve

\* What leaves the sessions, their inputs and the requests alone.
LEMMA PageKeeps ==
  ASSUME CInv,
         \/ \E m \in Choices : SetMode(m)
         \/ \E v \in Services : Clear(v)
         \/ \E v \in Services \cup {None} : Mount(v)
  PROVE  CInv'
  <1>1. UNCHANGED <<sessions, sessionVars, inputVars, askVars, news>>
    BY DEF SetMode, Clear, Mount, windowVars
  <1>2. mode' \in Modes /\ token' \in [Services -> Saved]
        /\ panel' \in Services \cup {None} /\ running' \in BOOLEAN
        /\ (running' => panel' = panel /\ running)
    <2>1. CASE \E m \in Choices : SetMode(m)
      BY <2>1, ChoicesAssumption DEF SetMode, CInv, TypeOK, Modes, windowVars
    <2>2. CASE \E v \in Services : Clear(v)
      BY <2>2, SavedOnes DEF Clear, CInv, TypeOK, windowVars
    <2>3. CASE \E v \in Services \cup {None} : Mount(v)
      BY <2>3 DEF Mount, CInv, TypeOK
    <2>4. QED
      BY <2>1, <2>2, <2>3
  <1>3. TypeOK' /\ Numbered'
    BY <1>1, <1>2 DEF CInv, TypeOK, Numbered, sessionVars, inputVars, askVars
  <1>4. /\ FiledSessionIsOpen' /\ OnlyAnEndLosesASession' /\ NoLostWakeup'
        /\ MapHoldsTheUnanswered' /\ WindowIsTold'
    BY <1>1, <1>2 DEF CInv, FiledSessionIsOpen, OnlyAnEndLosesASession, NoLostWakeup,
       MapHoldsTheUnanswered, WindowIsTold, LastWordIsTrue, PanelBelievesWhatIsFiled, WordFor,
       Open, sessionVars, inputVars, askVars
  <1>5. QED
    BY <1>3, <1>4 DEF CInv

-----------------------------------------------------------------------------
(* What a session does between its awaits.                                 *)

\* The SDK is loaded and the saved conversation looked up: an open session stays one.
LEMMA WakesKeep ==
  ASSUME CInv, NEW s \in Session, Loaded(s) \/ Checked(s)
  PROVE  CInv'
  <1>1. /\ UNCHANGED <<mode, sessions, opened, svcOf, aborted, inputVars, askVars, windowVars>>
        /\ Open(s)
    BY DEF Loaded, Checked, Open
  <1>2. PICK p \in {"checking", "streaming"} : phase' = [phase EXCEPT ![s] = p]
    BY DEF Loaded, Checked
  <1>3. /\ fix' \in [Session -> BOOLEAN] /\ talk' \in [Session -> Saved]
        /\ token' \in [Services -> Saved]
    <2>1. svcOf[s] \in Services /\ token[svcOf[s]] \in Saved
      BY DEF CInv, TypeOK
    <2>2. CASE Loaded(s)
      BY <2>1, <2>2 DEF Loaded, CInv, TypeOK
    <2>3. CASE Checked(s)
      BY <2>1, <2>3, SavedOnes DEF Checked, CInv, TypeOK
    <2>4. QED
      BY <2>2, <2>3
  <1>4. TypeOK' /\ Numbered'
    <2>1. TypeOK'
      BY <1>1, <1>2, <1>3 DEF CInv, TypeOK, Phases, inputVars, askVars, windowVars
    <2>2. Numbered'
      BY <1>1, <1>2 DEF CInv, TypeOK, Numbered, Open, askVars
    <2>3. QED
      BY <2>1, <2>2
  <1>5. /\ DOMAIN phase = Session /\ Open(s)' /\ phase'[s] # "over"
        /\ \A t \in Session \ {s} : phase'[t] = phase[t] /\ (Open(t)' <=> Open(t))
    BY <1>2 DEF CInv, TypeOK, Open
  <1>6. FiledSessionIsOpen'
    BY <1>1, <1>5 DEF CInv, TypeOK, FiledSessionIsOpen, Open
  <1>7. OnlyAnEndLosesASession'
    BY <1>1, <1>5 DEF CInv, OnlyAnEndLosesASession, Open
  <1>8. NoLostWakeup' /\ MapHoldsTheUnanswered' /\ WindowIsTold'
    BY <1>1, SilenceKeeps DEF CInv, NoLostWakeup, MapHoldsTheUnanswered, inputVars, askVars, windowVars
  <1>9. QED
    BY <1>4, <1>6, <1>7, <1>8 DEF CInv

\* Only a generator with nothing to read waits.
LEMMA ReadKeeps ==
  ASSUME CInv, NEW s \in Session, ReadTurn(s)
  PROVE  CInv'
  <1>1. UNCHANGED <<mode, sessions, sessionVars, closed, askVars, token, windowVars>>
    BY DEF ReadTurn
  <1>2. \/ pending[s] > 0 /\ pending' = [pending EXCEPT ![s] = @ - 1] /\ parked' = parked
        \/ /\ pending[s] = 0 /\ ~closed[s]
           /\ parked' = [parked EXCEPT ![s] = TRUE] /\ pending' = pending
    BY DEF ReadTurn
  <1>3. ~parked[s]
    BY DEF ReadTurn
  <1>4. pending' \in [Session -> Nat] /\ parked' \in [Session -> BOOLEAN] /\ NoLostWakeup'
    <2>1. CASE pending[s] > 0 /\ pending' = [pending EXCEPT ![s] = @ - 1] /\ parked' = parked
      BY <1>1, <1>3, <2>1 DEF CInv, TypeOK, NoLostWakeup
    <2>2. CASE /\ pending[s] = 0 /\ ~closed[s]
               /\ parked' = [parked EXCEPT ![s] = TRUE] /\ pending' = pending
      BY <1>1, <2>2 DEF CInv, TypeOK, NoLostWakeup
    <2>3. QED
      BY <1>2, <2>1, <2>2
  <1>5. TypeOK' /\ Numbered'
    BY <1>1, <1>4 DEF CInv, TypeOK, Numbered, sessionVars, askVars, windowVars
  <1>6. /\ FiledSessionIsOpen' /\ OnlyAnEndLosesASession'
        /\ MapHoldsTheUnanswered' /\ WindowIsTold'
    BY <1>1, SilenceKeeps DEF CInv, FiledSessionIsOpen, OnlyAnEndLosesASession, MapHoldsTheUnanswered,
       Open, sessionVars, askVars, windowVars
  <1>7. QED
    BY <1>4, <1>5, <1>6 DEF CInv

\* The messages of the engine tell the panel of a session only while one is filed.
LEMMA MessagesKeep ==
  ASSUME CInv, NEW s \in Session, InitMessage(s) \/ ResultMessage(s)
  PROVE  CInv'
  <1>1. UNCHANGED <<mode, sessions, sessionVars, inputVars, askVars>>
    BY DEF InitMessage, ResultMessage
  <1>2. /\ token' \in [Services -> Saved]
        /\ WindowIsTold' /\ UNCHANGED <<panel, running>>
    <2>1. CASE InitMessage(s)
      <3>1. PICK k \in Saved : token' = [token EXCEPT ![svcOf[s]] = k]
        BY <2>1, SavedOnes DEF InitMessage, CInv, TypeOK
      <3>2. token' \in [Services -> Saved]
        BY <3>1 DEF CInv, TypeOK
      <3>3. WindowIsTold' /\ UNCHANGED <<panel, running>>
        BY <2>1, SilenceKeeps DEF InitMessage, CInv, windowVars
      <3>4. QED
        BY <3>2, <3>3
    <2>2. CASE ResultMessage(s)
      <3>1. /\ sessions[svcOf[s]] # None /\ svcOf[s] \in Services
            /\ EmitState(svcOf[s], TRUE) /\ UNCHANGED <<token, sessions>>
        BY <2>2 DEF ResultMessage, CInv, TypeOK
      <3>2. WindowIsTold' /\ UNCHANGED <<panel, running>>
        BY <3>1, WordKeeps
      <3>3. QED
        BY <3>1, <3>2 DEF CInv, TypeOK
    <2>3. QED
      BY <2>1, <2>2
  <1>3. TypeOK' /\ Numbered'
    BY <1>1, <1>2 DEF CInv, TypeOK, Numbered, sessionVars, inputVars, askVars
  <1>4. FiledSessionIsOpen' /\ OnlyAnEndLosesASession' /\ NoLostWakeup' /\ MapHoldsTheUnanswered'
    BY <1>1 DEF CInv, FiledSessionIsOpen, OnlyAnEndLosesASession, NoLostWakeup,
       MapHoldsTheUnanswered, Open, sessionVars, inputVars, askVars
  <1>5. QED
    BY <1>2, <1>3, <1>4 DEF CInv

LEMMA AskKeeps ==
  ASSUME CInv, NEW s \in Session, RequestApproval(s)
  PROVE  CInv'
  <1> DEFINE a == asked + 1
  <1>1. /\ a \in Ask /\ asked' = a /\ approvals' = approvals \cup {a}
        /\ askOf' = [askOf EXCEPT ![a] = s] /\ verdict' = [verdict EXCEPT ![a] = "pending"]
        /\ SendToWindow(Card(svcOf[s], a))
        /\ UNCHANGED <<mode, sessions, sessionVars, inputVars, token>>
    BY BoundsAssumption DEF RequestApproval, CInv, TypeOK, Ask
  <1>0. WindowIsTold' /\ UNCHANGED <<panel, running, cards>>
    <2>1. a \in Nat /\ svcOf[s] \in Services
      BY DEF CInv, TypeOK
    <2>2. QED
      BY <1>1, <2>1, CardKeeps
  <1>2. TypeOK'
    BY <1>0, <1>1 DEF CInv, TypeOK, Session, sessionVars, inputVars
  <1>3. Numbered'
    BY <1>1 DEF CInv, TypeOK, Numbered, Ask, sessionVars
  <1>4. MapHoldsTheUnanswered'
    BY <1>1 DEF CInv, TypeOK, MapHoldsTheUnanswered
  <1>5. FiledSessionIsOpen' /\ OnlyAnEndLosesASession' /\ NoLostWakeup'
    BY <1>1 DEF CInv, FiledSessionIsOpen, OnlyAnEndLosesASession, NoLostWakeup,
       Open, sessionVars, inputVars
  <1>6. QED
    BY <1>0, <1>2, <1>3, <1>4, <1>5 DEF CInv

\* The end of a session, stopped or not, unfiles whatever its service has filed.
\* If that was another session, the one that ends had been stopped, or had been
\* lost to the end of one that had.
LEMMA FinishKeeps ==
  ASSUME CInv, NEW s \in Session, Finish(s)
  PROVE  CInv'
  <1>1. /\ Open(s) /\ phase' = [phase EXCEPT ![s] = "over"]
        /\ sessions' = [sessions EXCEPT ![svcOf[s]] = None]
        /\ EmitState(svcOf[s], FALSE)
        /\ UNCHANGED <<mode, opened, svcOf, aborted, fix, talk, inputVars, askVars, token>>
    BY DEF Finish, Open
  <1>2. svcOf[s] \in Services
    BY DEF CInv, TypeOK
  <1>0. WindowIsTold' /\ UNCHANGED <<panel, running, cards>>
    <2>1. \A w \in Services \ {svcOf[s]} : sessions[w] # None => sessions'[w] # None
      BY <1>1 DEF CInv, TypeOK
    <2>2. QED
      BY <1>1, <1>2, <2>1, WordKeeps
  <1>3. TypeOK'
    BY <1>0, <1>1, <1>2 DEF CInv, TypeOK, Phases, inputVars, askVars
  <1>4. Numbered'
    BY <1>1 DEF CInv, TypeOK, Numbered, Open, askVars
  <1>5. FiledSessionIsOpen'
    BY <1>1, <1>2 DEF CInv, TypeOK, FiledSessionIsOpen, Open
  <1>6. OnlyAnEndLosesASession'
    <2>1. SUFFICES ASSUME NEW t \in Session, Open(t)', ~aborted[t], sessions'[svcOf[t]] # t
                   PROVE  \E u \in Session \ {t} : svcOf[u] = svcOf[t] /\ phase'[u] = "over" /\ aborted[u]
      BY <1>1 DEF OnlyAnEndLosesASession, Open
    <2>2. t # s /\ Open(t)
      BY <1>1, <2>1 DEF Open, CInv, TypeOK
    <2>3. phase'[s] = "over" /\ \A u \in Session : phase[u] = "over" => phase'[u] = "over"
      BY <1>1 DEF CInv, TypeOK
    <2>4. CASE sessions[svcOf[t]] = t
      <3>1. svcOf[t] = svcOf[s] /\ sessions[svcOf[s]] # s
        BY <1>1, <1>2, <2>1, <2>2, <2>4 DEF CInv, TypeOK
      <3>2. CASE aborted[s]
        BY <2>2, <2>3, <3>1, <3>2
      <3>3. CASE ~aborted[s]
        <4>1. PICK u \in Session \ {s} : svcOf[u] = svcOf[s] /\ phase[u] = "over" /\ aborted[u]
          BY <1>1, <3>1, <3>3 DEF CInv, OnlyAnEndLosesASession
        <4>2. u # t
          BY <2>2, <4>1 DEF Open
        <4>3. QED
          BY <2>3, <3>1, <4>1, <4>2
      <3>4. QED
        BY <3>2, <3>3
    <2>5. CASE sessions[svcOf[t]] # t
      <3>1. PICK u \in Session \ {t} : svcOf[u] = svcOf[t] /\ phase[u] = "over" /\ aborted[u]
        BY <2>1, <2>2, <2>5 DEF CInv, OnlyAnEndLosesASession
      <3>2. QED
        BY <2>3, <3>1
    <2>6. QED
      BY <2>4, <2>5
  <1>8. NoLostWakeup' /\ MapHoldsTheUnanswered'
    BY <1>1 DEF CInv, NoLostWakeup, MapHoldsTheUnanswered, inputVars, askVars
  <1>9. QED
    BY <1>0, <1>3, <1>4, <1>5, <1>6, <1>8 DEF CInv

-----------------------------------------------------------------------------
LEMMA NextCInv == CInv /\ [Next]_vars => CInv'
  <1>1. SUFFICES ASSUME CInv, [Next]_vars PROVE CInv'
    OBVIOUS
  <1>2. CASE User
    <2>1. CASE \E m \in Choices : SetMode(m)
      BY <1>1, <2>1, PageKeeps
    <2>2. CASE \E v \in Services : Start(v) \/ Send(v)
      BY <1>1, <2>2, OpenKeeps, SendKeeps DEF Start
    <2>3. CASE \E v \in Services : Stop(v)
      BY <1>1, <2>3, StopKeeps
    <2>4. CASE \/ \E v \in Services : Clear(v)
               \/ \E v \in Services \cup {None} : Mount(v)
      BY <1>1, <2>4, PageKeeps
    <2>5. CASE \E a \in Ask, allow \in BOOLEAN : Approve(a, allow)
      BY <1>1, <2>5, ApproveKeeps
    <2>6. CASE Hear
      BY <1>1, <2>6, HearKeeps
    <2>7. QED
      BY <1>2, <2>1, <2>2, <2>3, <2>4, <2>5, <2>6 DEF User
  <1>3. CASE Engine
    <2>1. CASE \E s \in Session : Loaded(s) \/ Checked(s)
      BY <1>1, <2>1, WakesKeep
    <2>2. CASE \E s \in Session : ReadTurn(s) \/ RequestApproval(s) \/ Finish(s)
      BY <1>1, <2>2, ReadKeeps, AskKeeps, FinishKeeps
    <2>3. CASE \E s \in Session : InitMessage(s) \/ ResultMessage(s)
      BY <1>1, <2>3, MessagesKeep
    <2>4. CASE \E v \in Services : OnStageFailed(v)
      BY <1>1, <2>4, OpenKeeps DEF OnStageFailed
    <2>5. QED
      BY <1>3, <2>1, <2>2, <2>3, <2>4 DEF Engine
  <1>4. CASE UNCHANGED vars
    BY <1>1, <1>4, SilenceKeeps DEF CInv, vars, sessionVars, inputVars, askVars, windowVars,
       TypeOK, Numbered, FiledSessionIsOpen, OnlyAnEndLosesASession, NoLostWakeup,
       MapHoldsTheUnanswered, Open
  <1>5. QED
    BY <1>1, <1>2, <1>3, <1>4 DEF Next

LEMMA ClaudeAlways == Spec => []CInv
  BY InitCInv, NextCInv, PTL DEF Spec

\* What stop() and send() find under a service is its newest session, neither
\* stopped nor over, however many open() calls are between two of their awaits.
THEOREM FiledIsOpen == Spec => []FiledSessionIsOpen
  BY ClaudeAlways, PTL DEF CInv

\* No handler but the `finally' of a stopped session of the service loses a
\* session nobody stopped.
THEOREM OnlyEndsLose == Spec => []OnlyAnEndLosesASession
  BY ClaudeAlways, PTL DEF CInv

\* A generator that waits has nothing to read and has not been told to end.
THEOREM WakeupsAreKept == Spec => []NoLostWakeup
  BY ClaudeAlways, PTL DEF CInv

\* The map of approvals is the set of the requests still unanswered.
THEOREM UnansweredAreHeld == Spec => []MapHoldsTheUnanswered
  BY ClaudeAlways, PTL DEF CInv

\* However late its events are delivered, a panel that has heard all there is to
\* hear of its service believes in no session that is not filed.
THEOREM PanelIsRight == Spec => []PanelBelievesWhatIsFiled
  BY ClaudeAlways, PTL DEF CInv, WindowIsTold

\* `No-op if mode is off or already running' (claudeAgent.ts:106) holds for as long
\* as no stopped session has ended: until then no service has two sessions that
\* have neither ended nor been stopped, whatever is opened, sent or asked.
THEOREM OneSessionUnlessStopped ==
  Spec => [](\/ \E t \in Session : phase[t] = "over" /\ aborted[t]
             \/ OneSessionPerService)
  <1>1. CInv => \/ \E t \in Session : phase[t] = "over" /\ aborted[t]
                \/ OneSessionPerService
    <2>1. SUFFICES ASSUME CInv, \A t \in Session : ~(phase[t] = "over" /\ aborted[t])
                   PROVE  OneSessionPerService
      OBVIOUS
    <2>2. \A s \in Session : Open(s) /\ ~aborted[s] => sessions[svcOf[s]] = s
      BY <2>1 DEF CInv, OnlyAnEndLosesASession
    <2>3. QED
      BY <2>2 DEF OneSessionPerService
  <1>2. QED
    BY <1>1, ClaudeAlways, PTL
=============================================================================
