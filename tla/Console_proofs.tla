--------------------------- MODULE Console_proofs ----------------------------
(***************************************************************************)
(* Proofs about three parts of the console's window.                       *)
(*                                                                         *)
(* CloudMonitor, for any accounts, windows, bins and number of selections  *)
(* and reloads: no function is invoked on a real account, the charts fit   *)
(* their window, and the set that decides about beeps is the set of alerts *)
(* on show.                                                                *)
(*                                                                         *)
(* WatchSync, for any number of files, calls, builds and uploads: the busy *)
(* flag keeps uploads apart as long as there is one sync.  While only one  *)
(* call has got past its look for the bucket, the sync in the map can only *)
(* be that call's, so an upload under way has the flag of whatever is in   *)
(* the map set, and doSync() begins no other.  And such a sync misses a    *)
(* build only through that flag.                                           *)
(*                                                                         *)
(* LogFeed, for any streams, rings, mounts and lines: a view that has      *)
(* received all that was sent shows the end of what the store keeps.  The  *)
(* lines of a stream are numbered, so each list here is a run of numbers,  *)
(* and the invariant says which: what a ring keeps, what the last message  *)
(* to replace the view's lines holds, and that the lines of the stream     *)
(* still on the channel go on from there.                                  *)
(***************************************************************************)
EXTENDS CloudMonitor, WatchSync, LogFeed, FiniteSetTheorems, SequenceTheorems,
        TLAPS

-----------------------------------------------------------------------------
(* The cloud target and the metrics                                        *)

\* A cached client is for the target the main process has now: setTarget() drops
\* all of them in the same step.
ClientsAreCurrent ==
  \A x \in SdkClients : clients[x] \in {None, target}

Snapshots == [of : Sources, cpu : Sources, samples : Nat, hot : BOOLEAN,
              loaded : BOOLEAN, bins : Nat]
Polls     == [of : Sources, cpu : Sources]

\* The parts of the type invariant the proofs need.
MainTyped ==
  /\ target \in Targets /\ view \in Targets
  /\ clients \in [SdkClients -> Targets \cup {None}]
  /\ answers \subseteq Nat \X Targets
  /\ calls \in Nat

WindowTyped ==
  window \in Windows /\ snap \in Snapshots /\ poll \in Polls

\* What metricsStore is armed for is what the window shows.
ArmedForTheView ==
  lastKind = KindOf(view) /\ lastBins = BinsFor[KindOf(view)][window]

\* The inductive invariants: of the main process, and of the window, which uses
\* the first.
MainInv    == MainTyped /\ ClientsAreCurrent /\ RealAccountIsNotInvoked
MetricsInv == WindowTyped /\ ArmedForTheView /\ HistoryFitsTheWindow /\ BeepsFollowAlerts

LEMMA KindInKind == \A t : KindOf(t) \in Kind
  BY DEF KindOf, Kind

LEMMA BinsInNat ==
  ASSUME NEW t, NEW w \in Windows
  PROVE  BinsFor[KindOf(t)][w] \in Nat /\ BinsFor[KindOf(t)][w] > 0
<1>1. BinsFor[KindOf(t)] \in [Windows -> Nat \ {0}]
  BY KindInKind, BinsAssumption
<1>2. QED
  BY <1>1

LEMMA NothingIsTyped ==
  ASSUME NEW b \in Nat
  PROVE  Nothing(b) \in Snapshots
  BY DEF Nothing, Sources, Snapshots

-----------------------------------------------------------------------------
(* The clients                                                             *)

\* The target a client is for when it is used is the present one, and using it
\* leaves it, and the others, current.
LEMMA UseIsCurrent ==
  ASSUME MainTyped, ClientsAreCurrent, NEW x \in SdkClients
  PROVE  /\ ClientOf(x) = target
         /\ Use(x) /\ target' = target =>
              /\ clients' \in [SdkClients -> Targets \cup {None}]
              /\ \A y \in SdkClients : clients'[y] \in {None, target'}
<1>1. ClientOf(x) = target
  BY DEF MainTyped, ClientsAreCurrent, ClientOf
<1>2. ASSUME Use(x), target' = target
      PROVE  /\ clients' \in [SdkClients -> Targets \cup {None}]
             /\ \A y \in SdkClients : clients'[y] \in {None, target'}
  <2>1. clients' = [clients EXCEPT ![x] = target]
    BY <1>1, <1>2 DEF Use
  <2>2. QED
    BY <2>1, <1>2 DEF MainTyped, ClientsAreCurrent
<1>3. QED
  BY <1>1, <1>2

\* poll() uses the ECS client or none.
LEMMA PollIsCurrent ==
  ASSUME MainTyped, ClientsAreCurrent, NEW v, Poll(v), target' = target
  PROVE  /\ clients' \in [SdkClients -> Targets \cup {None}]
         /\ \A y \in SdkClients : clients'[y] \in {None, target'}
<1>1. "ecs" \in SdkClients
  BY DEF SdkClients
<1>2. CASE UNCHANGED clients
  BY <1>2 DEF MainTyped, ClientsAreCurrent
<1>3. CASE Use("ecs")
  BY <1>1, <1>3, UseIsCurrent
<1>4. QED
  BY <1>2, <1>3 DEF Poll

\* rearm() polls or touches no client.
LEMMA RearmIsCurrent ==
  ASSUME MainTyped, ClientsAreCurrent, NEW v, NEW w, Rearm(v, w), target' = target
  PROVE  /\ clients' \in [SdkClients -> Targets \cup {None}]
         /\ \A y \in SdkClients : clients'[y] \in {None, target'}
<1>1. CASE Poll(v)
  BY <1>1, PollIsCurrent
<1>2. CASE UNCHANGED clients
  BY <1>2 DEF MainTyped, ClientsAreCurrent
<1>3. QED
  BY <1>1, <1>2 DEF Rearm, KindChanged, Recapped

-----------------------------------------------------------------------------
(* The window                                                              *)

\* What poll() asks is of a source.
LEMMA PollIsTyped ==
  ASSUME MainInv, MetricsInv, NEW v, Poll(v)
  PROVE  poll' \in Polls
<1>1. ClientOf("ecs") = target
  BY UseIsCurrent DEF MainInv, SdkClients
<1>2. QED
  BY <1>1 DEF Poll, Polls, Sources, MainInv, MainTyped, MetricsInv, WindowTyped

\* What rearm() leaves is armed for what it was called with, and well typed.
LEMMA RearmFits ==
  ASSUME MainInv, MetricsInv, NEW v, NEW w \in Windows, Rearm(v, w)
  PROVE  /\ lastKind' = KindOf(v) /\ lastBins' = BinsFor[KindOf(v)][w]
         /\ snap' \in Snapshots
         /\ snap'.bins = lastBins' /\ snap'.samples <= snap'.bins
         /\ BeepsFollowAlerts'
         /\ poll' \in Polls
<1>1. BinsFor[KindOf(v)][w] \in Nat
  BY BinsInNat
<1>2. poll' \in Polls
  BY PollIsTyped DEF Rearm, KindChanged, Recapped, MetricsInv, WindowTyped
<1>3. CASE KindChanged(v, w)
  <2>1. /\ lastKind' = KindOf(v) /\ lastBins' = BinsFor[KindOf(v)][w]
        /\ snap' = Nothing(lastBins') /\ breaching' = {}
    BY <1>3 DEF KindChanged
  <2>2. lastBins' \in Nat
    BY <2>1, <1>1
  <2>3. /\ snap'.bins = lastBins' /\ snap'.samples = 0 /\ snap'.hot = FALSE
        /\ snap' \in Snapshots
    BY <2>1, <2>2, NothingIsTyped DEF Nothing
  <2>4. QED
    BY <1>2, <2>1, <2>2, <2>3 DEF BeepsFollowAlerts
<1>4. CASE KindOf(v) = lastKind /\ Recapped(v, w)
  <2>1. lastKind' = KindOf(v) /\ lastBins' = BinsFor[KindOf(v)][w]
    BY <1>4 DEF Recapped
  <2>2. lastBins' \in Nat /\ snap.samples \in Nat
    BY <2>1, <1>1 DEF MetricsInv, WindowTyped, Snapshots
  <2>3. /\ SmallerOf(snap.samples, lastBins') \in Nat
        /\ SmallerOf(snap.samples, lastBins') <= lastBins'
    BY <2>2 DEF SmallerOf
  <2>4. snap' = [snap EXCEPT !.bins = lastBins', !.samples = SmallerOf(@, lastBins')]
    BY <1>4 DEF Recapped
  <2>5. /\ snap'.bins = lastBins' /\ snap'.samples = SmallerOf(snap.samples, lastBins')
        /\ snap'.hot = snap.hot /\ snap'.of = snap.of
        /\ snap' \in Snapshots
    BY <2>2, <2>3, <2>4 DEF MetricsInv, WindowTyped, Snapshots
  <2>6. BeepsFollowAlerts'
    BY <2>5, <1>4 DEF MetricsInv, BeepsFollowAlerts, Recapped
  <2>7. QED
    BY <1>2, <2>1, <2>3, <2>5, <2>6
<1>5. QED
  BY <1>3, <1>4 DEF Rearm

-----------------------------------------------------------------------------
(* The main process                                                        *)

LEMMA MainInit == Init => MainInv
<1>1. SUFFICES ASSUME Init PROVE MainInv
  OBVIOUS
<1>2. MainTyped
  BY <1>1 DEF Init, MainTyped, Targets
<1>3. QED
  BY <1>1, <1>2 DEF Init, MainInv, ClientsAreCurrent, RealAccountIsNotInvoked

\* A step that leaves the target alone, and whose clients are current, preserves
\* the invariant when it invokes nothing.
LEMMA MainNext == MainInv /\ [Next]_vars => MainInv'
<1>1. SUFFICES ASSUME MainInv, [Next]_vars PROVE MainInv'
  OBVIOUS
<1>2. ASSUME target' = target, invoked' = invoked, calls' = calls,
             view' \in Targets, answers' \subseteq Nat \X Targets,
             clients' \in [SdkClients -> Targets \cup {None}],
             \A y \in SdkClients : clients'[y] \in {None, target'}
      PROVE  MainInv'
  BY <1>1, <1>2 DEF MainInv, MainTyped, ClientsAreCurrent, RealAccountIsNotInvoked
<1>3. MainTyped /\ ClientsAreCurrent /\ view \in Targets /\ answers \subseteq Nat \X Targets
  BY <1>1 DEF MainInv, MainTyped
<1>4. \A y \in SdkClients : clients[y] \in {None, target}
  BY <1>3 DEF ClientsAreCurrent
<1>5. clients \in [SdkClients -> Targets \cup {None}]
  BY <1>3 DEF MainTyped
<1>6. /\ "lambda" \in SdkClients /\ "cw" \in SdkClients
  BY DEF SdkClients
<1>7. CASE Tick
  <2>1. PICK v : v = view
    OBVIOUS
  <2>2. Poll(v)
    BY <1>7, <2>1 DEF Tick
  <2>3. QED
    BY <1>2, <1>3, <1>7, <2>2, PollIsCurrent DEF Tick, targetVars
<1>8. CASE Listed
  BY <1>2, <1>3, <1>6, <1>8, UseIsCurrent DEF Listed, targetVars
<1>9. CASE PollReturns
  BY <1>2, <1>3, <1>4, <1>5, <1>9 DEF PollReturns, mainVars, targetVars
<1>10. ASSUME NEW w \in Windows, Save(w) PROVE MainInv'
  <2>1. PICK v : v = view
    OBVIOUS
  <2>2. Rearm(v, w)
    BY <1>10, <2>1 DEF Save
  <2>3. QED
    BY <1>2, <1>3, <1>10, <2>2, RearmIsCurrent DEF Save, targetVars
<1>11. ASSUME NEW t \in Targets, Select(t) PROVE MainInv'
  <2>1. /\ target' = t /\ clients' = [x \in SdkClients |-> None]
        /\ calls' = calls + 1 /\ answers' = answers \cup {<<calls', t>>}
        /\ invoked' = invoked /\ view' = view
    BY <1>11 DEF Select, SetTarget
  <2>2. calls' \in Nat /\ answers' \subseteq Nat \X Targets
    BY <2>1, <1>1 DEF MainInv, MainTyped
  <2>3. MainTyped'
    BY <2>1, <2>2, <1>3 DEF MainTyped
  <2>4. ClientsAreCurrent' /\ RealAccountIsNotInvoked'
    BY <2>1, <1>1 DEF MainInv, ClientsAreCurrent, RealAccountIsNotInvoked
  <2>5. QED
    BY <2>3, <2>4 DEF MainInv
<1>12. ASSUME NEW a \in answers, Answer(a) PROVE MainInv'
  <2>1. a[2] \in Targets /\ answers' \subseteq Nat \X Targets /\ view' = a[2]
    BY <1>3, <1>12 DEF Answer
  <2>2. PICK w : w = window
    OBVIOUS
  <2>3. Rearm(a[2], w)
    BY <1>12, <2>1, <2>2 DEF Answer
  <2>4. QED
    BY <1>2, <1>3, <1>12, <2>1, <2>3, RearmIsCurrent DEF Answer
<1>13. CASE Invoke
  <2>1. CASE Allowed /\ Use("lambda") /\ invoked' = invoked \cup {ClientOf("lambda")}
    <3>1. invoked' \subseteq {Local}
      BY <1>1, <1>3, <1>6, <2>1, UseIsCurrent DEF Allowed, MainInv, RealAccountIsNotInvoked
    <3>2. /\ clients' \in [SdkClients -> Targets \cup {None}]
          /\ \A y \in SdkClients : clients'[y] \in {None, target'}
      BY <1>3, <1>6, <1>13, <2>1, UseIsCurrent DEF Invoke
    <3>3. QED
      BY <1>1, <1>13, <3>1, <3>2
         DEF Invoke, MainInv, MainTyped, ClientsAreCurrent, RealAccountIsNotInvoked, targetVars
  <2>2. CASE UNCHANGED <<clients, invoked>>
    BY <1>2, <1>3, <1>4, <1>5, <1>13, <2>2 DEF Invoke, targetVars
  <2>3. QED
    BY <1>13, <2>1, <2>2 DEF Invoke
<1>14. CASE ListFunctions
  BY <1>2, <1>3, <1>6, <1>14, UseIsCurrent DEF ListFunctions, targetVars
<1>15. CASE Reload
  <2>1. view' \in Targets /\ answers' \subseteq Nat \X Targets
    BY <1>1, <1>15 DEF Reload, Targets, MainInv, MainTyped
  <2>2. QED
    BY <1>2, <1>4, <1>5, <1>15, <2>1 DEF Reload, mainVars
<1>16. CASE UNCHANGED vars
  BY <1>2, <1>3, <1>4, <1>5, <1>16 DEF vars, mainVars, targetVars
<1>17. QED
  BY <1>1, <1>7, <1>8, <1>9, <1>10, <1>11, <1>12, <1>13, <1>14, <1>15, <1>16 DEF Next

LEMMA MainAlways == Spec => []MainInv
  BY MainInit, MainNext, PTL DEF Spec

\* No function is invoked on a real account, however stale the window's idea of the
\* target and whatever client was cached.
THEOREM NeverInvoked == Spec => []RealAccountIsNotInvoked
<1>1. MainInv => RealAccountIsNotInvoked
  BY DEF MainInv
<1>2. QED
  BY <1>1, MainAlways, PTL

-----------------------------------------------------------------------------
(* metricsStore                                                            *)

LEMMA MetricsInit == Init => MetricsInv
<1>1. SUFFICES ASSUME Init PROVE MetricsInv
  OBVIOUS
<1>2. KindOf(view) = "localstack" /\ window \in Windows
  BY <1>1 DEF Init, KindOf
<1>3. ArmedForTheView
  BY <1>1, <1>2 DEF Init, ArmedForTheView
<1>4. lastBins \in Nat
  BY <1>2, <1>3, BinsInNat DEF ArmedForTheView
<1>5. /\ snap \in Snapshots /\ snap.bins = lastBins /\ snap.samples = 0
      /\ snap.hot = FALSE
  BY <1>1, <1>4, NothingIsTyped DEF Init, Nothing
<1>6. poll \in Polls
  BY <1>1 DEF Init, Polls, Sources
<1>7. HistoryFitsTheWindow
  BY <1>3, <1>4, <1>5 DEF HistoryFitsTheWindow, ArmedForTheView
<1>8. BeepsFollowAlerts
  BY <1>1, <1>5 DEF Init, BeepsFollowAlerts
<1>9. QED
  BY <1>2, <1>3, <1>5, <1>6, <1>7, <1>8 DEF MetricsInv, WindowTyped

LEMMA MetricsNext == MainInv /\ MetricsInv /\ [Next]_vars => MetricsInv'
<1>1. SUFFICES ASSUME MainInv, MetricsInv, [Next]_vars PROVE MetricsInv'
  OBVIOUS
<1>2. ASSUME UNCHANGED <<view, window, armVars, snap, breaching>>, poll' \in Polls
      PROVE  MetricsInv'
  BY <1>1, <1>2 DEF MetricsInv, WindowTyped, ArmedForTheView, HistoryFitsTheWindow,
                    BeepsFollowAlerts, armVars
<1>3. poll \in Polls
  BY <1>1 DEF MetricsInv, WindowTyped
\* The two occasions of rearm().
<1>4. ASSUME NEW v, NEW w \in Windows, Rearm(v, w), view' = v, window' = w
      PROVE  MetricsInv'
  <2>1. /\ lastKind' = KindOf(v) /\ lastBins' = BinsFor[KindOf(v)][w]
        /\ snap' \in Snapshots
        /\ snap'.bins = lastBins' /\ snap'.samples <= snap'.bins
        /\ BeepsFollowAlerts'
        /\ poll' \in Polls
    BY <1>1, <1>4, RearmFits
  <2>2. WindowTyped'
    BY <1>4, <2>1 DEF WindowTyped
  <2>3. ArmedForTheView'
    BY <1>4, <2>1 DEF ArmedForTheView
  <2>4. HistoryFitsTheWindow'
    BY <1>4, <2>1 DEF HistoryFitsTheWindow
  <2>5. QED
    BY <2>1, <2>2, <2>3, <2>4 DEF MetricsInv
<1>5. lastBins \in Nat /\ lastBins > 0
  BY <1>1, BinsInNat DEF MetricsInv, WindowTyped, ArmedForTheView
<1>6. CASE Tick
  <2>1. PICK v : v = view
    OBVIOUS
  <2>2. Poll(v)
    BY <1>6, <2>1 DEF Tick
  <2>3. poll' \in Polls
    BY <1>1, <2>2, PollIsTyped
  <2>4. QED
    BY <1>2, <1>6, <2>3 DEF Tick, targetVars
<1>7. CASE Listed
  <2>1. ClientOf("cw") \in Sources
    BY <1>1, UseIsCurrent DEF MainInv, MainTyped, SdkClients, Sources
  <2>2. poll' \in Polls
    BY <1>3, <1>7, <2>1 DEF Listed, Polls
  <2>3. QED
    BY <1>2, <1>7, <2>2 DEF Listed, targetVars
<1>8. CASE PollReturns
  <2>1. poll' \in Polls /\ UNCHANGED <<view, window, armVars>>
    BY <1>8 DEF PollReturns, NoPoll, Polls, Sources, targetVars
  <2>2. /\ snap' \in Snapshots /\ snap'.bins = lastBins /\ snap'.samples <= lastBins
        /\ BeepsFollowAlerts'
    <3>1. CASE snap' = [Nothing(lastBins) EXCEPT !.loaded = TRUE] /\ breaching' = {}
      <4>1. /\ snap' \in Snapshots /\ snap'.bins = lastBins
            /\ snap'.samples = 0 /\ snap'.hot = FALSE
        BY <3>1, <1>5 DEF Nothing, Snapshots, Sources
      <4>2. QED
        BY <3>1, <4>1, <1>5 DEF BeepsFollowAlerts
    <3>2. ASSUME NEW hot \in BOOLEAN, poll.cpu # None,
                 snap' = [of |-> poll.of, cpu |-> poll.cpu, samples |-> Rolled, hot |-> hot,
                          loaded |-> TRUE, bins |-> lastBins],
                 breaching' = NowBreaching(hot)
          PROVE  /\ snap' \in Snapshots /\ snap'.bins = lastBins
                 /\ snap'.samples <= lastBins /\ BeepsFollowAlerts'
      <4>1. snap.samples \in Nat
        BY <1>1 DEF MetricsInv, WindowTyped, Snapshots
      <4>2. Rolled \in Nat /\ Rolled <= lastBins
        BY <4>1, <1>5 DEF Rolled, SmallerOf
      <4>3. poll.of \in Sources /\ poll.cpu \in Sources
        BY <1>3 DEF Polls
      <4>4. snap' \in Snapshots /\ snap'.bins = lastBins /\ snap'.samples = Rolled
        BY <3>2, <4>2, <4>3, <1>5 DEF Snapshots
      <4>5. BeepsFollowAlerts'
        BY <3>2 DEF BeepsFollowAlerts, NowBreaching
      <4>6. QED
        BY <4>2, <4>4, <4>5
    <3>3. QED
      BY <1>8, <3>1, <3>2 DEF PollReturns
  <2>3. QED
    BY <1>1, <2>1, <2>2 DEF MetricsInv, WindowTyped, ArmedForTheView, HistoryFitsTheWindow, armVars
<1>9. ASSUME NEW w \in Windows, Save(w) PROVE MetricsInv'
  <2>1. PICK v : v = view
    OBVIOUS
  <2>2. Rearm(v, w) /\ view' = v /\ window' = w
    BY <1>9, <2>1 DEF Save, targetVars
  <2>3. QED
    BY <1>4, <2>2
<1>10. ASSUME NEW t \in Targets, Select(t) PROVE MetricsInv'
  BY <1>2, <1>3, <1>10 DEF Select, metricVars
<1>11. ASSUME NEW a \in answers, Answer(a) PROVE MetricsInv'
  <2>1. PICK w : w = window
    OBVIOUS
  <2>2. w \in Windows
    BY <1>1, <2>1 DEF MetricsInv, WindowTyped
  <2>3. Rearm(a[2], w) /\ view' = a[2] /\ window' = w
    BY <1>11, <2>1 DEF Answer
  <2>4. QED
    BY <1>4, <2>2, <2>3
<1>12. CASE Invoke
  BY <1>2, <1>3, <1>12 DEF Invoke, metricVars, targetVars
<1>13. CASE ListFunctions
  BY <1>2, <1>3, <1>13 DEF ListFunctions, metricVars, targetVars
<1>14. CASE Reload
  <2>1. KindOf(view') = "localstack" /\ window' = window
    BY <1>14 DEF Reload, KindOf
  <2>2. lastBins' \in Nat
    BY <1>1, <1>14, <2>1, BinsInNat DEF Reload, MetricsInv, WindowTyped
  <2>3. /\ snap' \in Snapshots /\ snap'.bins = lastBins' /\ snap'.samples = 0
        /\ snap'.hot = FALSE
    BY <1>14, <2>2, NothingIsTyped DEF Reload, Nothing
  <2>4. poll' \in Polls
    BY <1>14 DEF Reload, Polls, Sources
  <2>5. WindowTyped' /\ ArmedForTheView'
    BY <1>1, <1>14, <2>1, <2>3, <2>4 DEF Reload, MetricsInv, WindowTyped, ArmedForTheView
  <2>6. HistoryFitsTheWindow'
    BY <2>2, <2>3, <2>5 DEF HistoryFitsTheWindow, ArmedForTheView
  <2>7. BeepsFollowAlerts'
    BY <1>14, <2>3 DEF Reload, BeepsFollowAlerts
  <2>8. QED
    BY <2>5, <2>6, <2>7 DEF MetricsInv
<1>15. CASE UNCHANGED vars
  BY <1>2, <1>3, <1>15 DEF vars, targetVars, metricVars
<1>16. QED
  BY <1>1, <1>6, <1>7, <1>8, <1>9, <1>10, <1>11, <1>12, <1>13, <1>14, <1>15 DEF Next

LEMMA MetricsAlways == Spec => []MetricsInv
  BY MainAlways, MetricsInit, MetricsNext, PTL DEF Spec

\* The snapshot has the bins of the window and of the kind of target shown, and no
\* series is longer, whatever changes while a poll is under way.
THEOREM ChartsFit == Spec => []HistoryFitsTheWindow
<1>1. MetricsInv => HistoryFitsTheWindow
  BY DEF MetricsInv
<1>2. QED
  BY <1>1, MetricsAlways, PTL

\* The set that decides about beeps is the set of the alerts the snapshot shows.
THEOREM BeepsAreAlerts == Spec => []BeepsFollowAlerts
<1>1. MetricsInv => BeepsFollowAlerts
  BY DEF MetricsInv
<1>2. QED
  BY <1>1, MetricsAlways, PTL

-----------------------------------------------------------------------------
(* The upload of a watched front end                                       *)

Got == {c \in Call : call[c] \notin {"unborn", "looking"}}

OneSync   == \A c, d \in Got : c = d
OneUpload == \A u, v \in InFlight : u = v

SyncTypes ==
  /\ call \in [Call -> {"unborn", "looking", "syncing", "over"}]
  /\ active \in Call \cup {NoSync} /\ busy \subseteq Call
  /\ next \in [Upload -> File \cup {NoSync}]
  /\ uploads \in 0..MaxUploads

\* With one sync there is one upload, with the flag of the sync in the map set.
FlagGuards ==
  /\ active \in Got \cup {NoSync}
  /\ Got = {} => InFlight = {}
  /\ OneSync => OneUpload
  /\ OneSync /\ InFlight # {} /\ active # NoSync => active \in busy

WInv == SyncTypes /\ FlagGuards

-----------------------------------------------------------------------------

LEMMA Bounds == Files \in Nat \ {0} /\ MaxCalls \in Nat /\ MaxUploads \in Nat
BY WatchBoundsAssumption

\* doSync() sets the flag of the sync, and begins no more uploads than the bound.
LEMMA DoSyncTypes ==
  ASSUME SyncTypes, NEW s \in Call \cup {NoSync}, NEW flags \in SUBSET Call, DoSync(s, flags)
  PROVE  busy' \subseteq Call /\ next' \in [Upload -> File \cup {NoSync}] /\ uploads' \in 0..MaxUploads
<1> USE Bounds DEF SyncTypes, Call, Upload, File, NoSync, uploadVars
<1>1. CASE UNCHANGED uploadVars /\ busy' = flags BY <1>1
<1>2. CASE /\ s # NoSync /\ s \notin flags /\ uploads < MaxUploads /\ uploads' = uploads + 1
           /\ next' = [next EXCEPT ![uploads'] = 1] /\ busy' = flags \cup {s}
  <2>1. uploads' \in Upload /\ 1 \in File BY <1>2
  <2> QED BY <1>2, <2>1
<1> QED BY <1>1, <1>2 DEF DoSync

LEMMA SyncTypesStep == SyncTypes /\ [WNext]_watchVars => SyncTypes'
<1> SUFFICES ASSUME SyncTypes, [WNext]_watchVars PROVE SyncTypes' OBVIOUS
<1> USE Bounds DEF SyncTypes, Call, Upload, File, NoSync, InFlight, uploadVars, syncVars
<1>1. ASSUME NEW c \in Call, Start(c) PROVE SyncTypes' BY <1>1 DEF Start
<1>2. ASSUME NEW c \in Call, Found(c) PROVE SyncTypes'
  <2>1. CASE DoSync(c, busy \ {c}) /\ active' = c BY <1>2, <2>1, DoSyncTypes DEF Found
  <2>2. CASE UNCHANGED <<active, watching, busy, uploadVars, dropped>> BY <1>2, <2>2 DEF Found
  <2> QED BY <1>2, <2>1, <2>2 DEF Found
<1>3. ASSUME NEW c \in Call, Noted(c) PROVE SyncTypes' BY <1>3 DEF Noted
<1>4. ASSUME NEW c \in Call, Due(c) PROVE SyncTypes' BY <1>4, DoSyncTypes DEF Due
<1>5. CASE Stop BY <1>5 DEF Stop
<1>6. CASE Build BY <1>6 DEF Build
<1>7. ASSUME NEW t \in Clouds, SwitchCloud(t) PROVE SyncTypes' BY <1>7 DEF SwitchCloud
<1>8. ASSUME NEW u \in Upload, Put(u) PROVE SyncTypes'
  <2>1. CASE next[u] < Files /\ next' = [next EXCEPT ![u] = @ + 1] /\ busy' = busy
    <3>1. next[u] + 1 \in File BY <2>1
    <3> QED BY <1>8, <2>1, <3>1 DEF Put
  <2>2. CASE next' = [next EXCEPT ![u] = NoSync] /\ busy' = busy \ {active}
    BY <1>8, <2>2 DEF Put
  <2> QED BY <1>8, <2>1, <2>2 DEF Put
<1>9. ASSUME NEW u \in Upload, PutFails(u) PROVE SyncTypes' BY <1>9 DEF PutFails
<1>10. CASE UNCHANGED watchVars BY <1>10 DEF watchVars
<1> QED BY <1>1, <1>2, <1>3, <1>4, <1>5, <1>6, <1>7, <1>8, <1>9, <1>10 DEF WNext

\* doSync() begins an upload only if the sync's flag is not set.
LEMMA DoSyncKeepsApart ==
  ASSUME SyncTypes, NEW s \in Call \cup {NoSync}, NEW flags \in SUBSET Call, DoSync(s, flags)
  PROVE  \/ busy' = flags /\ InFlight' = InFlight
         \/ /\ s # NoSync /\ s \notin flags /\ busy' = flags \cup {s}
            /\ \E v \in Upload : InFlight' \subseteq InFlight \cup {v}
<1> USE Bounds DEF SyncTypes, Upload, File, NoSync, InFlight, uploadVars
<1>1. CASE UNCHANGED uploadVars /\ busy' = flags BY <1>1
<1>2. CASE /\ s # NoSync /\ s \notin flags /\ uploads < MaxUploads /\ uploads' = uploads + 1
           /\ next' = [next EXCEPT ![uploads'] = 1] /\ busy' = flags \cup {s}
  <2>1. uploads' \in Upload BY <1>2
  <2>2. InFlight' \subseteq InFlight \cup {uploads'} BY <1>2, <2>1
  <2> QED BY <1>2, <2>1, <2>2
<1> QED BY <1>1, <1>2 DEF DoSync

LEMMA WatchStep == WInv /\ [WNext]_watchVars => WInv'
<1> SUFFICES ASSUME WInv, [WNext]_watchVars PROVE FlagGuards'
  BY SyncTypesStep DEF WInv
<1> USE Bounds DEF WInv, SyncTypes, FlagGuards, OneSync, OneUpload, Got, Call, NoSync
<1>1. ASSUME NEW c \in Call, Start(c) PROVE FlagGuards'
  <2>1. InFlight' = InFlight /\ busy' = busy /\ active' = active BY <1>1 DEF Start, InFlight, uploadVars
  <2>2. Got \subseteq Got' BY <1>1 DEF Start
  <2>3. CASE active # NoSync
    <3>1. Got' = Got \cup {c} BY <1>1, <2>3 DEF Start
    <3> QED BY <2>1, <3>1
  <2>4. CASE active = NoSync
    <3>1. Got' = Got BY <1>1, <2>4 DEF Start
    <3> QED BY <2>1, <3>1
  <2> QED BY <2>3, <2>4
<1>2. ASSUME NEW c \in Call, Found(c) PROVE FlagGuards'
  <2>1. c \notin Got /\ Got' = Got \cup {c} BY <1>2 DEF Found
  <2>2. CASE UNCHANGED <<active, watching, busy, uploadVars, dropped>>
    BY <2>1, <2>2 DEF InFlight, uploadVars
  <2>3. CASE active' = c /\ DoSync(c, busy \ {c})
    <3>1. CASE Got = {}
      <4>1. InFlight = {} BY <3>1
      <4> QED BY <2>1, <2>3, <3>1, <4>1, DoSyncKeepsApart
    <3>2. CASE Got # {}
      <4>1. ~OneSync' BY <2>1, <3>2
      <4> QED BY <2>1, <2>3, <4>1
    <3> QED BY <3>1, <3>2
  <2> QED BY <1>2, <2>2, <2>3 DEF Found
<1>3. ASSUME NEW c \in Call, Noted(c) PROVE FlagGuards' BY <1>3 DEF Noted, InFlight, uploadVars
<1>4. ASSUME NEW c \in Call, Due(c) PROVE FlagGuards'
  <2>1. Got' = Got /\ active' = active /\ DoSync(active, busy) BY <1>4 DEF Due
  <2> QED BY <2>1, DoSyncKeepsApart
<1>5. CASE Stop
  <2>1. Got' = Got BY <1>5 DEF Stop
  <2> QED BY <1>5, <2>1 DEF Stop, InFlight, uploadVars
<1>6. CASE Build BY <1>6 DEF Build, InFlight, uploadVars
<1>7. ASSUME NEW t \in Clouds, SwitchCloud(t) PROVE FlagGuards' BY <1>7 DEF SwitchCloud, InFlight, uploadVars, syncVars
<1>8. ASSUME NEW u \in Upload, Put(u) PROVE FlagGuards'
  <2>1. Got' = Got /\ active' = active /\ u \in InFlight BY <1>8 DEF Put
  <2>2. CASE next[u] < Files /\ next' = [next EXCEPT ![u] = @ + 1] /\ busy' = busy
    <3>1. InFlight' \subseteq InFlight BY <2>1, <2>2 DEF InFlight
    <3> QED BY <2>1, <2>2, <3>1
  <2>3. CASE next' = [next EXCEPT ![u] = NoSync] /\ busy' = busy \ {active}
    <3>1. InFlight' = InFlight \ {u} BY <2>1, <2>3 DEF InFlight
    <3> QED BY <2>1, <2>3, <3>1
  <2> QED BY <1>8, <2>2, <2>3 DEF Put
<1>9. ASSUME NEW u \in Upload, PutFails(u) PROVE FlagGuards'
  <2>1. Got' = Got /\ active' = active /\ u \in InFlight BY <1>9 DEF PutFails
  <2>2. next' = [next EXCEPT ![u] = NoSync] /\ busy' = busy \ {active} BY <1>9 DEF PutFails
  <2>3. InFlight' = InFlight \ {u} BY <2>1, <2>2 DEF InFlight
  <2> QED BY <2>1, <2>2, <2>3
<1>10. CASE UNCHANGED watchVars BY <1>10 DEF watchVars, InFlight, uploadVars, syncVars
<1> QED BY <1>1, <1>2, <1>3, <1>4, <1>5, <1>6, <1>7, <1>8, <1>9, <1>10 DEF WNext

-----------------------------------------------------------------------------

\* Two elements or more.
LEMMA AtLeastTwo ==
  ASSUME NEW S, IsFiniteSet(S)
  PROVE  Cardinality(S) > 1 <=> \E a, b \in S : a # b
<1>1. ASSUME NEW a \in S, NEW b \in S, a # b PROVE Cardinality(S) > 1
  <2>1. IsFiniteSet({a}) /\ Cardinality({a}) = 1 BY FS_Singleton
  <2>2. {a} \cup {b} \in SUBSET S /\ b \notin {a} BY <1>1
  <2>3. Cardinality({a} \cup {b}) = 2 BY <2>1, <2>2, FS_AddElement
  <2>4. Cardinality({a} \cup {b}) <= Cardinality(S) BY <2>2, FS_Subset
  <2>5. Cardinality(S) \in Nat BY FS_CardinalityType
  <2> QED BY <2>3, <2>4, <2>5
<1>2. ASSUME \A a, b \in S : a = b PROVE ~(Cardinality(S) > 1)
  <2>1. CASE S = {} BY <2>1, FS_EmptySet
  <2>2. CASE S # {}
    <3>1. PICK a \in S : S = {a} BY <1>2, <2>2
    <3> QED BY <3>1, FS_Singleton
  <2> QED BY <2>1, <2>2
<1> QED BY <1>1, <1>2

LEMMA FlagSuffices == WInv => OverlapNeedsASecondSync
<1> SUFFICES ASSUME WInv, Cardinality(InFlight) > 1 PROVE Cardinality(Got) > 1
  BY DEF OverlapNeedsASecondSync, Got
<1>1. IsFiniteSet(Upload) /\ IsFiniteSet(Call)
  BY WatchBoundsAssumption, FS_Interval DEF Upload, Call
<1>2. InFlight \in SUBSET Upload /\ Got \in SUBSET Call BY DEF InFlight, Got
<1>3. IsFiniteSet(InFlight) /\ IsFiniteSet(Got) BY <1>1, <1>2, FS_Subset
<1>4. ~OneUpload BY <1>3, AtLeastTwo DEF OneUpload
<1>5. \E c, d \in Got : c # d BY <1>4 DEF WInv, FlagGuards, OneSync
<1> QED BY <1>3, <1>5, AtLeastTwo

LEMMA WatchInit == WInit => WInv
BY WatchBoundsAssumption
DEF WInit, WInv, SyncTypes, FlagGuards, OneSync, OneUpload, Got, InFlight, Call, Upload, File, NoSync

\* Uploads of one sync never overlap, whatever is built, stopped and switched
\* while they are under way.
THEOREM OneSyncOneUpload == WSpec => []OverlapNeedsASecondSync
BY WatchInit, WatchStep, FlagSuffices, PTL DEF WSpec

-----------------------------------------------------------------------------
(* Which builds are missed                                                 *)

MapIsSyncing == active # NoSync => call[active] = "syncing"

\* The only call there has been is in the map and pushes to LocalStack.
Alone ==
  /\ active # NoSync /\ \A c \in Call : call[c] # "unborn" => c = active
  /\ \A u \in Upload : to[u] = "localstack"

\* Nothing tells this sync of a build, and none was skipped.
Settled == active \in watching /\ told = {} /\ timer = {} /\ ~dropped

\* Then what has been put is of the last build, and so is what is about to be.
Synced ==
  Alone /\ Settled =>
    /\ \A u \in InFlight : body[u] = bin /\ \A f \in File : f < next[u] => bucket[f] = bin
    /\ InFlight = {} /\ ~failed => \A f \in File : bucket[f] = bin

SyncTables ==
  body \in [Upload -> Nat] /\ bucket \in [File -> Nat] /\ to \in [Upload -> {"localstack", "aws"}]
  /\ bin \in Nat /\ cloud \in {"localstack", "aws"}

\* Before the first build nothing is put.
Unbuilt == bin = NoBin => InFlight = {} /\ \A f \in File : bucket[f] = NoBin

BuildInv == WInv /\ SyncTables /\ MapIsSyncing /\ Unbuilt /\ Synced

LEMMA SyncTablesStep == SyncTypes /\ SyncTables /\ [WNext]_watchVars => SyncTables'
<1> SUFFICES ASSUME SyncTypes, SyncTables, [WNext]_watchVars PROVE SyncTables' OBVIOUS
<1> USE Bounds, CloudsAssumption DEF SyncTypes, SyncTables, uploadVars, syncVars
<1>1. ASSUME NEW s, NEW flags, DoSync(s, flags), UNCHANGED <<bucket, bin, cloud>> PROVE SyncTables'
  BY <1>1 DEF DoSync
<1>2. ASSUME NEW c \in Call, Start(c) PROVE SyncTables' BY <1>2 DEF Start
<1>3. ASSUME NEW c \in Call, Found(c) PROVE SyncTables' BY <1>1, <1>3 DEF Found
<1>4. ASSUME NEW c \in Call, Noted(c) PROVE SyncTables' BY <1>4 DEF Noted
<1>5. ASSUME NEW c \in Call, Due(c) PROVE SyncTables' BY <1>1, <1>5 DEF Due
<1>6. CASE Stop BY <1>6 DEF Stop
<1>7. CASE Build BY <1>7 DEF Build
<1>8. ASSUME NEW t \in Clouds, SwitchCloud(t) PROVE SyncTables' BY <1>8 DEF SwitchCloud
<1>9. ASSUME NEW u \in Upload, Put(u) PROVE SyncTables'
  <2>1. body[u] \in Nat /\ bucket' \in {bucket, [bucket EXCEPT ![next[u]] = body[u]]} BY <1>9 DEF Put
  <2>2. bucket' \in [File -> Nat] BY <2>1
  <2>3. body' \in {[body EXCEPT ![u] = bin], [body EXCEPT ![u] = 0]} BY <1>9 DEF Put
  <2>4. body' \in [Upload -> Nat] BY <2>3
  <2> QED BY <1>9, <2>2, <2>4 DEF Put
<1>10. ASSUME NEW u \in Upload, PutFails(u) PROVE SyncTables' BY <1>10 DEF PutFails
<1>11. CASE UNCHANGED watchVars BY <1>11 DEF watchVars
<1> QED BY <1>2, <1>3, <1>4, <1>5, <1>6, <1>7, <1>8, <1>9, <1>10, <1>11 DEF WNext

\* An upload that doSync() begins while no other is under way reads the last build.
LEMMA BegunIsLast ==
  ASSUME SyncTypes, SyncTables, NEW s, NEW flags, DoSync(s, flags),
         s # NoSync, bin # NoBin, ~dropped', InFlight = {}, s \notin flags, UNCHANGED <<bin, bucket>>
  PROVE  \E v \in Upload : InFlight' = {v} /\ body'[v] = bin /\ next'[v] = 1
<1> USE Bounds DEF SyncTypes, SyncTables, Upload, File, NoSync, InFlight
<1>1. /\ uploads < MaxUploads /\ uploads' = uploads + 1
      /\ next' = [next EXCEPT ![uploads'] = 1] /\ body' = [body EXCEPT ![uploads'] = bin]
  BY DEF DoSync
<1>2. uploads' \in Upload BY <1>1
<1>3. next'[uploads'] = 1 /\ body'[uploads'] = bin BY <1>1, <1>2
<1>4. InFlight' = {uploads'} BY <1>1, <1>2, <1>3
<1> QED BY <1>2, <1>3, <1>4

\* A sync that is alone has at most one upload under way, with its flag set.
LEMMA AloneHasOne == WInv /\ Alone => OneUpload /\ (InFlight # {} => active \in busy)
<1> SUFFICES ASSUME WInv, Alone PROVE OneUpload /\ (InFlight # {} => active \in busy) OBVIOUS
<1>1. OneSync BY DEF Alone, OneSync, Got
<1> QED BY <1>1 DEF WInv, FlagGuards, Alone

LEMMA UnbuiltStep == WInv /\ SyncTables /\ Unbuilt /\ [WNext]_watchVars => Unbuilt'
<1> SUFFICES ASSUME WInv, SyncTables, Unbuilt, [WNext]_watchVars, bin' = NoBin
             PROVE  InFlight' = {} /\ \A f \in File : bucket'[f] = NoBin
  BY DEF Unbuilt
<1>1. bin = NoBin
  <2>1. CASE Build
    <3>1. bin' = bin + 1 /\ bin \in Nat BY <2>1 DEF Build, SyncTables
    <3> QED BY <3>1 DEF NoBin
  <2>2. CASE ~Build
    <3>1. bin' = bin
      BY <2>2 DEF WNext, Start, Found, Noted, Due, Stop, SwitchCloud, Put, PutFails, watchVars
    <3> QED BY <3>1
  <2> QED BY <2>1, <2>2
<1>2. InFlight = {} /\ \A f \in File : bucket[f] = NoBin BY <1>1 DEF Unbuilt
<1>3. UNCHANGED <<uploadVars, bucket>>
  BY <1>1, <1>2 DEF WNext, Start, Found, DoSync, Noted, Due, Stop, Build, SwitchCloud, Put, PutFails,
     watchVars, syncVars, uploadVars
<1> QED BY <1>2, <1>3 DEF InFlight, uploadVars

LEMMA BuildStep == BuildInv /\ [WNext]_watchVars => BuildInv'
<1> SUFFICES ASSUME BuildInv, [WNext]_watchVars PROVE MapIsSyncing' /\ Synced'
  BY WatchStep, SyncTablesStep, UnbuiltStep DEF BuildInv, WInv
<1> DEFINE LastIn == /\ \A v \in InFlight : body[v] = bin /\ \A f \in File : f < next[v] => bucket[f] = bin
                     /\ InFlight = {} /\ ~failed => \A f \in File : bucket[f] = bin
<1> USE Bounds DEF BuildInv, WInv, SyncTypes, SyncTables, MapIsSyncing, Call, NoSync
<1>1. ASSUME NEW c \in Call, Start(c) PROVE MapIsSyncing' /\ Synced'
  <2>1. call[c] = "unborn" /\ call' = [call EXCEPT ![c] = call'[c]] /\ active' = active
        /\ call'[c] # "unborn"
    BY <1>1 DEF Start
  <2>2. active # c BY <2>1
  <2>3. MapIsSyncing' BY <2>1, <2>2
  <2>4. ~Alone' BY <2>1, <2>2 DEF Alone
  <2> QED BY <2>3, <2>4 DEF Synced
<1>2. ASSUME NEW c \in Call, Found(c) PROVE MapIsSyncing' /\ Synced'
  <2>1. call[c] = "looking" /\ active # c BY <1>2 DEF Found
  <2>2. CASE call' = [call EXCEPT ![c] = "over"] /\ active' = active
    <3>1. MapIsSyncing' BY <2>1, <2>2
    <3>2. ~Alone' BY <2>1, <2>2 DEF Alone
    <3> QED BY <3>1, <3>2 DEF Synced
  <2>3. CASE call' = [call EXCEPT ![c] = "syncing"] /\ active' = c /\ DoSync(c, busy \ {c})
    <3>1. MapIsSyncing' BY <2>3
    <3>2. ASSUME Alone', Settled' PROVE LastIn'
      <4>1. \A d \in Call \ {c} : call[d] = "unborn" BY <2>3, <3>2 DEF Alone
      <4>2. Got = {} BY <2>1, <4>1 DEF Got
      <4>3. InFlight = {} BY <4>2 DEF FlagGuards
      <4>4. UNCHANGED <<bin, bucket>> /\ ~dropped' BY <1>2, <3>2 DEF Found, Settled
      <4>5. c # NoSync /\ c \notin busy \ {c} BY <2>3
      <4>6. CASE bin # NoBin
        <5>1. PICK v \in Upload : InFlight' = {v} /\ body'[v] = bin /\ next'[v] = 1
          BY <2>3, <4>3, <4>4, <4>5, <4>6, BegunIsLast
        <5> QED BY <4>4, <5>1 DEF File
      <4>7. CASE bin = NoBin
        <5>1. InFlight' = {} BY <2>3, <4>3, <4>5, <4>7 DEF DoSync, InFlight, uploadVars
        <5> QED BY <4>4, <4>7, <5>1 DEF Unbuilt
      <4> QED BY <4>6, <4>7
    <3> QED BY <3>1, <3>2 DEF Synced
  <2> QED BY <1>2, <2>2, <2>3 DEF Found
<1>3. ASSUME NEW c \in Call, Noted(c) PROVE MapIsSyncing' /\ Synced'
  <2>1. MapIsSyncing' BY <1>3 DEF Noted
  <2>2. Alone' => ~Settled' BY <1>3 DEF Noted, Alone, Settled
  <2> QED BY <2>1, <2>2 DEF Synced
<1>4. ASSUME NEW s \in Call, Due(s) PROVE MapIsSyncing' /\ Synced'
  <2>1. MapIsSyncing' BY <1>4 DEF Due
  <2>2. DoSync(active, busy) /\ UNCHANGED <<call, active, bin, bucket, failed>> BY <1>4 DEF Due
  <2>3. ASSUME Alone', Settled' PROVE LastIn'
    <3>1. active # NoSync /\ ~dropped' BY <2>2, <2>3 DEF Alone, Settled
    <3>2. active \notin busy BY <2>2, <3>1 DEF DoSync
    <3>3. OneSync BY <2>2, <2>3 DEF Alone, OneSync, Got
    <3>4. InFlight = {} BY <3>1, <3>2, <3>3 DEF FlagGuards
    <3>5. CASE bin # NoBin
      <4>1. PICK v \in Upload : InFlight' = {v} /\ body'[v] = bin /\ next'[v] = 1
        BY <2>2, <3>1, <3>2, <3>4, <3>5, BegunIsLast
      <4> QED BY <2>2, <4>1 DEF File
    <3>6. CASE bin = NoBin
      <4>1. InFlight' = {} BY <2>2, <3>1, <3>2, <3>4, <3>6 DEF DoSync, InFlight, uploadVars
      <4> QED BY <2>2, <3>6, <4>1 DEF Unbuilt
    <3> QED BY <3>5, <3>6
  <2> QED BY <2>1, <2>3 DEF Synced
<1>5. CASE Stop BY <1>5 DEF Stop, Synced, Alone
<1>6. CASE Build
  <2>1. MapIsSyncing' BY <1>6 DEF Build
  <2>2. ~Settled' BY <1>6 DEF Build, Settled
  <2> QED BY <2>1, <2>2 DEF Synced
<1>7. ASSUME UNCHANGED <<syncVars, bin, bucket, uploadVars, dropped, failed>>
      PROVE  MapIsSyncing' /\ Synced'
  BY <1>7 DEF syncVars, uploadVars, Synced, Alone, Settled, InFlight
<1>8. ASSUME NEW u \in Upload, Put(u) PROVE MapIsSyncing' /\ Synced'
  <2>1. MapIsSyncing' BY <1>8 DEF Put
  <2>2. /\ u \in InFlight /\ next[u] \in File
        /\ UNCHANGED <<call, active, watching, told, timer, dropped, to, bin>>
    BY <1>8 DEF Put, InFlight
  <2>3. ASSUME Alone', Settled' PROVE LastIn'
    <3>1. Alone /\ Settled BY <2>2, <2>3 DEF Alone, Settled
    <3>2. InFlight = {u} BY <2>2, <3>1, AloneHasOne DEF OneUpload
    <3>3. body[u] = bin /\ \A f \in File : f < next[u] => bucket[f] = bin
      BY <2>2, <3>1 DEF Synced
    <3>4. bucket' = [bucket EXCEPT ![next[u]] = bin] BY <1>8, <3>1, <3>3 DEF Put, Alone
    <3>5. \A f \in File : f <= next[u] => bucket'[f] = bin
      BY <2>2, <3>3, <3>4 DEF File
    <3>6. CASE next[u] < Files /\ next' = [next EXCEPT ![u] = @ + 1] /\ body' = [body EXCEPT ![u] = bin]
      <4>1. next'[u] = next[u] + 1 /\ body'[u] = bin BY <3>6
      <4>2. InFlight' = {u} BY <2>2, <3>2, <3>6, <4>1 DEF InFlight, File
      <4>3. \A f \in File : f < next[u] + 1 => f <= next[u] BY <2>2 DEF File
      <4> QED BY <2>2, <3>5, <4>1, <4>2, <4>3
    <3>7. CASE next[u] = Files /\ next' = [next EXCEPT ![u] = NoSync]
      <4>1. InFlight' = {} BY <3>2, <3>7 DEF InFlight
      <4>2. \A f \in File : f <= next[u] BY <3>7 DEF File
      <4> QED BY <2>2, <3>5, <4>1, <4>2
    <3> QED BY <1>8, <3>6, <3>7 DEF Put
  <2> QED BY <2>1, <2>3 DEF Synced
<1>9. ASSUME NEW u \in Upload, PutFails(u) PROVE MapIsSyncing' /\ Synced'
  <2>1. MapIsSyncing' BY <1>9 DEF PutFails
  <2>2. /\ u \in InFlight /\ next' = [next EXCEPT ![u] = NoSync] /\ failed' = TRUE
        /\ UNCHANGED <<call, active, watching, told, timer, dropped, to, bin>>
    BY <1>9 DEF PutFails
  <2>3. ASSUME Alone', Settled' PROVE LastIn'
    <3>1. Alone BY <2>2, <2>3 DEF Alone
    <3>2. InFlight = {u} BY <2>2, <3>1, AloneHasOne DEF OneUpload
    <3>3. InFlight' = {} BY <2>2, <3>2 DEF InFlight
    <3> QED BY <2>2, <3>3
  <2> QED BY <2>1, <2>3 DEF Synced
<1>10. ASSUME NEW t \in Clouds, SwitchCloud(t) PROVE MapIsSyncing' /\ Synced'
  BY <1>7, <1>10 DEF SwitchCloud
<1>11. CASE UNCHANGED watchVars BY <1>7, <1>11 DEF watchVars
<1> QED BY <1>1, <1>2, <1>3, <1>4, <1>5, <1>6, <1>8, <1>9, <1>10, <1>11 DEF WNext

LEMMA BuildInit == WInit => BuildInv
BY WatchInit, WatchBoundsAssumption
DEF WInit, BuildInv, SyncTables, MapIsSyncing, Unbuilt, InFlight, Synced, Alone, Call, Upload, File, NoSync, NoBin

LEMMA BuildSuffices == BuildInv => OnlyBusyMissesABuild
<1> DEFINE started == {c \in Call : call[c] # "unborn"}
<1> SUFFICES ASSUME BuildInv, Quiet, Cardinality(started) = 1,
                    \A u \in Upload : to[u] = "localstack", ~dropped
             PROVE  \A f \in File : bucket[f] = bin
  BY DEF OnlyBusyMissesABuild
<1>1. IsFiniteSet(Call) BY WatchBoundsAssumption, FS_Interval DEF Call
<1>2. IsFiniteSet(started) BY <1>1, FS_Subset
<1>3. PICK x : started = {x} BY <1>2, FS_Singleton
<1>4. active \in started
  BY DEF Quiet, BuildInv, MapIsSyncing, WInv, SyncTypes
<1>5. Alone BY <1>3, <1>4 DEF Alone, Quiet
<1> QED BY <1>5 DEF BuildInv, Synced, Settled, Quiet

\* A build that is not in the bucket when a lone sync is quiet was due while an upload
\* was under way (webDev.ts:91), however builds, timers, failures and puts interleave.
THEOREM OnlyTheFlagMisses == WSpec => []OnlyBusyMissesABuild
BY BuildInit, BuildStep, BuildSuffices, PTL DEF WSpec

-----------------------------------------------------------------------------
(* The log store and its views                                             *)

\* The lines a+1 to b.
Run(a, b) == [i \in 1..(b - a) |-> a + i]

\* What a ring of n keeps of them begins after this one.
From(a, b, n) == IF b - a > n THEN b - n ELSE a

\* The lines after c are those logged since the stream s was last cleared.
Keeps(s, c) == buffer[s] = Run(From(c, seq[s], Ring), seq[s])

Messages == {Cleared} \cup [is : {"line"}, of : Streams, number : Nat]
                      \cup [is : {"history"}, to : Nat, lines : Seq(Nat)]

StoreInv ==
  /\ channel \in Seq(Messages) /\ mount \in Nat
  /\ seq \in [Streams -> Nat] /\ tab \in Streams \cup {NoTab}
  /\ DOMAIN buffer = Streams
  /\ \A s \in Streams : \E c \in 0..seq[s] : Keeps(s, c)

\* What the view will have once it has received the p-th message on its way.
Base(p) == IF p = 0 THEN lines ELSE IF channel[p].is = "cleared" THEN <<>> ELSE channel[p].lines

\* The p-th message is the last to replace what is shown.
Replaces(p) ==
  /\ p > 0 => \/ channel[p].is = "cleared"
              \/ channel[p].is = "history" /\ channel[p].to = mount
  /\ \A j \in 1..Len(channel) : j > p => channel[j].is = "line"

\* After it come the lines of the tab from l+1 on, in their order.
Awaits(p, l) ==
  LET Coming == {j \in 1..Len(channel) : j > p /\ channel[j].of = tab}
  IN /\ \A j \in Coming : channel[j].number \in (l + 1)..seq[tab]
     /\ \A n \in (l + 1)..seq[tab] : \E j \in Coming : channel[j].number = n
     /\ \A i, j \in Coming : i < j => channel[i].number < channel[j].number

\* The lines after f up to l are a view of those after c.
Shows(c, f, l) == c <= f /\ f <= l /\ l - f <= Ring /\ (f = c \/ l - f >= MaxRender)

ViewInv ==
  tab # NoTab =>
    \E c, f, l \in 0..seq[tab], p \in 0..Len(channel) :
      Keeps(tab, c) /\ Shows(c, f, l) /\ Replaces(p) /\ Base(p) = Run(f, l) /\ Awaits(p, l)

LogInv == StoreInv /\ ViewInv

-----------------------------------------------------------------------------
(* Sequences of consecutive lines                                          *)

LEMMA RunIsSeq ==
  ASSUME NEW a \in Nat, NEW b \in Nat, a <= b
  PROVE  /\ Run(a, b) \in Seq(Nat) /\ Len(Run(a, b)) = b - a
         /\ \A i \in 1..(b - a) : Run(a, b)[i] = a + i
<1>1. Run(a, b) \in [1..(b - a) -> Nat] BY DEF Run
<1>2. b - a \in Nat OBVIOUS
<1>3. Run(a, b) \in Seq(Nat) BY <1>1, <1>2, IsASeq DEF Run
<1> QED BY <1>1, <1>2, <1>3, LenProperties DEF Run

\* A sequence of numbers that counts up from a+1 is a run.
LEMMA IsRun ==
  ASSUME NEW a \in Nat, NEW b \in Nat, a <= b, NEW q \in Seq(Nat), Len(q) = b - a,
         \A i \in 1..(b - a) : q[i] = a + i
  PROVE  q = Run(a, b)
<1>1. Run(a, b) \in Seq(Nat) /\ Len(Run(a, b)) = b - a /\ \A i \in 1..(b - a) : Run(a, b)[i] = a + i
  BY RunIsSeq
<1> QED BY <1>1, SeqEqual

LEMMA EmptyRun == ASSUME NEW a \in Nat PROVE Run(a, a) = <<>>
<1>1. Run(a, a) \in Seq(Nat) /\ Len(Run(a, a)) = 0 BY RunIsSeq
<1> QED BY <1>1, EmptySeq

\* The end of a run is a run.
LEMMA EndOfRun ==
  ASSUME NEW a \in Nat, NEW b \in Nat, a <= b, NEW n \in Nat
  PROVE  LastOf(Run(a, b), n) = Run(From(a, b, n), b) /\ From(a, b, n) \in a..b
<1> DEFINE q == Run(a, b)
<1>1. q \in Seq(Nat) /\ Len(q) = b - a /\ \A i \in 1..(b - a) : q[i] = a + i BY RunIsSeq
<1> HIDE DEF q
<1>2. CASE b - a <= n BY <1>1, <1>2 DEF LastOf, From, q
<1>3. CASE b - a > n
  <2> DEFINE s == SubSeq(q, Len(q) - n + 1, Len(q))
  <2>1. /\ s \in Seq(Nat) /\ Len(s) = n
        /\ \A i \in 1..n : s[i] = q[Len(q) - n + 1 + i - 1]
    <3>1. \A i \in (Len(q) - n + 1)..Len(q) : q[i] \in Nat
      <4>1. \A i \in (Len(q) - n + 1)..Len(q) : i \in 1..(b - a) BY <1>1, <1>3
      <4> QED BY <1>1, <4>1
    <3>2. Len(q) - n + 1 \in 1..(Len(q) + 1) /\ Len(q) \in (Len(q) - n)..Len(q) BY <1>1, <1>3
    <3> QED BY <1>1, <1>3, SubSeqProperties
  <2>2. From(a, b, n) = b - n /\ b - n \in a..b BY <1>3 DEF From
  <2>3. s = LastOf(q, n) BY <1>1, <1>3 DEF LastOf
  <2>4. \A i \in 1..n : s[i] = (b - n) + i BY <1>1, <1>3, <2>1
  <2> HIDE DEF s
  <2>5. s = Run(b - n, b)
    <3>1. b - n \in Nat /\ b - n <= b /\ n = b - (b - n) BY <2>2
    <3>2. Len(s) = b - (b - n) /\ \A i \in 1..(b - (b - n)) : s[i] = (b - n) + i BY <2>1, <2>4, <3>1
    <3> QED BY <2>1, <3>1, <3>2, IsRun
  <2> QED BY <2>2, <2>3, <2>5 DEF q
<1> QED BY <1>1, <1>2, <1>3

\* The lines logged next prolong it.
LEMMA LongerRun ==
  ASSUME NEW a \in Nat, NEW b \in Nat, a <= b, NEW n \in Nat
  PROVE  Run(a, b) \o [i \in 1..n |-> b + i] = Run(a, b + n)
<1> DEFINE q == Run(a, b)  s == [i \in 1..n |-> b + i]
<1>1. q \in Seq(Nat) /\ Len(q) = b - a /\ \A i \in 1..(b - a) : q[i] = a + i BY RunIsSeq
<1>2. s \in Seq(Nat) /\ Len(s) = n /\ \A i \in 1..n : s[i] = b + i
  <2>1. s \in [1..n -> Nat] OBVIOUS
  <2>2. s \in Seq(Nat) BY IsASeq
  <2> QED BY <2>1, <2>2, LenProperties
<1> HIDE DEF q, s
<1>3. /\ q \o s \in Seq(Nat) /\ Len(q \o s) = (b + n) - a
      /\ \A i \in 1..(b + n - a) : (q \o s)[i] = IF i <= b - a THEN q[i] ELSE s[i - (b - a)]
  <2>1. /\ q \o s \in Seq(Nat) /\ Len(q \o s) = Len(q) + Len(s)
        /\ \A i \in 1..(Len(q) + Len(s)) : (q \o s)[i] = IF i <= Len(q) THEN q[i] ELSE s[i - Len(q)]
    BY <1>1, <1>2, ConcatProperties
  <2>2. Len(q) + Len(s) = b + n - a BY <1>1, <1>2
  <2> QED BY <1>1, <2>1, <2>2
<1>4. \A i \in 1..(b + n - a) : (q \o s)[i] = a + i BY <1>1, <1>2, <1>3
<1>5. b + n \in Nat /\ a <= b + n OBVIOUS
<1>6. q \o s = Run(a, b + n)
  <2>1. PICK e \in Nat : e = b + n BY <1>5
  <2>2. a <= e /\ Len(q \o s) = e - a BY <1>3, <1>5, <2>1
  <2>3. \A i \in 1..(e - a) : (q \o s)[i] = a + i 
    <3>1. e - a = b + n - a BY ONLY <2>1
    <3> QED BY ONLY <1>4, <3>1
  <2>4. q \o s = Run(a, e) BY ONLY <1>3, <2>2, <2>3, IsRun, a \in Nat, e \in Nat
  <2> QED BY <2>1, <2>4
<1> QED BY <1>6 DEF q, s

LEMMA NextOfRun ==
  ASSUME NEW a \in Nat, NEW b \in Nat, a <= b
  PROVE  Append(Run(a, b), b + 1) = Run(a, b + 1)
<1> DEFINE q == Run(a, b)
<1>1. q \in Seq(Nat) /\ Len(q) = b - a /\ \A i \in 1..(b - a) : q[i] = a + i BY RunIsSeq
<1> HIDE DEF q
<1>2. /\ Append(q, b + 1) \in Seq(Nat) /\ Len(Append(q, b + 1)) = (b + 1) - a
      /\ \A i \in 1..(b + 1 - a) : Append(q, b + 1)[i] = a + i
  BY <1>1, AppendProperties
<1>3. b + 1 \in Nat /\ a <= b + 1 OBVIOUS
<1>4. Append(q, b + 1) = Run(a, b + 1)
  <2>1. PICK e \in Nat : e = b + 1 BY <1>3
  <2>2. a <= e /\ Len(Append(q, e)) = e - a /\ \A i \in 1..(e - a) : Append(q, e)[i] = a + i
    BY <1>2, <1>3, <2>1
  <2>3. Append(q, e) \in Seq(Nat) BY <1>2, <2>1
  <2>4. Append(q, e) = Run(a, e) BY ONLY <2>2, <2>3, IsRun, a \in Nat, e \in Nat
  <2> QED BY <2>1, <2>4
<1> QED BY <1>4 DEF q

\* A ring forgets by and by what it would forget at once.
LEMMA RingForgets ==
  ASSUME NEW c \in Nat, NEW b \in Nat, c <= b, NEW n \in Nat, NEW r \in Nat
  PROVE  From(From(c, b, r), b + n, r) = From(c, b + n, r)
BY DEF From

-----------------------------------------------------------------------------
(* The store                                                               *)

\* What the store keeps of a stream is a sequence of numbers.
LEMMA KeptIsSeq ==
  ASSUME StoreInv, NEW s \in Streams
  PROVE  buffer[s] \in Seq(Nat)
<1>1. PICK c \in 0..seq[s] : Keeps(s, c) BY DEF StoreInv
<1>2. seq[s] \in Nat /\ c \in Nat /\ c <= seq[s] BY DEF StoreInv
<1>3. Ring \in Nat BY LogAssumption
<1>4. From(c, seq[s], Ring) \in c..seq[s] BY <1>2, <1>3, EndOfRun
<1>5. From(c, seq[s], Ring) \in Nat /\ From(c, seq[s], Ring) <= seq[s] BY <1>2, <1>4
<1> QED BY <1>1, <1>2, <1>5, RunIsSeq DEF Keeps

\* What append() does to it: the ring goes on where it was.
LEMMA RingGoesOn ==
  ASSUME NEW c \in Nat, NEW b \in Nat, c <= b, NEW n \in Nat
  PROVE  LastOf(Run(From(c, b, Ring), b) \o [i \in 1..n |-> b + i], Ring)
           = Run(From(c, b + n, Ring), b + n)
<1>1. Ring \in Nat BY LogAssumption
<1>2. From(c, b, Ring) \in c..b BY <1>1, EndOfRun
<1>3. PICK f \in Nat : f = From(c, b, Ring) /\ f <= b BY <1>2
<1>4. PICK e \in Nat : e = b + n /\ f <= e /\ c <= e BY <1>3
<1>5. Run(f, b) \o [i \in 1..n |-> b + i] = Run(f, e) BY <1>3, <1>4, LongerRun
<1>6. LastOf(Run(f, e), Ring) = Run(From(f, e, Ring), e) BY <1>1, <1>4, EndOfRun
<1>7. From(f, e, Ring) = From(c, e, Ring)
  <2>1. From(From(c, b, Ring), b + n, Ring) = From(c, b + n, Ring) BY <1>1, RingForgets
  <2> QED BY ONLY <1>3, <1>4, <2>1
<1> QED BY <1>3, <1>4, <1>5, <1>6, <1>7

LEMMA AppendStore ==
  ASSUME StoreInv, NEW s \in Streams, NEW n \in 1..2, AppendText(s, n)
  PROVE  /\ StoreInv'
         /\ \A r \in Streams : \A c \in 0..seq[r] : Keeps(r, c) => Keeps(r, c)'
         /\ \A r \in Streams : seq'[r] = IF r = s THEN seq[s] + n ELSE seq[r]
         /\ Len(channel') = Len(channel) + n
         /\ \A j \in 1..Len(channel) : channel'[j] = channel[j]
         /\ \A i \in 1..n : channel'[Len(channel) + i] = Line(s, seq[s] + i)
<1> DEFINE new  == [i \in 1..n |-> seq[s] + i]
           sent == [i \in 1..n |-> Line(s, new[i])]
<1>1. n \in Nat /\ seq[s] \in Nat BY DEF StoreInv
<1>2. /\ seq' = [seq EXCEPT ![s] = @ + n]
      /\ buffer' = [buffer EXCEPT ![s] = LastOf(@ \o new, Ring)]
      /\ channel' = channel \o sent /\ tab' = tab /\ mount' = mount
  BY DEF AppendText
<1>3. /\ seq' \in [Streams -> Nat]
      /\ \A r \in Streams : seq'[r] = IF r = s THEN seq[s] + n ELSE seq[r]
  BY <1>1, <1>2 DEF StoreInv
<1>4. ASSUME NEW r \in Streams, NEW c \in 0..seq[r], Keeps(r, c) PROVE Keeps(r, c)'
  <2>1. CASE r = s
    <3>1. buffer'[s] = LastOf(buffer[s] \o new, Ring) BY <1>2 DEF StoreInv
    <3>2. c \in Nat /\ c <= seq[s] BY <1>1, <2>1
    <3>3. LastOf(Run(From(c, seq[s], Ring), seq[s]) \o new, Ring)
            = Run(From(c, seq[s] + n, Ring), seq[s] + n)
      BY <1>1, <3>2, RingGoesOn
    <3> HIDE DEF new
    <3> QED BY <1>3, <1>4, <2>1, <3>1, <3>3 DEF Keeps
  <2>2. CASE r # s BY <1>2, <1>3, <1>4, <2>2 DEF Keeps, StoreInv
  <2> QED BY <2>1, <2>2
<1>5. \A r \in Streams : \E c \in 0..seq'[r] : Keeps(r, c)'
  <2> TAKE r \in Streams
  <2>1. PICK c \in 0..seq[r] : Keeps(r, c) BY DEF StoreInv
  <2>2. seq[r] \in Nat BY DEF StoreInv
  <2>3. c \in 0..seq'[r] BY <1>1, <1>3, <2>2
  <2> QED BY <1>4, <2>1, <2>3
<1>6. /\ sent \in Seq(Messages) /\ Len(sent) = n /\ \A i \in 1..n : sent[i] = Line(s, seq[s] + i)
  <2>1. \A i \in 1..n : new[i] = seq[s] + i /\ seq[s] + i \in Nat BY <1>1
  <2> HIDE DEF new
  <2>2. \A i \in 1..n : Line(s, new[i]) \in Messages BY <2>1 DEF Line, Messages
  <2>3. sent \in [1..n -> Messages] BY <2>2
  <2>4. sent \in Seq(Messages) BY <1>1, <2>3
  <2>5. Len(sent) = n BY <1>1, <2>4, LenProperties
  <2> QED BY <2>1, <2>4, <2>5
<1>7. channel \in Seq(Messages) BY DEF StoreInv
<1> HIDE DEF sent, new
<1>8. /\ channel' \in Seq(Messages) /\ Len(channel') = Len(channel) + n
      /\ \A j \in 1..(Len(channel) + n) :
           channel'[j] = IF j <= Len(channel) THEN channel[j] ELSE sent[j - Len(channel)]
  BY <1>2, <1>6, <1>7, ConcatProperties
<1>9. Len(channel) \in Nat BY <1>7, LenProperties
<1>10. \A j \in 1..Len(channel) : channel'[j] = channel[j] BY <1>1, <1>8, <1>9
<1>11. \A i \in 1..n : channel'[Len(channel) + i] = Line(s, seq[s] + i)
  <2> TAKE i \in 1..n
  <2>1. channel'[Len(channel) + i] = sent[i] BY <1>1, <1>8, <1>9
  <2> QED BY <1>6, <2>1
<1>12. DOMAIN buffer' = Streams BY <1>2 DEF StoreInv
<1>13. tab' \in Streams \cup {NoTab} /\ mount' \in Nat BY <1>2 DEF StoreInv
<1>14. StoreInv' BY <1>3, <1>5, <1>8, <1>12, <1>13 DEF StoreInv
<1> QED BY <1>3, <1>4, <1>8, <1>10, <1>11, <1>14

\* The other handlers.
LEMMA OtherStore ==
  ASSUME StoreInv, [LNext]_logVars, ~\E s \in Streams : \E n \in 1..2 : AppendText(s, n)
  PROVE  StoreInv' /\ seq' = seq
<1>1. ASSUME NEW s \in Streams, OpenTab(s) PROVE StoreInv' /\ seq' = seq
  <2>1. buffer[s] \in Seq(Nat) BY KeptIsSeq
  <2>2. mount' = mount + 1 /\ tab' = s /\ seq' = seq /\ buffer' = buffer
    BY <1>1 DEF OpenTab
  <2>3. History(mount', buffer[s]) \in Messages BY <2>1, <2>2 DEF StoreInv, History, Messages
  <2>4. channel' \in Seq(Messages) BY <1>1, <2>3, AppendProperties DEF OpenTab, StoreInv
  <2> QED BY <2>2, <2>4 DEF StoreInv, Keeps
<1>2. CASE LeaveTab BY <1>2 DEF LeaveTab, StoreInv, Keeps
<1>3. CASE ClearLog
  <2>1. /\ tab \in Streams /\ tab' = tab /\ seq' = seq /\ mount' = mount
        /\ buffer' = [buffer EXCEPT ![tab] = <<>>]
    BY <1>3 DEF ClearLog, StoreInv
  <2>2. channel' \in Seq(Messages)
    BY <1>3, AppendProperties DEF ClearLog, StoreInv, Messages
  <2>3. ASSUME NEW s \in Streams PROVE \E c \in 0..seq'[s] : Keeps(s, c)'
    <3>1. PICK c \in 0..seq[s] : Keeps(s, c) BY DEF StoreInv
    <3>2. CASE s # tab
      <4>1. Keeps(s, c)' BY <2>1, <3>1, <3>2 DEF Keeps, StoreInv
      <4> QED BY <2>1, <4>1
    <3>3. CASE s = tab
      <4>1. PICK e \in Nat : e = seq[tab] BY <2>1 DEF StoreInv
      <4>2. From(e, e, Ring) = e /\ Run(e, e) = <<>> BY LogAssumption, EmptyRun DEF From
      <4>3. buffer'[tab] = <<>> BY <2>1 DEF StoreInv
      <4>4. e \in 0..seq'[s] /\ seq'[s] = e BY <2>1, <3>3, <4>1
      <4> QED BY <3>3, <4>2, <4>3, <4>4 DEF Keeps
    <3> QED BY <3>2, <3>3
  <2> QED BY <2>1, <2>2, <2>3 DEF StoreInv
<1>4. CASE Receive
  <2>1. channel' \in Seq(Messages) BY <1>4, HeadTailProperties DEF Receive, StoreInv
  <2> QED BY <1>4, <2>1 DEF Receive, StoreInv, Keeps
<1>5. CASE UNCHANGED logVars BY <1>5 DEF logVars, StoreInv, Keeps
<1> QED BY <1>1, <1>2, <1>3, <1>4, <1>5 DEF LNext

-----------------------------------------------------------------------------
(* The view                                                                *)

\* While lines are logged.
LEMMA AppendView ==
  ASSUME LogInv, NEW s \in Streams, NEW n \in 1..2, AppendText(s, n)
  PROVE  ViewInv'
<1> SUFFICES ASSUME tab # NoTab PROVE ViewInv' BY DEF AppendText, ViewInv
<1>1. PICK c \in 0..seq[tab], f \in 0..seq[tab], l \in 0..seq[tab], p \in 0..Len(channel) :
        Keeps(tab, c) /\ Shows(c, f, l) /\ Replaces(p) /\ Base(p) = Run(f, l) /\ Awaits(p, l)
  BY DEF LogInv, ViewInv
<1>2. StoreInv BY DEF LogInv
<1>3. /\ \A r \in Streams : \A d \in 0..seq[r] : Keeps(r, d) => Keeps(r, d)'
      /\ \A r \in Streams : seq'[r] = IF r = s THEN seq[s] + n ELSE seq[r]
      /\ Len(channel') = Len(channel) + n
      /\ \A j \in 1..Len(channel) : channel'[j] = channel[j]
      /\ \A i \in 1..n : channel'[Len(channel) + i] = Line(s, seq[s] + i)
  BY <1>2, AppendStore
<1>4. PICK m \in Nat : m = Len(channel) BY <1>2, LenProperties DEF StoreInv
<1>5. PICK b \in Nat : b = seq[tab] BY <1>2 DEF StoreInv
<1>6. PICK e \in Nat : e = seq'[tab] /\ e = IF tab = s THEN b + n ELSE b
  BY <1>2, <1>3, <1>5 DEF StoreInv
<1>7. tab' = tab /\ tab \in Streams /\ mount' = mount /\ lines' = lines
  BY <1>2 DEF AppendText, StoreInv
<1>8. c \in 0..e /\ f \in 0..e /\ l \in 0..e /\ p \in 0..m /\ p \in 0..Len(channel')
  <2>1. c \in 0..b /\ f \in 0..b /\ l \in 0..b /\ p \in 0..m BY <1>1, <1>4, <1>5
  <2>2. b <= e /\ Len(channel') = m + n BY <1>3, <1>4, <1>6
  <2> QED BY ONLY <2>1, <2>2, b \in Nat, e \in Nat, m \in Nat, n \in 1..2
<1>9. \A j \in 1..Len(channel') :
        \/ j \in 1..m /\ channel'[j] = channel[j]
        \/ \E i \in 1..n : j = m + i /\ channel'[j] = Line(s, seq[s] + i)
  <2> TAKE j \in 1..Len(channel')
  <2>1. j \in 1..m \/ \E i \in 1..n : j = m + i
    <3>1. j > m => j - m \in 1..n /\ j = m + (j - m) BY <1>3, <1>4
    <3> QED BY <1>3, <1>4, <3>1
  <2> QED BY <1>3, <1>4, <2>1
<1>10. Keeps(tab, c)' BY <1>1, <1>3, <1>7
<1>11. Replaces(p)' /\ Base(p)' = Run(f, l)
  <2>1. p > 0 => p \in 1..m /\ channel'[p] = channel[p] BY <1>3, <1>4, <1>8
  <2>2. \A j \in 1..Len(channel') : j > p => channel'[j].is = "line"
    <3> TAKE j \in 1..Len(channel')
    <3>1. CASE j \in 1..m /\ channel'[j] = channel[j] BY <1>1, <1>4, <3>1 DEF Replaces
    <3>2. ASSUME NEW i \in 1..n, channel'[j] = Line(s, seq[s] + i) PROVE channel'[j].is = "line"
      BY <3>2 DEF Line
    <3> QED BY <1>9, <3>1, <3>2
  <2>3. Base(p)' = Base(p) BY <1>7, <1>8, <2>1 DEF Base
  <2> QED BY <1>1, <1>7, <2>1, <2>2, <2>3 DEF Replaces
<1>12. Awaits(p, l)'
  <2> DEFINE Coming == {j \in 1..Len(channel) : j > p /\ channel[j].of = tab}
             Coming2 == {j \in 1..Len(channel') : j > p /\ channel'[j].of = tab}
  <2>1. /\ \A j \in Coming : channel[j].number \in (l + 1)..b
        /\ \A k \in (l + 1)..b : \E j \in Coming : channel[j].number = k
        /\ \A i, j \in Coming : i < j => channel[i].number < channel[j].number
    BY <1>1, <1>5 DEF Awaits
  <2>2. \A j \in Coming2 :
          \/ j \in Coming /\ j <= m /\ channel'[j] = channel[j]
          \/ tab = s /\ \E i \in 1..n : j = m + i /\ channel'[j].number = b + i
    <3> TAKE j \in Coming2
    <3>1. j \in 1..Len(channel') /\ j > p /\ channel'[j].of = tab OBVIOUS
    <3>2. CASE j \in 1..m /\ channel'[j] = channel[j] BY <1>4, <3>1, <3>2
    <3>3. ASSUME NEW i \in 1..n, j = m + i, channel'[j] = Line(s, seq[s] + i)
          PROVE  tab = s /\ channel'[j].number = b + i
      BY <1>5, <3>1, <3>3 DEF Line
    <3> QED BY <1>9, <3>1, <3>2, <3>3
  <2>3. \A j \in Coming : j \in Coming2 /\ channel'[j] = channel[j] BY <1>3, <1>4
  <2>4. tab = s => \A i \in 1..n : m + i \in Coming2 /\ channel'[m + i].number = b + i
    <3>1. SUFFICES ASSUME tab = s, NEW i \in 1..n
                   PROVE m + i \in Coming2 /\ channel'[m + i].number = b + i
      OBVIOUS
    <3>2. m + i \in 1..Len(channel') /\ m + i > p BY <1>3, <1>4, <1>8
    <3>3. channel'[m + i] = Line(tab, b + i) BY <1>3, <1>4, <1>5, <3>1
    <3> QED BY <3>2, <3>3 DEF Line
  <2>5. l <= b /\ \A j \in Coming2 : j \in Nat BY <1>1, <1>5
  <2> HIDE DEF Coming, Coming2
  <2>6. \A j \in Coming2 : channel'[j].number \in (l + 1)..e
    <3> TAKE j \in Coming2
    <3>1. CASE j \in Coming /\ channel'[j] = channel[j] BY <1>6, <2>1, <3>1
    <3>2. ASSUME tab = s, NEW i \in 1..n, channel'[j].number = b + i
          PROVE channel'[j].number \in (l + 1)..e
      BY <1>6, <2>5, <3>2
    <3> QED BY <2>2, <3>1, <3>2
  <2>7. \A k \in (l + 1)..e : \E j \in Coming2 : channel'[j].number = k
    <3> TAKE k \in (l + 1)..e
    <3>1. CASE k <= b BY <2>1, <2>3, <3>1
    <3>2. CASE k > b
      <4>1. tab = s /\ k - b \in 1..n /\ k = b + (k - b) BY <1>6, <3>2
      <4> QED BY <2>4, <4>1
    <3> QED BY <3>1, <3>2
  <2>8. \A i, j \in Coming2 : i < j => channel'[i].number < channel'[j].number
    <3> TAKE i, j \in Coming2
    <3>1. CASE i \in Coming /\ j \in Coming BY <2>1, <2>3, <3>1
    <3>2. CASE i \in Coming /\ j \notin Coming
      <4>1. channel'[i].number \in (l + 1)..b BY <2>1, <2>3, <3>2
      <4>2. PICK x \in 1..n : channel'[j].number = b + x BY <2>2, <3>2
      <4> QED BY <4>1, <4>2
    <3>3. ASSUME i < j, i \notin Coming PROVE channel'[i].number < channel'[j].number
      <4>1. PICK x \in 1..n : i = m + x /\ channel'[i].number = b + x BY <2>2, <3>3
      <4>2. ~(j <= m) BY <2>5, <3>3, <4>1
      <4>3. PICK y \in 1..n : j = m + y /\ channel'[j].number = b + y BY <2>2, <4>2
      <4> QED BY <3>3, <4>1, <4>3
    <3> QED BY <3>1, <3>2, <3>3
  <2> QED BY <1>6, <1>7, <2>6, <2>7, <2>8 DEF Awaits, Coming2
<1> QED BY <1>1, <1>6, <1>7, <1>8, <1>10, <1>11, <1>12 DEF ViewInv

\* A message that replaces what is shown, sent last: there is nothing after it.
LEMMA SentLast ==
  ASSUME NEW q \in Seq(Messages), NEW msg \in Messages
  PROVE  /\ Append(q, msg) \in Seq(Messages) /\ Len(q) \in Nat
         /\ Len(Append(q, msg)) = Len(q) + 1 /\ Append(q, msg)[Len(q) + 1] = msg
         /\ ~\E j \in 1..Len(Append(q, msg)) : j > Len(q) + 1
BY AppendProperties, LenProperties

LEMMA OpenView ==
  ASSUME LogInv, NEW s \in Streams, OpenTab(s)
  PROVE  ViewInv'
<1>1. StoreInv BY DEF LogInv
<1>2. PICK c \in 0..seq[s] : Keeps(s, c) BY <1>1 DEF StoreInv
<1>3. PICK b \in Nat : b = seq[s] /\ c \in Nat /\ c <= b BY <1>1 DEF StoreInv
<1>4. PICK f \in c..b : f = From(c, b, Ring) /\ b - f <= Ring /\ (f = c \/ b - f >= MaxRender)
  <2>1. Ring \in Nat /\ MaxRender \in Nat /\ MaxRender < Ring BY LogAssumption
  <2>2. From(c, b, Ring) \in c..b BY <1>3, <2>1, EndOfRun
  <2>3. /\ b - From(c, b, Ring) <= Ring
        /\ From(c, b, Ring) = c \/ b - From(c, b, Ring) >= MaxRender
    BY <1>3, <2>1 DEF From
  <2> QED BY <2>2, <2>3
<1>5. PICK msg \in Messages : msg = History(mount + 1, buffer[s])
  <2>1. buffer[s] \in Seq(Nat) /\ mount + 1 \in Nat BY <1>1, KeptIsSeq DEF StoreInv
  <2>2. History(mount + 1, buffer[s]) \in Messages BY <2>1 DEF History, Messages
  <2> QED BY <2>2
<1>6. /\ channel' = Append(channel, msg) /\ tab' = s /\ mount' = mount + 1
      /\ seq' = seq /\ buffer' = buffer
  BY <1>5 DEF OpenTab
<1>7. PICK m \in Nat : m = Len(channel) BY <1>1, LenProperties DEF StoreInv
<1>8. Len(channel') = m + 1 /\ channel'[m + 1] = msg /\ ~\E j \in 1..Len(channel') : j > m + 1
  BY <1>1, <1>6, <1>7, SentLast DEF StoreInv
<1>9. Keeps(s, c)' BY <1>2, <1>6 DEF Keeps
<1>10. Shows(c, f, b) BY <1>3, <1>4 DEF Shows
<1>11. Replaces(m + 1)' BY <1>5, <1>6, <1>8 DEF Replaces, History
<1>12. Base(m + 1)' = Run(f, b)
  BY <1>2, <1>3, <1>4, <1>5, <1>6, <1>7, <1>8 DEF Base, History, Keeps
<1>13. Awaits(m + 1, b)' BY <1>3, <1>6, <1>8 DEF Awaits
<1>14. m + 1 \in 0..Len(channel') /\ c \in 0..seq'[s] /\ f \in 0..seq'[s] /\ b \in 0..seq'[s]
  BY <1>3, <1>4, <1>6, <1>7, <1>8
<1> QED BY <1>6, <1>9, <1>10, <1>11, <1>12, <1>13, <1>14 DEF ViewInv

LEMMA ClearView ==
  ASSUME LogInv, ClearLog
  PROVE  ViewInv'
<1>1. StoreInv BY DEF LogInv
<1>2. tab \in Streams /\ tab' = tab /\ seq' = seq /\ channel' = Append(channel, Cleared)
      /\ buffer' = [buffer EXCEPT ![tab] = <<>>]
  BY <1>1 DEF ClearLog, StoreInv
<1>3. PICK b \in Nat : b = seq[tab] BY <1>1, <1>2 DEF StoreInv
<1>4. From(b, b, Ring) = b /\ Run(b, b) = <<>> BY LogAssumption, EmptyRun DEF From
<1>5. Keeps(tab, b)' BY <1>1, <1>2, <1>3, <1>4 DEF Keeps, StoreInv
<1>6. Shows(b, b, b) BY LogAssumption DEF Shows
<1>7. PICK m \in Nat : m = Len(channel) BY <1>1, LenProperties DEF StoreInv
<1>8. /\ Len(channel') = m + 1 /\ channel'[m + 1] = Cleared
      /\ ~\E j \in 1..Len(channel') : j > m + 1
  BY <1>1, <1>2, <1>7, SentLast DEF StoreInv, Messages
<1>9. Replaces(m + 1)' BY <1>2, <1>8 DEF Replaces, Cleared
<1>10. Base(m + 1)' = Run(b, b) BY <1>4, <1>7, <1>8 DEF Base, Cleared
<1>11. Awaits(m + 1, b)' BY <1>2, <1>3, <1>8 DEF Awaits
<1>12. m + 1 \in 0..Len(channel') /\ b \in 0..seq'[tab] BY <1>2, <1>3, <1>7, <1>8
<1> QED BY <1>2, <1>5, <1>6, <1>9, <1>10, <1>11, <1>12 DEF ViewInv

\* What one more line does to what is shown.
LEMMA LineIsShown ==
  ASSUME NEW c \in Nat, NEW f \in Nat, NEW l \in Nat, Shows(c, f, l)
  PROVE  \E g \in f..l :
           /\ Shows(c, g, l + 1)
           /\ Run(g, l + 1) = IF Len(Run(f, l)) > MaxRender
                              THEN Append(LastOf(Run(f, l), MaxRender), l + 1)
                              ELSE Append(Run(f, l), l + 1)
<1>1. MaxRender \in Nat \ {0} /\ Ring \in Nat /\ MaxRender + 1 <= Ring BY LogAssumption
<1>2. f <= l /\ Len(Run(f, l)) = l - f BY RunIsSeq DEF Shows
<1>3. CASE l - f > MaxRender
  <2>1. PICK g \in f..l : g = l - MaxRender BY <1>1, <1>3
  <2>2. LastOf(Run(f, l), MaxRender) = Run(g, l)
    BY <1>1, <1>2, <1>3, <2>1, EndOfRun DEF From
  <2>3. Append(Run(g, l), l + 1) = Run(g, l + 1)
    <3>1. g \in Nat /\ g <= l BY <2>1
    <3> QED BY ONLY <3>1, NextOfRun, l \in Nat
  <2>4. Shows(c, g, l + 1) BY <1>1, <1>3, <2>1 DEF Shows
  <2> QED BY <1>2, <1>3, <2>2, <2>3, <2>4
<1>4. CASE ~(l - f > MaxRender)
  <2>1. Append(Run(f, l), l + 1) = Run(f, l + 1) BY <1>2, NextOfRun
  <2>2. Shows(c, f, l + 1) BY <1>1, <1>4 DEF Shows
  <2>3. f \in f..l BY <1>2
  <2>4. ~(Len(Run(f, l)) > MaxRender) BY <1>2, <1>4
  <2> QED BY ONLY <2>1, <2>2, <2>3, <2>4
<1> QED BY <1>3, <1>4

\* The window takes a message that something sent later will replace, or that
\* replaces what is shown, or a line after those.
LEMMA ReceiveView ==
  ASSUME LogInv, Receive
  PROVE  ViewInv'
<1> SUFFICES ASSUME tab # NoTab PROVE ViewInv' BY DEF Receive, ViewInv
<1>1. PICK c \in 0..seq[tab], f \in 0..seq[tab], l \in 0..seq[tab], p \in 0..Len(channel) :
        Keeps(tab, c) /\ Shows(c, f, l) /\ Replaces(p) /\ Base(p) = Run(f, l) /\ Awaits(p, l)
  BY DEF LogInv, ViewInv
<1>2. StoreInv BY DEF LogInv
<1>3. tab \in Streams /\ tab' = tab /\ seq' = seq /\ buffer' = buffer /\ mount' = mount
  BY <1>2 DEF Receive, StoreInv
<1>4. PICK b \in Nat : b = seq[tab] BY <1>2, <1>3 DEF StoreInv
<1>5. PICK m \in Nat : m = Len(channel) /\ m > 0
  BY <1>2, LenProperties, EmptySeq DEF StoreInv, Receive
<1>6. /\ channel' = Tail(channel) /\ Len(channel') = m - 1 /\ Head(channel) = channel[1]
      /\ \A j \in 1..(m - 1) : channel'[j] = channel[j + 1]
  BY <1>2, <1>5, HeadTailProperties DEF StoreInv, Receive
<1>7. c \in 0..b /\ f \in 0..b /\ l \in 0..b /\ p \in 0..m BY <1>1, <1>4, <1>5
<1>8. Keeps(tab, c)' BY <1>1, <1>3 DEF Keeps
<1> DEFINE Coming == {j \in 1..Len(channel) : j > p /\ channel[j].of = tab}
<1>9. /\ \A j \in Coming : channel[j].number \in (l + 1)..b
      /\ \A k \in (l + 1)..b : \E j \in Coming : channel[j].number = k
      /\ \A i, j \in Coming : i < j => channel[i].number < channel[j].number
  BY <1>1, <1>4 DEF Awaits
\* The rest of the lines, when no line of the tab was taken.
<1>10. ASSUME NEW q \in 0..(m - 1),
              \A j \in 1..m : j > p => (j = 1 /\ channel[1].of # tab) \/ (j > 1 /\ j - 1 > q),
              \A j \in 1..(m - 1) : j > q => j + 1 > p
       PROVE  Awaits(q, l)'
  <2> DEFINE Coming2 == {j \in 1..Len(channel') : j > q /\ channel'[j].of = tab}
  <2>1. \A j \in Coming2 : j \in Nat /\ j + 1 \in Coming /\ channel'[j] = channel[j + 1]
    BY <1>5, <1>6, <1>10
  <2>2. \A j \in Coming : j \in Nat /\ j - 1 \in Coming2 /\ channel'[j - 1] = channel[j]
    BY <1>5, <1>6, <1>10
  <2> HIDE DEF Coming, Coming2
  <2>3. \A j \in Coming2 : channel'[j].number \in (l + 1)..b BY <1>9, <2>1
  <2>4. \A k \in (l + 1)..b : \E j \in Coming2 : channel'[j].number = k BY <1>9, <2>2
  <2>5. \A i, j \in Coming2 : i < j => channel'[i].number < channel'[j].number
    <3> TAKE i, j \in Coming2
    <3>1. i < j => i + 1 < j + 1 BY <2>1
    <3> QED BY <1>9, <2>1, <3>1
  <2> QED BY <1>3, <1>4, <2>3, <2>4, <2>5 DEF Awaits, Coming2
<1>11. CASE p > 1
  <2>1. p - 1 \in 0..(m - 1) /\ p - 1 > 0 BY <1>7, <1>11
  <2>2. channel'[p - 1] = channel[p] BY <1>6, <1>7, <1>11
  <2>3. \A j \in 1..Len(channel') : j > p - 1 => channel'[j].is = "line"
    <3> TAKE j \in 1..Len(channel')
    <3>1. j > p - 1 => j + 1 \in 1..Len(channel) /\ j + 1 > p /\ channel'[j] = channel[j + 1]
      BY <1>5, <1>6, <1>7
    <3> QED BY <1>1, <3>1 DEF Replaces
  <2>4. Replaces(p - 1)' BY <1>1, <1>3, <1>11, <2>2, <2>3 DEF Replaces
  <2>5. Base(p - 1)' = Run(f, l) BY <1>1, <1>11, <2>1, <2>2 DEF Base
  <2>6. Awaits(p - 1, l)' BY <1>7, <1>10, <1>11, <2>1
  <2>7. p - 1 \in 0..Len(channel') BY <1>6, <2>1
  <2> QED BY <1>1, <1>3, <1>8, <2>4, <2>5, <2>6, <2>7 DEF ViewInv
<1>12. CASE p = 1
  <2>1. lines' = Run(f, l)
    BY <1>1, <1>6, <1>12 DEF Receive, Base, Replaces
  <2>2. \A j \in 1..Len(channel') : j > 0 => channel'[j].is = "line"
    <3> TAKE j \in 1..Len(channel')
    <3>1. j + 1 \in 1..Len(channel) /\ j + 1 > p /\ channel'[j] = channel[j + 1]
      BY <1>5, <1>6, <1>12
    <3> QED BY <1>1, <3>1 DEF Replaces
  <2>3. Replaces(0)' BY <2>2 DEF Replaces
  <2>4. Base(0)' = Run(f, l) BY <2>1 DEF Base
  <2>5. Awaits(0, l)' BY <1>5, <1>10, <1>12
  <2>6. 0 \in 0..Len(channel') BY <1>5, <1>6
  <2> QED BY <1>1, <1>3, <1>8, <2>3, <2>4, <2>5, <2>6 DEF ViewInv
<1>13. CASE p = 0
  <2>1. channel[1].is = "line" /\ lines = Run(f, l)
    BY <1>1, <1>5, <1>13 DEF Replaces, Base
  <2>2. \A j \in 1..Len(channel') : j > 0 => channel'[j].is = "line"
    <3> TAKE j \in 1..Len(channel')
    <3>1. j + 1 \in 1..Len(channel) /\ j + 1 > p /\ channel'[j] = channel[j + 1]
      BY <1>5, <1>6, <1>13
    <3> QED BY <1>1, <3>1 DEF Replaces
  <2>3. Replaces(0)' /\ 0 \in 0..Len(channel') BY <1>5, <1>6, <2>2 DEF Replaces
  <2>4. CASE channel[1].of # tab
    <3>1. lines' = lines BY <1>6, <2>1, <2>4 DEF Receive
    <3>2. Base(0)' = Run(f, l) BY <2>1, <3>1 DEF Base
    <3>3. Awaits(0, l)'
      <4>1. 0 \in 0..(m - 1) BY <1>5
      <4>2. \A j \in 1..m : j = 1 \/ (j > 1 /\ j - 1 > 0) OBVIOUS
      <4>3. \A j \in 1..(m - 1) : j + 1 > p BY <1>13
      <4> QED BY <1>10, <2>4, <4>1, <4>2, <4>3
    <3> QED BY <1>1, <1>3, <1>8, <2>3, <3>2, <3>3 DEF ViewInv
  <2>5. CASE channel[1].of = tab
    <3>1. 1 \in Coming /\ \A j \in Coming : j \in Nat /\ (j = 1 \/ 1 < j) BY <1>5, <1>13, <2>5
    <3> HIDE DEF Coming
    <3>2. channel[1].number = l + 1 /\ l + 1 \in 1..b
      <4>1. channel[1].number \in (l + 1)..b BY <1>9, <3>1
      <4>2. l + 1 \in (l + 1)..b BY <1>7, <4>1
      <4>3. PICK j \in Coming : channel[j].number = l + 1 BY <1>9, <4>2
      <4>4. j = 1 \/ channel[1].number < l + 1 BY <1>9, <3>1, <4>3
      <4> QED BY <1>7, <4>1, <4>2, <4>3, <4>4
    <3>3. lines' = IF Len(lines) > MaxRender THEN Append(LastOf(lines, MaxRender), l + 1)
                   ELSE Append(lines, l + 1)
      BY <1>6, <2>1, <2>5, <3>2 DEF Receive
    <3>4. PICK g \in f..l : Shows(c, g, l + 1) /\ Run(g, l + 1) = lines'
      <4>1. c \in Nat /\ f \in Nat /\ l \in Nat /\ Shows(c, f, l) BY <1>1, <1>7
      <4>2. PICK g \in f..l :
              /\ Shows(c, g, l + 1)
              /\ Run(g, l + 1) = IF Len(Run(f, l)) > MaxRender
                                 THEN Append(LastOf(Run(f, l), MaxRender), l + 1)
                                 ELSE Append(Run(f, l), l + 1)
        BY ONLY <4>1, LineIsShown
      <4> QED BY <2>1, <3>3, <4>2
    <3>5. Base(0)' = Run(g, l + 1) BY <3>4 DEF Base
    <3>6. Awaits(0, l + 1)'
      <4> DEFINE Coming2 == {j \in 1..Len(channel') : j > 0 /\ channel'[j].of = tab}
      <4>1. \A j \in Coming2 : j \in Nat /\ j + 1 \in Coming /\ j + 1 > 1 /\ channel'[j] = channel[j + 1]
        BY <1>5, <1>6, <1>13 DEF Coming
      <4>2. \A j \in Coming : j # 1 => j - 1 \in Coming2 /\ channel'[j - 1] = channel[j]
        BY <1>5, <1>6, <1>13 DEF Coming
      <4> HIDE DEF Coming2
      <4>3. \A j \in Coming2 : channel'[j].number \in (l + 2)..b
        BY <1>7, <1>9, <3>1, <3>2, <4>1
      <4>4. \A k \in (l + 2)..b : \E j \in Coming2 : channel'[j].number = k
        <5> TAKE k \in (l + 2)..b
        <5>1. k \in (l + 1)..b /\ k # l + 1 BY <1>7
        <5>2. PICK j \in Coming : channel[j].number = k BY <1>9, <5>1
        <5>3. j # 1 BY <3>2, <5>1, <5>2
        <5> QED BY <4>2, <5>2, <5>3
      <4>5. \A i, j \in Coming2 : i < j => channel'[i].number < channel'[j].number
        <5> TAKE i, j \in Coming2
        <5>1. i < j => i + 1 < j + 1 BY <4>1
        <5> QED BY <1>9, <4>1, <5>1
      <4>6. (l + 1) + 1 = l + 2 BY <1>7
      <4> QED BY <1>3, <1>4, <4>3, <4>4, <4>5, <4>6 DEF Awaits, Coming2
    <3>7. g \in 0..b /\ l + 1 \in 0..b BY <1>7, <3>2, <3>4
    <3> QED BY <1>1, <1>3, <1>4, <1>8, <2>3, <3>4, <3>5, <3>6, <3>7 DEF ViewInv
  <2> QED BY <2>4, <2>5
<1> QED BY <1>7, <1>11, <1>12, <1>13

LEMMA LogStep == LogInv /\ [LNext]_logVars => LogInv'
<1> SUFFICES ASSUME LogInv, [LNext]_logVars PROVE LogInv' OBVIOUS
<1>1. StoreInv' BY AppendStore, OtherStore DEF LogInv
<1>2. ASSUME NEW s \in Streams, NEW n \in 1..2, AppendText(s, n) PROVE ViewInv' BY <1>2, AppendView
<1>3. ASSUME NEW s \in Streams, OpenTab(s) PROVE ViewInv' BY <1>3, OpenView
<1>4. ASSUME LeaveTab PROVE ViewInv' BY <1>4 DEF LeaveTab, ViewInv
<1>5. ASSUME ClearLog PROVE ViewInv' BY <1>5, ClearView
<1>6. ASSUME Receive PROVE ViewInv' BY <1>6, ReceiveView
<1>7. ASSUME UNCHANGED logVars PROVE ViewInv'
  <2>1. tab' = tab /\ seq' = seq /\ buffer' = buffer /\ channel' = channel /\ mount' = mount /\ lines' = lines
    BY <1>7 DEF logVars
  <2>2. CASE tab = NoTab BY ONLY <2>1, <2>2 DEF ViewInv
  <2>3. CASE tab # NoTab
    <3>1. PICK c \in 0..seq[tab], f \in 0..seq[tab], l \in 0..seq[tab], p \in 0..Len(channel) :
            Keeps(tab, c) /\ Shows(c, f, l) /\ Replaces(p) /\ Base(p) = Run(f, l) /\ Awaits(p, l)
      BY <2>3 DEF LogInv, ViewInv
    <3>2. Keeps(tab, c)' BY ONLY <2>1, <3>1 DEF Keeps
    <3>3. Replaces(p)' BY ONLY <2>1, <3>1 DEF Replaces
    <3>4. Base(p)' = Run(f, l) BY ONLY <2>1, <3>1 DEF Base
    <3>5. Awaits(p, l)' BY ONLY <2>1, <3>1 DEF Awaits
    <3>6. c \in 0..seq'[tab'] /\ f \in 0..seq'[tab'] /\ l \in 0..seq'[tab'] /\ p \in 0..Len(channel')
      BY ONLY <2>1, <3>1
    <3>7. Keeps(tab, c)' /\ Shows(c, f, l)' /\ Base(p)' = Run(f, l)' BY <3>1, <3>2, <3>4 DEF Shows, Run
    <3> QED BY <3>3, <3>5, <3>6, <3>7 DEF ViewInv
  <2> QED BY <2>2, <2>3
<1> QED BY <1>1, <1>2, <1>3, <1>4, <1>5, <1>6, <1>7 DEF LNext, LogInv

LEMMA LogStart == LInit => LogInv
<1> SUFFICES ASSUME LInit PROVE LogInv OBVIOUS
<1>1. /\ channel = <<>> /\ channel \in Seq(Messages) /\ mount = 0 /\ tab = NoTab
      /\ seq \in [Streams -> Nat] /\ DOMAIN buffer = Streams
  BY DEF LInit
<1>2. ASSUME NEW s \in Streams PROVE 0 \in 0..seq[s] /\ Keeps(s, 0)
  <2>1. From(0, 0, Ring) = 0 /\ Run(0, 0) = <<>> BY LogAssumption, EmptyRun DEF From
  <2> QED BY <2>1 DEF LInit, Keeps
<1>3. StoreInv BY <1>1, <1>2 DEF StoreInv
<1> QED BY <1>1, <1>3 DEF LogInv, ViewInv

\* When all has been received the view is the end of the ring.
LEMMA ReceivedIsTheLog == LogInv => ViewIsTheLog
<1> SUFFICES ASSUME LogInv, tab # NoTab, channel = <<>>
             PROVE  /\ lines = LastOf(buffer[tab], Len(lines))
                    /\ Len(lines) >= MaxRender \/ lines = buffer[tab]
  BY DEF ViewIsTheLog
<1>1. PICK c \in 0..seq[tab], f \in 0..seq[tab], l \in 0..seq[tab], p \in 0..Len(channel) :
        Keeps(tab, c) /\ Shows(c, f, l) /\ Replaces(p) /\ Base(p) = Run(f, l) /\ Awaits(p, l)
  BY DEF LogInv, ViewInv
<1>2. PICK b \in Nat : b = seq[tab] BY DEF LogInv, StoreInv
<1>3. c \in 0..b /\ f \in 0..b /\ l \in 0..b BY <1>1, <1>2
<1>4. Len(channel) = 0 BY EmptySeq
<1>5. p = 0 /\ lines = Run(f, l) BY <1>1, <1>4 DEF Base
<1>6. l = b
  <2>1. ~\E n \in (l + 1)..b : TRUE BY <1>1, <1>2, <1>4 DEF Awaits
  <2> QED BY <1>3, <2>1
<1>7. Ring \in Nat /\ MaxRender \in Nat BY LogAssumption
<1>8. PICK g \in c..b : g = From(c, b, Ring) /\ buffer[tab] = Run(g, b)
  <2>1. From(c, b, Ring) \in c..b BY <1>3, <1>7, EndOfRun
  <2> QED BY <1>1, <1>2, <2>1 DEF Keeps
<1>9. g <= f /\ (f = g \/ b - f >= MaxRender) BY <1>1, <1>3, <1>6, <1>7, <1>8 DEF Shows, From
<1>10. Len(lines) = b - f
  <2>1. f \in Nat /\ f <= b BY <1>3
  <2>2. Len(Run(f, b)) = b - f BY ONLY <2>1, RunIsSeq, b \in Nat
  <2> QED BY <1>5, <1>6, <2>2
<1>11. LastOf(Run(g, b), b - f) = Run(f, b)
  <2>1. g \in Nat /\ g <= b /\ b - f \in Nat BY <1>3, <1>8
  <2>2. LastOf(Run(g, b), b - f) = Run(From(g, b, b - f), b) BY <2>1, EndOfRun
  <2>3. From(g, b, b - f) = f BY <1>3, <1>8, <1>9 DEF From
  <2> QED BY <2>2, <2>3
<1> QED BY <1>5, <1>6, <1>8, <1>9, <1>10, <1>11

\* A view that has received all that was sent shows the end of what the store
\* keeps of its stream, whatever was logged, cleared and opened on the way, for
\* any streams and any sizes of ring and view.
THEOREM ViewShowsTheLog == LSpec => []ViewIsTheLog
<1> QED BY LogStart, LogStep, ReceivedIsTheLog, PTL DEF LSpec
=============================================================================
