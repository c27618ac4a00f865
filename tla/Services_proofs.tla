--------------------------- MODULE Services_proofs ----------------------------
(***************************************************************************)
(* Proofs about the services, for every value of the constants of          *)
(* ServiceDaemon and EventBus; the two modules share no state.             *)
(*                                                                         *)
(*  - A process is well typed, and a service whose exit reports success    *)
(*    has cut off no request, for any number of requests and signals.      *)
(*  - The result of a publish is true, delivery is at least once, and a    *)
(*    graceful shutdown leaves nothing connected, for any events and any   *)
(*    number of consumers.                                                 *)
(***************************************************************************)
EXTENDS ServiceDaemon, EventBus, TLAPS

-----------------------------------------------------------------------------
(* The life of a process                                                   *)

\* Only an exit has a code, and only an exit cuts a request off.
RunningIsWhole ==
  phase # "exited" => code = "none" /\ \A r \in Requests : req[r] # "cut"

\* The inductive invariant: once the process has exited nothing changes, and
\* before that no request is cut, so the exit itself is what has to be clean.
DInv == DTypeOK /\ RunningIsWhole /\ CleanExitIsDrained

LEMMA DaemonInit == DInit => DInv
<1> SUFFICES ASSUME DInit PROVE DInv
  OBVIOUS
<1>1. signals \in 0..MaxSignals
  BY DaemonAssumption DEF DInit
<1>2. DTypeOK
  BY <1>1 DEF DInit, DTypeOK
<1>3. RunningIsWhole /\ CleanExitIsDrained
  BY DEF DInit, RunningIsWhole, CleanExitIsDrained
<1>4. QED
  BY <1>2, <1>3 DEF DInv

\* Any exit is well typed; it is clean if it is no success, or not of a service,
\* or nothing was under way.
LEMMA ExitKeeps ==
  ASSUME DInv, phase # "exited",
         NEW c \in {"success", "failure", "killed"}, ExitWith(c),
         c = "success" /\ kind = "service" => InFlight = {},
         kind' = kind, signals' \in 0..MaxSignals,
         shuttingDown' \in BOOLEAN, closing' \in BOOLEAN
  PROVE  DInv'
<1>1. DTypeOK'
  BY DEF DInv, DTypeOK, ExitWith
<1>2. RunningIsWhole'
  BY DEF ExitWith, RunningIsWhole
<1>3. CleanExitIsDrained'
  BY DEF DInv, DTypeOK, RunningIsWhole, CleanExitIsDrained, ExitWith, InFlight
<1>4. QED
  BY <1>1, <1>2, <1>3 DEF DInv

LEMMA DaemonStep == DInv /\ [DNext]_daemonVars => DInv'
<1> SUFFICES ASSUME DInv, [DNext]_daemonVars PROVE DInv'
  OBVIOUS
<1> USE DaemonAssumption
<1>1. CASE Boot
  <2>1. CASE ExitWith("failure")
    BY <1>1, <2>1, ExitKeeps DEF Boot, DInv, DTypeOK
  <2>2. CASE phase' = "listening" /\ UNCHANGED <<code, timer, req>>
    BY <1>1, <2>2 DEF Boot, DInv, DTypeOK, RunningIsWhole, CleanExitIsDrained
  <2>3. QED
    BY <1>1, <2>1, <2>2 DEF Boot
<1>2. CASE Listening
  BY <1>2 DEF Listening, DInv, DTypeOK, RunningIsWhole, CleanExitIsDrained
<1>3. CASE ListenFails
  BY <1>3, ExitKeeps DEF ListenFails, DInv, DTypeOK
<1>4. ASSUME NEW r \in Requests, Arrive(r) PROVE DInv'
  BY <1>4 DEF Arrive, DInv, DTypeOK, RunningIsWhole, CleanExitIsDrained
<1>5. ASSUME NEW r \in Requests, Reply(r) PROVE DInv'
  BY <1>5 DEF Reply, DInv, DTypeOK, RunningIsWhole, CleanExitIsDrained
<1>6. CASE Signal
  <2>1. signals' \in 0..MaxSignals /\ kind' = kind /\ phase # "exited"
    BY <1>6 DEF Signal, DInv, DTypeOK
  <2>2. CASE ExitWith("killed") /\ UNCHANGED <<shuttingDown, closing>>
    BY <2>1, <2>2, ExitKeeps DEF DInv, DTypeOK
  <2>3. CASE OnSignalShutdown /\ shuttingDown
    BY <2>1, <2>3 DEF OnSignalShutdown, DInv, DTypeOK, RunningIsWhole, CleanExitIsDrained
  <2>4. CASE OnSignalShutdown /\ ~shuttingDown /\ kind = "service"
    BY <2>1, <2>4 DEF OnSignalShutdown, DInv, DTypeOK, RunningIsWhole, CleanExitIsDrained
  <2>5. CASE OnSignalShutdown /\ ~shuttingDown /\ kind = "proxy"
    BY <2>1, <2>5, ExitKeeps DEF OnSignalShutdown, DInv, DTypeOK
  <2>6. QED
    BY <1>6, <2>2, <2>3, <2>4, <2>5 DEF Signal, DInv, DTypeOK
<1>7. CASE Closed
  BY <1>7, ExitKeeps DEF Closed, DInv, DTypeOK
<1>8. CASE ForceExit
  BY <1>8, ExitKeeps DEF ForceExit, DInv, DTypeOK
<1>9. CASE UNCHANGED daemonVars
  BY <1>9 DEF daemonVars, DInv, DTypeOK, RunningIsWhole, CleanExitIsDrained
<1>10. QED
  BY <1>1, <1>2, <1>3, <1>4, <1>5, <1>6, <1>7, <1>8, <1>9 DEF DNext

\* The life-cycle state keeps its types, and the force timer is only ever armed
\* by a shutdown.
THEOREM DaemonTypeCorrect == DSpec => []DTypeOK
<1>1. DSpec => []DInv
  BY DaemonInit, DaemonStep, PTL DEF DSpec
<1>2. DInv => DTypeOK
  BY DEF DInv
<1>3. QED
  BY <1>1, <1>2, PTL

\* A service that exits with success has drained its requests (Service.ts:271),
\* whichever signals came at whichever point of its life.
THEOREM DrainedExit == DSpec => []CleanExitIsDrained
<1>1. DSpec => []DInv
  BY DaemonInit, DaemonStep, PTL DEF DSpec
<1>2. DInv => CleanExitIsDrained
  BY DEF DInv
<1>3. QED
  BY <1>1, <1>2, PTL

-----------------------------------------------------------------------------
(* The event bus                                                           *)

-----------------------------------------------------------------------------
(* Results                                                                 *)

Places == {"idle", "connecting", "sending", "ok", "error"}

ResultInv == calls \in [Events -> Places] /\ log \in Seq(Events) /\ OkIsInTheLog

LEMMA ResultNext == ResultInv /\ [Next]_vars => ResultInv'
<1>1. SUFFICES ASSUME ResultInv, [Next]_vars PROVE ResultInv'
  OBVIOUS
\* A publish that goes nowhere near the broker.
<1>2. ASSUME NEW e \in Events, NEW p \in Places \ {"ok"},
             calls' = [calls EXCEPT ![e] = p], UNCHANGED log
      PROVE  ResultInv'
  BY <1>1, <1>2 DEF ResultInv, OkIsInTheLog
\* What the log holds it goes on holding.
<1>3. ASSUME NEW e \in Events, NEW p \in Places,
             calls' = [calls EXCEPT ![e] = p], log' = Append(log, e)
      PROVE  ResultInv'
  <2>1. /\ log' \in Seq(Events) /\ log'[Len(log) + 1] = e /\ Len(log) + 1 \in DOMAIN log'
        /\ \A i \in DOMAIN log : i \in DOMAIN log' /\ log'[i] = log[i]
    BY <1>1, <1>3 DEF ResultInv
  <2>2. calls' \in [Events -> Places]
    BY <1>1, <1>3 DEF ResultInv
  <2>3. ASSUME NEW d \in Events, calls'[d] = "ok" PROVE \E i \in DOMAIN log' : log'[i] = d
    <3>1. CASE d = e
      BY <2>1, <3>1
    <3>2. CASE d # e
      <4>1. calls[d] = "ok"
        BY <1>1, <1>3, <2>3, <3>2 DEF ResultInv
      <4>2. QED
        BY <1>1, <2>1, <4>1 DEF ResultInv, OkIsInTheLog
    <3>3. QED
      BY <3>1, <3>2
  <2>4. QED
    BY <2>1, <2>2, <2>3 DEF ResultInv, OkIsInTheLog
<1>4. ASSUME UNCHANGED <<calls, log>> PROVE ResultInv'
  BY <1>1, <1>4 DEF ResultInv, OkIsInTheLog
<1>5. ASSUME NEW e \in Events, Publish(e) \/ ProducerConnects(e) \/ Sent(e)
      PROVE  ResultInv'
  <2>1. CASE Publish(e)
    BY <1>2, <2>1 DEF Publish, Places
  <2>2. CASE ProducerConnects(e)
    BY <1>2, <2>2 DEF ProducerConnects, Places
  <2>3. CASE Sent(e)
    BY <1>2, <1>3, <2>3 DEF Sent, Places
  <2>4. QED
    BY <1>5, <2>1, <2>2, <2>3
<1>6. ASSUME NEW c \in Consumers,
             \/ Subscribe(c) \/ ConsumerConnects(c) \/ Joins(c) \/ Unsubscribe(c) \/ Left(c)
             \/ Assign(c) \/ Deliver(c) \/ HandlerReturns(c) \/ HandlerThrows(c) \/ Evict(c)
      PROVE  ResultInv'
  BY <1>4, <1>6 DEF Subscribe, ConsumerConnects, Joins, Unsubscribe, Left, Assign, Deliver,
                    HandlerReturns, HandlerThrows, Evict, producing
<1>7. CASE Disconnect \/ ProducerGone \/ ShutDown
  BY <1>4, <1>7 DEF Disconnect, ProducerGone, ShutDown, producing
<1>8. CASE UNCHANGED vars
  BY <1>4, <1>8 DEF vars, producing
<1>9. QED
  BY <1>1, <1>5, <1>6, <1>7, <1>8 DEF Next

\* A publish whose result is ok has its event in the log, however many callers met
\* while the producer was connecting and whatever came of the connection.
THEOREM OkIsTrue == Spec => []OkIsInTheLog
<1>1. Init => ResultInv
  BY DEF Init, ResultInv, OkIsInTheLog, Places
<1>2. ResultInv => OkIsInTheLog
  BY DEF ResultInv
<1>3. QED
  BY <1>1, <1>2, ResultNext, PTL DEF Spec

-----------------------------------------------------------------------------
(* At-least-once                                                           *)

BusTyped ==
  /\ log \in Seq(Events)
  /\ busy \in [Consumers -> Nat] /\ committed \in Nat /\ start \in Nat
  /\ handled \subseteq 1..Len(log)

\* What a handler is working on is in the log, and everything before it since the
\* group began has been handled: it was delivered behind the owner's position, and
\* may have outlived several owners since, or a new beginning behind it.
WorkedInOrder ==
  \A c \in Consumers :
    busy[c] > 0 => busy[c] <= Len(log) /\ \A j \in (start + 1)..(busy[c] - 1) : j \in handled

DeliveryInv == BusTyped /\ WorkedInOrder /\ CommittedWereHandled

LEMMA DeliveryInit == Init => DeliveryInv
<1>1. SUFFICES ASSUME Init PROVE DeliveryInv
  OBVIOUS
<1>2. BusTyped
  BY <1>1 DEF Init, BusTyped
<1>3. WorkedInOrder
  BY <1>1 DEF Init, WorkedInOrder
<1>4. CommittedWereHandled
  BY <1>1 DEF Init, CommittedWereHandled
<1>5. QED
  BY <1>2, <1>3, <1>4 DEF DeliveryInv

\* The log only grows at its end.
LEMMA LogGrows ==
  ASSUME DeliveryInv, NEW e \in Events, log' = Append(log, e) \/ log' = log,
         UNCHANGED <<poison, busy, group>>
  PROVE  DeliveryInv'
<1>0. UNCHANGED <<fromBeginning, start, committed, handled>> BY DEF group
<1> DEFINE Grown == /\ log' \in Seq(Events) /\ Len(log') \in Nat /\ Len(log) <= Len(log')
                   /\ \A j \in 1..Len(log) : log'[j] = log[j]
<1>6. log \in Seq(Events) /\ Len(log) \in Nat
  BY DEF DeliveryInv, BusTyped
<1>7. ASSUME log' = log PROVE Grown
  BY ONLY <1>6, <1>7
<1>8. ASSUME log' = Append(log, e) PROVE Grown
  BY ONLY <1>6, <1>8, e \in Events
<1>1. Grown /\ Len(log) \in Nat
  BY <1>6, <1>7, <1>8
<1>2. BusTyped'
  BY <1>0, <1>1 DEF DeliveryInv, BusTyped
<1>3. WorkedInOrder'
  BY <1>0, <1>1 DEF DeliveryInv, BusTyped, WorkedInOrder
<1>4. CommittedWereHandled'
  <2>1. \A i \in handled : i \in 1..Len(log)
    BY DEF DeliveryInv, BusTyped
  <2>2. QED
    BY <1>0, <1>1, <2>1 DEF DeliveryInv, CommittedWereHandled
<1>5. QED
  BY <1>2, <1>3, <1>4 DEF DeliveryInv

LEMMA DeliveryNext == DeliveryInv /\ [Next]_vars => DeliveryInv'
<1>1. SUFFICES ASSUME DeliveryInv, [Next]_vars PROVE DeliveryInv'
  OBVIOUS
<1>2. ASSUME UNCHANGED <<poison, log, busy, group>> PROVE DeliveryInv'
  BY <1>1, <1>2 DEF group, DeliveryInv, BusTyped, WorkedInOrder, CommittedWereHandled
<1>3. ASSUME NEW e \in Events, Publish(e) \/ ProducerConnects(e) \/ Sent(e)
      PROVE  DeliveryInv'
  BY <1>1, <1>2, <1>3, LogGrows DEF Publish, ProducerConnects, Sent, consuming
<1>4. ASSUME NEW c \in Consumers,
             \/ Subscribe(c) \/ ConsumerConnects(c) \/ Joins(c) \/ Unsubscribe(c) \/ Left(c)
             \/ Evict(c)
      PROVE  DeliveryInv'
  BY <1>2, <1>4 DEF Subscribe, ConsumerConnects, Joins, Unsubscribe, Left, Evict,
                    producing, consuming
\* A new beginning leaves nothing before it to be promised.
<1>11. ASSUME NEW c \in Consumers, Assign(c) PROVE DeliveryInv'
  <2>1. UNCHANGED <<poison, log, busy, fromBeginning, committed, handled>>
    BY <1>11 DEF Assign, producing
  <2>2. /\ log \in Seq(Events) /\ Len(log) \in Nat /\ busy \in [Consumers -> Nat]
        /\ committed \in Nat /\ start \in Nat /\ handled \subseteq 1..Len(log)
    BY <1>1 DEF DeliveryInv, BusTyped
  <2>3. CASE start' = start
    BY <1>1, <2>1, <2>3 DEF DeliveryInv, BusTyped, WorkedInOrder, CommittedWereHandled
  <2>4. CASE start' # start
    <3>1. committed = 0 /\ ~fromBeginning /\ start' = Len(log)
      BY <1>1, <1>11, <2>2, <2>4 DEF Assign, DeliveryInv, CommittedWereHandled
    <3>2. BusTyped' BY <1>1, <2>1, <2>2, <3>1 DEF DeliveryInv, BusTyped
    <3>3. WorkedInOrder' BY <1>1, <2>1, <2>2, <3>1 DEF DeliveryInv, WorkedInOrder
    <3>4. CommittedWereHandled'
      BY <1>1, <2>1, <2>2, <3>1 DEF DeliveryInv, CommittedWereHandled
    <3>5. QED
      BY <3>2, <3>3, <3>4 DEF DeliveryInv
  <2>5. QED
    BY <2>3, <2>4
<1>5. ASSUME NEW c \in Consumers, Deliver(c) PROVE DeliveryInv'
  <2>0. Position \in Nat /\ \A j \in (start + 1)..Position : j \in handled
    BY <1>1 DEF Position, DeliveryInv, BusTyped, CommittedWereHandled
  <2>1. /\ Len(log) \in Nat /\ Position < Len(log)
        /\ busy' = [busy EXCEPT ![c] = Position + 1]
        /\ UNCHANGED <<poison, log, fromBeginning, start, committed, handled>>
    BY <1>1, <1>5 DEF Deliver, producing, group, DeliveryInv, BusTyped
  <2> HIDE DEF Position
  <2>2. BusTyped'
    BY <1>1, <2>0, <2>1 DEF DeliveryInv, BusTyped
  <2>3. WorkedInOrder'
    <3>1. SUFFICES ASSUME NEW d \in Consumers, busy'[d] > 0
                   PROVE  /\ busy'[d] <= Len(log)
                          /\ \A j \in (start + 1)..(busy'[d] - 1) : j \in handled
      BY <2>1 DEF WorkedInOrder
    <3>2. CASE d = c
      <4>1. busy'[d] = Position + 1 BY <1>1, <2>1, <3>2 DEF DeliveryInv, BusTyped
      <4>2. busy'[d] - 1 = Position BY ONLY <2>0, <4>1
      <4> QED BY ONLY <2>0, <2>1, <4>1, <4>2
    <3>3. CASE d # c
      BY <1>1, <2>1, <3>1, <3>3 DEF DeliveryInv, BusTyped, WorkedInOrder
    <3>4. QED
      BY <3>2, <3>3
  <2>4. CommittedWereHandled'
    BY <1>1, <2>1 DEF DeliveryInv, CommittedWereHandled
  <2>5. QED
    BY <2>2, <2>3, <2>4 DEF DeliveryInv
<1>6. ASSUME NEW c \in Consumers, HandlerReturns(c) PROVE DeliveryInv'
  <2>1. /\ busy[c] \in Nat /\ busy[c] > 0 /\ log[busy[c]] \notin poison
        /\ handled' = handled \cup {busy[c]}
        /\ committed' \in {committed, busy[c]}
        /\ busy' = [busy EXCEPT ![c] = 0]
        /\ UNCHANGED <<poison, log, fromBeginning, start>>
    BY <1>1, <1>6 DEF HandlerReturns, producing, DeliveryInv, BusTyped
  <2>2. busy[c] <= Len(log) /\ \A j \in (start + 1)..(busy[c] - 1) : j \in handled
    BY <1>1, <2>1 DEF DeliveryInv, WorkedInOrder
  <2>3. /\ start \in Nat /\ committed \in Nat /\ busy \in [Consumers -> Nat]
        /\ log \in Seq(Events) /\ Len(log) \in Nat /\ handled \subseteq 1..Len(log)
    BY <1>1 DEF DeliveryInv, BusTyped
  <2>4. \A j \in (start + 1)..busy[c] : j \in handled'
    BY <2>1, <2>2, <2>3
  <2>5. BusTyped'
    <3>1. busy' \in [Consumers -> Nat] /\ committed' \in Nat BY <2>1, <2>3
    <3>2. busy[c] \in 1..Len(log) BY <2>1, <2>2, <2>3
    <3>3. QED
      BY <2>1, <2>3, <3>1, <3>2 DEF BusTyped
  <2>6. WorkedInOrder'
    BY <1>1, <2>1, <2>3 DEF DeliveryInv, WorkedInOrder
  <2>7. CommittedWereHandled'
    <3>1. \A i \in (start + 1)..committed' : i \in handled'
      BY <1>1, <2>1, <2>4 DEF DeliveryInv, CommittedWereHandled
    <3>2. \A i \in handled' : log[i] \notin poison /\ \A j \in (start + 1)..i : j \in handled'
      BY <1>1, <2>1, <2>4 DEF DeliveryInv, CommittedWereHandled
    <3>3. fromBeginning => start = 0
      BY <1>1 DEF DeliveryInv, CommittedWereHandled
    <3>4. QED
      BY <2>1, <3>1, <3>2, <3>3 DEF CommittedWereHandled
  <2>8. QED
    BY <2>5, <2>6, <2>7 DEF DeliveryInv
<1>7. ASSUME NEW c \in Consumers, HandlerThrows(c) PROVE DeliveryInv'
  <2>1. /\ busy' = [busy EXCEPT ![c] = 0]
        /\ UNCHANGED <<poison, log, group>>
    BY <1>7 DEF HandlerThrows, producing
  <2>2. QED
    BY <1>1, <2>1 DEF group, DeliveryInv, BusTyped, WorkedInOrder, CommittedWereHandled
<1>8. CASE Disconnect \/ ProducerGone \/ ShutDown
  BY <1>2, <1>8 DEF Disconnect, ProducerGone, ShutDown, producing, consuming
<1>9. CASE UNCHANGED vars
  BY <1>2, <1>9 DEF vars, producing, consuming
<1>10. QED
  BY <1>1, <1>3, <1>4, <1>5, <1>6, <1>7, <1>8, <1>9, <1>11 DEF Next

\* What a group has passed since it began was handled by somebody, is first handled
\* in its order, and is never what cannot be parsed; it begins with the first message
\* if it was told to.
THEOREM AtLeastOnce == Spec => []CommittedWereHandled
<1>1. DeliveryInv => CommittedWereHandled
  BY DEF DeliveryInv
<1>2. QED
  BY <1>1, DeliveryInit, DeliveryNext, PTL DEF Spec

-----------------------------------------------------------------------------
(* Graceful shutdown                                                       *)

Stages == {"idle", "connecting", "joining", "running", "failed"}

\* disconnect() is called on consumers that run and are tracked only; one that it
\* was called on is leaving as long as it is connected.
LeavingInv ==
  /\ torn \in [Consumers -> Nat] /\ subs \in [Consumers -> Stages]
  /\ tracked \subseteq Consumers /\ connected \subseteq Consumers
  /\ \A c \in tracked : subs[c] = "running"
  /\ \A c \in Consumers : subs[c] # "running" => torn[c] = 0
  /\ \A c \in connected : torn[c] > 0 => c \in leaving

ShutdownInv == LeavingInv /\ OnlyUnseenOutlive

LEMMA ShutdownInit == Init => ShutdownInv
  BY DEF Init, ShutdownInv, LeavingInv, OnlyUnseenOutlive, Stages

\* Telling consumers that are tracked to leave.
LEMMA TearDownLeaves ==
  ASSUME LeavingInv, NEW cs, cs \subseteq tracked, TearDown(cs),
         tracked' \subseteq tracked, UNCHANGED <<subs, connected>>
  PROVE  LeavingInv'
<1>1. /\ leaving' = leaving \cup (cs \cap connected)
      /\ torn' = [c \in Consumers |-> IF c \in cs THEN torn[c] + 1 ELSE torn[c]]
  BY DEF TearDown
<1>2. torn' \in [Consumers -> Nat]
  BY <1>1 DEF LeavingInv
<1>3. ASSUME NEW c \in Consumers, subs[c] # "running" PROVE torn'[c] = 0
  BY <1>1, <1>3 DEF LeavingInv
<1>4. ASSUME NEW c \in connected, torn'[c] > 0 PROVE c \in leaving'
  BY <1>1, <1>4 DEF LeavingInv
<1>5. QED
  BY <1>2, <1>3, <1>4 DEF LeavingInv

LEMMA ShutdownNext == ShutdownInv /\ [Next]_vars => ShutdownInv'
<1>1. SUFFICES ASSUME ShutdownInv, [Next]_vars PROVE ShutdownInv'
  OBVIOUS
<1>2. ASSUME UNCHANGED members PROVE ShutdownInv'
  BY <1>1, <1>2 DEF members, ShutdownInv, LeavingInv, OnlyUnseenOutlive
<1>3. ASSUME NEW e \in Events, Publish(e) \/ ProducerConnects(e) \/ Sent(e)
      PROVE  ShutdownInv'
  BY <1>2, <1>3 DEF Publish, ProducerConnects, Sent
<1>4. ASSUME NEW c \in Consumers,
             Assign(c) \/ Deliver(c) \/ HandlerReturns(c) \/ HandlerThrows(c) \/ Evict(c)
      PROVE  ShutdownInv'
  BY <1>2, <1>4 DEF Assign, Deliver, HandlerReturns, HandlerThrows, Evict
<1>5. ASSUME NEW c \in Consumers, Subscribe(c) PROVE ShutdownInv'
  BY <1>1, <1>5 DEF Subscribe, ShutdownInv, LeavingInv, OnlyUnseenOutlive, Stages
<1>6. ASSUME NEW c \in Consumers, ConsumerConnects(c) PROVE ShutdownInv'
  BY <1>1, <1>6 DEF ConsumerConnects, ShutdownInv, LeavingInv, OnlyUnseenOutlive, Stages
<1>7. ASSUME NEW c \in Consumers, Joins(c) PROVE ShutdownInv'
  BY <1>1, <1>7 DEF Joins, ShutdownInv, LeavingInv, OnlyUnseenOutlive, Stages
<1>8. ASSUME NEW c \in Consumers, Unsubscribe(c) PROVE ShutdownInv'
  <2>1. /\ c \in tracked /\ tracked' = tracked \ {c} /\ TearDown({c})
        /\ UNCHANGED <<subs, connected, shutdown>>
    BY <1>8 DEF Unsubscribe
  <2>2. LeavingInv'
    BY <1>1, <2>1, TearDownLeaves DEF ShutdownInv
  <2>3. \A d \in tracked' : d \in Consumers /\ torn'[d] = torn[d]
    BY <1>1, <2>1 DEF TearDown, ShutdownInv, LeavingInv
  <2>4. OnlyUnseenOutlive'
    BY <1>1, <2>1, <2>3 DEF ShutdownInv, OnlyUnseenOutlive
  <2>5. QED
    BY <2>2, <2>4 DEF ShutdownInv
<1>9. ASSUME NEW c \in Consumers, Left(c) PROVE ShutdownInv'
  BY <1>1, <1>9 DEF Left, ShutdownInv, LeavingInv, OnlyUnseenOutlive
<1>10. CASE Disconnect \/ ProducerGone
  <2>1. shutdown' # "done"
    BY <1>10 DEF Disconnect, ProducerGone
  <2>2. CASE TearDown(tracked)
    BY <1>1, <1>10, <2>1, <2>2, TearDownLeaves
       DEF Disconnect, ProducerGone, ShutdownInv, OnlyUnseenOutlive
  <2>3. CASE UNCHANGED <<leaving, torn>>
    BY <1>1, <1>10, <2>1, <2>3
       DEF Disconnect, ProducerGone, ShutdownInv, LeavingInv, OnlyUnseenOutlive
  <2>4. QED
    BY <1>10, <2>2, <2>3 DEF Disconnect, ProducerGone
\* What is tracked and connected when the last await is over was never told to leave.
<1>11. CASE ShutDown
  <2>1. \A c \in connected : c \in tracked => torn[c] = 0
    <3>1. \A c \in connected : c \in tracked => c \notin leaving /\ torn[c] \in Nat
      BY <1>1, <1>11 DEF ShutDown, ShutdownInv, LeavingInv
    <3>2. QED
      BY <1>1, <3>1 DEF ShutdownInv, LeavingInv
  <2>2. QED
    BY <1>1, <1>11, <2>1 DEF ShutDown, ShutdownInv, LeavingInv, OnlyUnseenOutlive
<1>12. CASE UNCHANGED vars
  BY <1>2, <1>12 DEF vars
<1>13. QED
  BY <1>1, <1>3, <1>4, <1>5, <1>6, <1>7, <1>8, <1>9, <1>10, <1>11, <1>12 DEF Next

\* A disconnect() that resolved leaves connected what it could not see, and no
\* consumer that it, or unsubscribe(), was still to wait for.
THEOREM ShutdownIsComplete == Spec => []OnlyUnseenOutlive
<1>1. ShutdownInv => OnlyUnseenOutlive
  BY DEF ShutdownInv
<1>2. QED
  BY <1>1, ShutdownInit, ShutdownNext, PTL DEF Spec
=============================================================================
