---------------------------- MODULE CloudMonitor ----------------------------
(***************************************************************************)
(* The console's cloud target and what its window shows of it: the target  *)
(* and the clients of the main process (main/aws.ts, main/ipc.ts), the     *)
(* window's targetStore, settingsStore and metricsStore, and the Lambda    *)
(* invocation the read-only rule is about.                                 *)
(*                                                                         *)
(* Calls over the IPC bridge reach the main process in the order they are  *)
(* made, so a call and the part of its handler before the first await are  *)
(* one step; the answers come in any order.                                *)
(***************************************************************************)
EXTENDS Naturals, FiniteSets

CONSTANTS Accounts,     \* the profiles of ~/.aws
          Local,        \* the LocalStack target
          Docker,       \* what docker stats reports of, whatever the target
          None,
          Windows,      \* the choices of histogramWindowMin
          BinsFor,      \* BinsFor[k][w]: how many bins a chart has
          MaxSwitches,  \* bound on the target selections
          MaxReloads    \* bound on the reloads of the window

Targets   == Accounts \cup {Local}
Kind      == {"localstack", "aws"}
KindOf(t) == IF t = Local THEN "localstack" ELSE "aws"

ASSUME TargetsAssumption == /\ Local \notin Accounts
                            /\ Docker \notin Targets /\ None \notin Targets \cup {Docker}
ASSUME BinsAssumption    == BinsFor \in [Kind -> [Windows -> Nat \ {0}]]
ASSUME BoundsAssumption  == MaxSwitches \in Nat /\ MaxReloads \in Nat

VARIABLES target,    \* the main process's `target'
          clients,   \* the target each cached SDK client was built for, or None
          invoked,   \* the targets Lambda functions were invoked on
          view,      \* targetStore's snapshot.target
          answers,   \* the targets carried by answers on their way, by call
          calls,     \* selections made so far
          reloads,
          window,    \* settingsStore's histogramWindowMin
          lastKind, lastBins, breaching,   \* fields of metricsStore
          poll,      \* the call metricsStore is polling with, NoPoll if none
          snap       \* metricsStore's snapshot

mainVars   == <<target, clients, invoked>>
targetVars == <<view, answers>>
armVars    == <<lastKind, lastBins>>
metricVars == <<armVars, breaching, poll, snap>>
vars == <<mainVars, targetVars, calls, reloads, window, metricVars>>

\* `of' is what the containers were listed of, `cpu' what their numbers are of.
NoPoll == [of |-> None, cpu |-> None]

\* The one container stands for all of those listed; `samples' is the length of
\* its history and `hot' says that it is over the threshold.
Nothing(b) == [of |-> None, cpu |-> None, samples |-> 0, hot |-> FALSE,
               loaded |-> FALSE, bins |-> b]

-----------------------------------------------------------------------------
(* The SDK clients of the main process                                     *)

SdkClients == {"lambda", "ecs", "cw"}

\* Variant: the clients of the target that is left are kept.
SetTargetOnly(t) == target' = t /\ UNCHANGED clients

\* setTarget(): the next use of each client builds it anew.
SetTarget(t) == target' = t /\ clients' = [x \in SdkClients |-> None]

\* The target the client x is for when it is used, built now if need be.
ClientOf(x) == IF clients[x] = None THEN target ELSE clients[x]
Use(x) == clients' = [clients EXCEPT ![x] = ClientOf(x)]

-----------------------------------------------------------------------------
(* metricsStore                                                            *)

\* poll() up to its await, with v the window's target: docker stats of this
\* machine, or the ECS services of the target the main process has.
Poll(v) ==
  \/ poll # NoPoll /\ UNCHANGED <<poll, clients>>
  \/ poll = NoPoll /\ v = Local
     /\ poll' = [of |-> Docker, cpu |-> Docker] /\ UNCHANGED clients
  \/ poll = NoPoll /\ v # Local
     /\ poll' = [of |-> ClientOf("ecs"), cpu |-> None] /\ Use("ecs")

\* Variant: a switch to another source leaves the breaches to the next poll.
KindChangedOnly(v, w) ==
  /\ lastKind' = KindOf(v) /\ lastBins' = BinsFor[KindOf(v)][w]
  /\ snap' = Nothing(lastBins') /\ UNCHANGED breaching
  /\ Poll(v)

\* rearm() when the kind of target has changed: history and breaches are
\* dropped and polling starts at once, unless a poll is under way.
KindChanged(v, w) ==
  /\ lastKind' = KindOf(v) /\ lastBins' = BinsFor[KindOf(v)][w]
  /\ snap' = Nothing(lastBins') /\ breaching' = {}
  /\ Poll(v)

SmallerOf(m, n) == IF m < n THEN m ELSE n

\* rearm() when it has not: the history is cut to the bins of the window.
Recapped(v, w) ==
  /\ lastBins' = BinsFor[KindOf(v)][w]
  /\ snap' = [snap EXCEPT !.bins = lastBins', !.samples = SmallerOf(@, lastBins')]
  /\ UNCHANGED <<lastKind, breaching, poll, clients>>

Rearm(v, w) ==
  \/ KindOf(v) # lastKind /\ KindChanged(v, w)
  \/ KindOf(v) = lastKind /\ Recapped(v, w)

Tick ==
  /\ Poll(view)
  /\ UNCHANGED <<target, invoked, targetVars, calls, reloads, window, armVars, breaching, snap>>

\* ecsMetrics() has listed the services and uses the CloudWatch client, of the
\* target by then.
Listed ==
  /\ poll # NoPoll /\ poll.cpu = None
  /\ poll' = [poll EXCEPT !.cpu = ClientOf("cw")] /\ Use("cw")
  /\ UNCHANGED <<target, invoked, targetVars, calls, reloads, window, armVars, breaching, snap>>

\* Variant: the bins are those of the time of the call, which a later change of
\* the window does not shorten.
RolledUncapped == IF snap.of = poll.of THEN snap.samples + 1 ELSE 1

\* One more sample of the same container, or the first of a new one.
Rolled == SmallerOf(IF snap.of = poll.of THEN snap.samples + 1 ELSE 1, lastBins)

NowBreaching(hot) == IF hot THEN {poll.of} ELSE {}

\* The rest of poll(): the answer replaces what was shown.  It lists nothing when
\* the call failed or there is nothing.
PollReturns ==
  /\ poll # NoPoll
  /\ \/ /\ snap' = [Nothing(lastBins) EXCEPT !.loaded = TRUE]
        /\ breaching' = {}
     \/ /\ poll.cpu # None
        /\ \E hot \in BOOLEAN :
             /\ snap' = [of |-> poll.of, cpu |-> poll.cpu, samples |-> Rolled, hot |-> hot,
                         loaded |-> TRUE, bins |-> lastBins]
             /\ breaching' = NowBreaching(hot)
  /\ poll' = NoPoll
  /\ UNCHANGED <<mainVars, targetVars, calls, reloads, window, armVars>>

\* settingsStore.save(), which metricsStore listens to.
Save(w) ==
  /\ w # window /\ window' = w
  /\ Rearm(view, w)
  /\ UNCHANGED <<target, invoked, targetVars, calls, reloads>>

-----------------------------------------------------------------------------
(* The target                                                              *)

\* The user selects a target; the answer carries the target as it is now.
Select(t) ==
  /\ calls < MaxSwitches /\ calls' = calls + 1
  /\ t # view
  /\ SetTarget(t)
  /\ answers' = answers \cup {<<calls', t>>}
  /\ UNCHANGED <<invoked, view, reloads, window, metricVars>>

\* targetStore.set(), whose listeners are called at once.
Answer(a) ==
  /\ a \in answers /\ answers' = answers \ {a}
  /\ view' = a[2]
  /\ Rearm(view', window)
  /\ UNCHANGED <<target, invoked, calls, reloads, window>>

\* Variant: the handler trusts the button.
Trusted == TRUE

\* The handler's own check, `isReadOnly()'.
Allowed == target = Local

\* The Invoke button of the jobs panel, enabled by the window's target.
Invoke ==
  /\ view = Local
  /\ \/ Allowed /\ Use("lambda") /\ invoked' = invoked \cup {ClientOf("lambda")}
     \/ ~Allowed /\ UNCHANGED <<clients, invoked>>
  /\ UNCHANGED <<target, targetVars, calls, reloads, window, metricVars>>

\* The jobs panel lists the functions, on any target.
ListFunctions ==
  /\ Use("lambda")
  /\ UNCHANGED <<target, invoked, targetVars, calls, reloads, window, metricVars>>

\* A window that is loaded starts from the initial snapshots, polls docker and
\* asks for the target the main process has kept; what was on its way to the old
\* one is lost.
Reload ==
  /\ reloads < MaxReloads /\ reloads' = reloads + 1
  /\ view' = Local /\ answers' = {<<0, target>>}
  /\ lastKind' = "localstack" /\ lastBins' = BinsFor["localstack"][window]
  /\ snap' = Nothing(lastBins') /\ breaching' = {}
  /\ poll' = [of |-> Docker, cpu |-> Docker]
  /\ UNCHANGED <<mainVars, calls, window>>

Init ==
  /\ target = Local /\ clients = [x \in SdkClients |-> None] /\ invoked = {}
  /\ view = Local /\ answers = {<<0, Local>>} /\ calls = 0 /\ reloads = 0
  /\ window \in Windows
  /\ lastKind = "localstack" /\ lastBins = BinsFor["localstack"][window]
  /\ snap = Nothing(lastBins) /\ breaching = {}
  /\ poll = [of |-> Docker, cpu |-> Docker]

Next ==
  \/ Tick \/ Listed \/ PollReturns
  \/ \E w \in Windows : Save(w)
  \/ \E t \in Targets : Select(t)
  \/ \E a \in answers : Answer(a)
  \/ Invoke \/ ListFunctions \/ Reload

Spec == Init /\ [][Next]_vars

\* The interval ticks and the main process answers: docker, ECS and CloudWatch
\* are asked through commands and calls that end.
Fairness ==
  /\ WF_vars(Tick) /\ WF_vars(Listed) /\ WF_vars(PollReturns)
  /\ WF_vars(\E a \in answers : Answer(a))

FairSpec == Spec /\ Fairness

-----------------------------------------------------------------------------
(* Properties                                                              *)

Sources == Targets \cup {Docker, None}

TypeOK ==
  /\ target \in Targets /\ view \in Targets
  /\ clients \in [SdkClients -> Targets \cup {None}] /\ invoked \subseteq Targets
  /\ answers \subseteq (0..MaxSwitches) \X Targets
  /\ calls \in 0..MaxSwitches /\ reloads \in 0..MaxReloads
  /\ window \in Windows /\ lastKind \in Kind /\ lastBins \in Nat
  /\ breaching \subseteq Sources /\ Cardinality(breaching) <= 1
  /\ poll \in [of : Sources, cpu : Sources]
  /\ snap \in [of : Sources, cpu : Sources, samples : Nat, hot : BOOLEAN,
               loaded : BOOLEAN, bins : Nat]

\* `A real account is READ-ONLY' (aws.ts:17): however stale the target is that the
\* Invoke button goes by, and whatever client is cached, no function is invoked on
\* a real account.
RealAccountIsNotInvoked == invoked \subseteq {Local}

\* The charts fit their window: whatever is changed while a poll is under way, the
\* snapshot has the bins of the window and of the kind of the target shown, and no
\* series is longer.
HistoryFitsTheWindow ==
  /\ snap.bins = lastBins /\ lastBins = BinsFor[KindOf(view)][window]
  /\ snap.samples <= snap.bins

\* `keys currently in breach ... for rising-edge beep detection'
\* (metricsStore.ts:63): they are those the snapshot shows, so a beep is missed or
\* repeated only with the alert it belongs to.
BeepsFollowAlerts == breaching = IF snap.hot THEN {snap.of} ELSE {}

\* What the containers view may show for the target t.
ShownFor(t) == snap.of \in {None, IF t = Local THEN Docker ELSE t} /\ snap.cpu = snap.of

\* A poll that was under way at a switch shows the old source under the new
\* target, or the services of one account with the numbers of another; once the
\* target stays and the window has it, that is put right for good.
SettledTargetIsShown ==
  \A t \in Targets : <>[](view = t /\ target = t) => <>[]ShownFor(t)

\* `Target change resets history' (metricsStore.ts:95): the snapshot never shows
\* the containers of one kind of target under the other.
SourceIsOfTheTarget ==
  snap.of # None => (snap.of = Docker) = (KindOf(view) = "localstack")

\* `every surface ... agrees on the current target' (targetStore.ts:8): when no
\* answer is on its way the window has the target of the main process.
WindowAgrees == answers = {} => view = target
=============================================================================
