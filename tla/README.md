# RumbleUp: TLA+ models of the repository

RumbleUp is a TypeScript monorepo. `packages/` holds the platform libraries (HTTP
services, daemons, jobs, AWS facades, endpoint contracts, AI and OAuth adapters),
`apps/core/` the services, the web application and the local edge proxy,
`cloud/` the CDK stacks, and `tools/console` the Electron console developers
build, deploy and watch the services with. Most of the services are still
specifications in Markdown; the code that runs, keeps state and does several
things at once is the console's main process and stores, `packages/services`, the
endpoint contract and the realtime path between them, and `cloud/`, where the
order in which a stack is put together decides what its services can do. That is
what these modules model.

Paths below are relative to the repository root.

## 1. Inventory

| Component | State it keeps | Operations | What is hard | Module |
|---|---|---|---|---|
| Console process manager, `tools/console/src/main/processManager.ts` | one slot per (service, stream), child processes, kill and restart timers | run, kill, killAll, composeDown, startDev/startProxy, restartProxy, exec | a slot is refilled before the old process has closed; close events delete by key; timers outlive what they are for | `ProcessSlots` |
| Console pipeline, same file, and the busy guard of `DevelopView.tsx` | the status of each stage of a service, the closure of each run | runPipeline, resume, halt | all runs of a service write one status object across their awaits | `Pipeline`, `StagedRun` |
| In-app Claude, `claudeAgent.ts`, `claudeStore.ts`, `ClaudePanel.tsx` | sessions by service, input queues, approvals, mode, resume token, what the panel believes | start, send, stop, approve, clear, SDK messages | stop, send and a new session come at every await; late messages of an old session | `ClaudeAgent` |
| Watch-sync of a front end, `webDev.ts` | the sync in the map, watcher, debounce timer, busy flag | start, stop, change event, upload | two starts pass one check; a build during an upload; a target switch | `WatchSync` |
| Cloud target and metrics, `main/aws.ts`, `awsMetrics.ts`, renderer `targetStore`, `metricsStore`, `settingsStore`, `JobsPanel` | target, cached SDK clients, the window's copy of the target, history, breaches | setTarget, poll, rearm, save settings, invoke | a poll straddles a switch; answers come in another order; reload | `CloudMonitor` |
| Fair-share work queue, `packages/services/src/aws/WorkQueue.ts`, `Sqs.ts` | the weighted token, messages in two SQS queues | submit, receive, ack | concurrent callers share one token; redelivery; starvation | `WorkQueue` |
| Event bus, `packages/services/src/aws/Kafka.ts` | lazily connected producer, list of consumers | publishTo, runConsumer, unsubscribe, disconnect | calls while connecting; shutdown during a subscription; eviction, poison messages | `EventBus` |
| Process life cycle, `packages/services/src/Application.ts`, `Daemon.ts`, `Service.ts`, `apps/core/webproxy/src/ProxyService.ts` | boot phase, shutdown flag, force timer, requests under way | run, listen, signal, drain, exit | a signal at any point of the boot; a request that hangs; repeated signals | `ServiceDaemon` |
| Repository page, `repo.ts`, `RepoView.tsx` | one process slot, git's index and commits, the page's busy and tests flags | pull, reinstall, update, test, commitPush, createPR | any command kills the one before it half way, and its sequence goes on; the page learns of it by messages | `RepoPage` |
| Log store and log views, `logStore.ts`, `ConsoleView.tsx` | a ring of lines per stream, the window's copy of one | append, get, clear, open a tab | history fetched while lines arrive and are cleared | `LogFeed` |
| REST contract, `packages/endpoint/src/RestfulEndpoint.ts`, `Service.ts` | one endpoint instance per route | marshalClient, unmarshalServer, processEndpoint | one instance serves all requests of its route, also while one is awaited | `Endpoint` |
| Realtime path, `WebsocketService.ts`, the bridge of `ProxyService.ts` | account, socket, two connections per bridge | setAccountId, makeEmpty, onClientSocket, close and message events | either side closes first; a frame is read while the account is switched | `LivePush` |
| AppConfig facade, `aws/AppConfig.ts` | the rolling poll token of each profile | latest, json, createVersion, deploy, rollback | the token is read before two awaits and written after them; errors between | `ConfigPoll` |
| A service's cloud stack, `cloud/src/lib/ServiceStack.ts`, and `CloudResolver` | maps of resources made so far, the variables published so far, grants | one maker per kind of resource, grantUses | each maker sees only what earlier ones left, and drops what it does not find | `ServiceStack` |
| Scheduler facade, AI retry loop | none, a local counter | upsert, pause, withRetry | the schedule is read, then written back | not modelled, section 8 |
| Jobs, governor, other AWS facades, HTTP client, OAuth, utilities, manifest, web views, models | little or none | | | not modelled, section 8 |

How they interact. The window calls the main process over Electron's IPC bridge,
which delivers calls in order and answers in any order, and hears events (stage
states, log lines, Claude's messages) that are lost when no component is mounted
to hear them. The pipeline, the watch-sync, the repository page and the window's buttons all
start and kill processes through the process manager's slots. A failed stage
engages Claude. Every SDK client of the main process is built for the one
switchable target. Every line a process prints goes through the log store to the
window. A request of the web application is marshalled and unmarshalled by the same
endpoint class; what the platform pushes back comes through the proxy's bridge.
A manifest is turned into a stack once, at synthesis, and what the stack put into
the environment of its compute is what `CloudResolver` finds there. In `packages/services` a `Service` is a `Daemon` is an
`Application`; it uses the AWS facades, which keep a little state of their own.

What makes each correct: a slot files the newest process and nothing but a
takeover loses one; statuses show what is running and where to resume; the map of
sessions, the approvals and the panel agree; what is built is synced; a real
account stays read-only; charts and alerts belong to what is shown; the fair
queue gets its share and nobody starves; delivery is at least once and
in order from where a group has begun; a clean exit has drained, and every shutdown ends; a check-in that
reports success is at the origin; a view shows the end of the log; `execute()` finds
the query the client was given; no change of a configuration is missed but one that cannot be parsed; a bridge
has both of its connections or neither; and compute finds what its service owns and
may do what its manifest declares, where the code grants it.

## 2. Modules

`ProcessSlots` is the base. `Pipeline` extends it: a stage of a run is a process
in a slot, and the close event of that process is the step on which the run goes
on. `RepoPage` extends it in the same way: its commands are processes in one slot.
`StagedRun` is the abstract pipeline the console's README describes, and
`Pipeline` maps itself to it for the service `OneService`, a constant that may be any
service (`Promise`, `KeepsThePromise`). The other modules stand alone:
their components share no state with each other, apart from the target, which
`WatchSync` and `CloudMonitor` each carry.

The `MC` modules give the constants their values. Components that do not interact
are checked side by side in one run, each behaviour being that of one of them
(the variable `part`) while the others rest in their initial states: `MCRepoPage`
(`ProcessSlots`, `RepoPage`), `MCServices` (`ServiceStack` through `MCServiceStack`,
`ServiceDaemon`, `EventBus`), `MCConsole` (`CloudMonitor`, `WatchSync`, `LogFeed`),
`MCTraffic` (`WorkQueue`, `Endpoint`, `ConfigPoll`, `LivePush`). The state space is the
sum of theirs, not the product. The proofs about `ProcessSlots`, `Pipeline`, `RepoPage`,
`ClaudeAgent` and `ServiceStack` are in a module of that name with `_proofs`; the others are
together as their runs are: `Traffic_proofs` (`WorkQueue`, `Endpoint`, `ConfigPoll`, `LivePush`),
`Services_proofs` (`ServiceDaemon`, `EventBus`), `Console_proofs` (`CloudMonitor`,
`WatchSync`, `LogFeed`).
`PROJECT.json` maps every definition to the lines it stands for.

In all of them a step is what the JavaScript event loop runs without giving
control back: from an event or the resolution of an await up to the next await.
Definitions whose comment begins with *Variant* are plausible mistakes in the
code: put in the place of the definition that follows them, each breaks a
property, which shows that the property depends on the code being as it is.

**ProcessSlots**: `slots` is the map `procs` (0 when a key is absent); a child is
numbered in spawn order; `status` distinguishes a process that has exited from
one whose `close` event was handled, because everything interesting happens in
between; `killed` is node's `child.killed`; `timers` are the pending hard-stop
timers. `Run`, `Kill`, `KillAll`, `ComposeDown`, `RestartProxy`, `StartDev`,
`StartBuildWatch` are the methods (`Stop` and `Spawn` are `kill()` and the tail of
`run()`), `Close` the close handler, `HardStop` and `RestartTimer` the timers.
The operating system (`Exit`) is external.

**Pipeline**: `stages` are the shared `StageState` objects; `runs` the closures
of `runPipeline()`. `Loop` is the body of its loop up to the next await, used by
`StartRun` and by `StageSucceeds`; `StageFails` is the early return. `SlotRequest`
is everything else the window can do to the same slots meanwhile; `OtherClose` is the
close of a process nobody awaits.

**ClaudeAgent**: a session is a call of `open()` with its phase (loading the
SDK, checking the saved conversation, streaming, over); `pending`, `closed` and
`parked` are `makeInputQueue()` with its generator and its `wake` promise;
`approvals`, `token`, and the panel's `running` and `cards` are the fields of
those names or purposes. `news` are the events `webContents.send()` has put on their
way to the window (`EmitState`, `SendToWindow`), delivered in order and one at a time
(`Hear`), to whatever panel is mounted by then. User actions and engine actions are
`User` and `Engine`.

**WatchSync**: a sync is a call of `startWatchSync()`. Files are put one by one
and read as they go, so an upload may be torn between two builds. The directory of the
build may not be there yet (`bin = NoBin`): a sync then does nothing. `dropped` and
`failed` are bookkeeping for the properties.

**CloudMonitor**: `target` and `clients` are the module variables of `aws.ts`
(three clients stand for the eight, which are built alike); `view` is
`targetStore`'s snapshot and `answers` the replies on their way to it; `poll`,
`lastKind`, `lastBins`, `breaching` and `snap` are `metricsStore`. A poll of ECS
uses one client before its awaits and another after (`Listed`). One container
stands for all of those listed: the code treats each alike.

**WorkQueue**: `acc` is `fairAccumulator`, `pc` where each caller of `receive()` is,
`items` what it returned. The accumulator is a double in the code and in the model: the
weight is a whole number of units, `One` of which are 1, and `Round` takes a sum to the
nearest of the numbers a significand of `Whole` allows, ties to even, as IEEE 754 does.
With doubles as they are, `Whole` is 2^53. `turns` and `cycle` count the fair queue's turns
and the cycles, and start again with every `Window`. SQS is external: `Deliverable` says what a receive may return of a standard queue and of a FIFO group,
`Reappear` is the visibility timeout.

**EventBus**: `producer` is `_producer` with its connection's state, `tracked` is
`_consumers`, `calls`, `subs` and `shutdown` say where each call of the facade is.
kafkajs and the broker are external: one partition with one owner, a member that
is evicted when its handler outlasts its session, acknowledgements that are lost.
One partition and one group are enough because the facade keeps nothing by topic.
A group without a committed offset begins where `fromBeginning` says (`Kafka.ts:206`), at
the first message or, by default, behind the last: `start` is what the member given the
partition by `Assign` has skipped, and each assignment before the first commit skips
anew. The option is one for all members of the group.

**ServiceDaemon**: `phase` is the boot, `shuttingDown` the field, `closing` that
`server.close()` was called, `req` the requests. `kind` distinguishes `Service`
from `ProxyService`, whose `aboutToQuit()` does not call the base. Fastify is
external: `close()` turns new requests away and resolves when none is under way.

**RepoPage**: a call of an operation holds where it is and the command it awaits;
`NextCmd` is the sequence, and `Exec` what the process manager does for `exec()`. git is
external, and abstracted to the version of each area in the working tree, the index,
HEAD and the origin: `Works` says what a command does when it works, `CmdEnds` that
one which was signalled may have done so and be reported as failed. `inbox` are the
process messages on their way to the page, `busy` and `testsPassed` its flags.

**LogFeed**: a line is its number within its stream. `channel` is Electron's bridge,
which keeps the order of messages and answers; the view's effect, its clean-up and its
two callbacks are `OpenTab`, `LeaveTab` and `Receive`.

**Endpoint**: `query` is the field of the one instance on the server; `started` is what
`execute()` found there when it was called and `found` what it finds after an await.
A value is the sequence of what stands between its slashes, because that is all the
marshalling of a path can lose. No text holds a character that means something in a uri, a
placeholder occurs once, and its name is taken as a whole (section 6). A query schema is its required fields. Fastify
calls the handler of the pattern the path fits, and is external.

**ConfigPoll**: `tokens` is the entry of one profile in the map, and a token is the
version it stands for; a poll answers with the version deployed unless its token stands
for it. AWS AppConfig is external: `Served`, `Expire`. `Fails` may come at
every await, before the token is kept; `ParseFails` is `json()` throwing at what cannot be
parsed (`AppConfig.ts:102-104`), after it is. `overlapped` is bookkeeping: whether two calls were ever under way at once.

**LivePush**: a connection between window and proxy and the one from the proxy to the
backend have one number. `unheard` are the ends whose close event has not been handled,
`pipe` the frames between proxy and window, `reading` those whose text is awaited.

**ServiceStack**: one operator per maker of the constructor; `Order` is its sequence of
kinds, `env` its `envVars`, `compute` the copy each job or service was made with,
`links` the references that were resolved and `grants` what a role may do. A manifest may
name, wherever its types allow a reference (`HoldRefs`, `ByKey`), any kind of resource of any
service, and use others' resources with any intent; what a maker looks up of that is `LooksUp`, and
what a grant gives is `UsesRights`. `Lookup` is the resolver. A key is known by the words `envVarName()` makes of it, as two keys may
have the same. The manifest is chosen in the initial state and its arrays are in any
order.

## 3. Runs

| Run | Instance | What it shows |
|---|---|---|
| `slots` (`RepoPage.cfg`) | one service with a compose file, the edge; 3 spawns, 1 restart. The page: 4 spawns, 2 operations, one area, 2 versions, a lag of 2 messages | slots hold the newest process; only a takeover loses one; timers find nothing they may SIGKILL; a check-in that reports success is pushed; a page that has read its messages is busy only while a command is filed |
| `pipeline` | a service with every capability, one that can only be built; 2 runs, 3 spawns, 1 other request; no reload | a resume keeps successes, a run that is not ok shows where to resume, and the whole refines `StagedRun`: stages run in order and halt at a failure |
| `pipeline_reload` | one service; 2 runs, 2 spawns, 1 other request; the window may be reloaded, so runs overlap | a stage shown as running is run by somebody; no two runs await one process; every run settles |
| `claude` | 2 services, 2 sessions, 1 turn, 1 request; modes ondemand and fix; 2 events on their way | map, queues, approvals and panel agree in every order of events |
| `claude_live` | one service, 2 sessions; modes ondemand, off and fix; 1 event on its way | every turn sent is read unless the session ends |
| `traffic` | queue: 2 consumers, one tenant with 2 messages, 1 priority message; no priority queue, and weights 0, 1/16, 10/16, 1 with sums of 3 binary digits, over 5 cycles. Endpoint: a path with a required and an optional parameter, a header and a query field, 18 queries, 2 requests. Configuration: 2 callers, 2 versions of which one is not JSON, 2 deployments. Push: 2 accounts, 2 connections, 1 frame | the fair queue gets its share up to a turn and the rounding, and both queues progress; `execute()` starts with the client's query; calls that do not overlap miss no change but to what cannot be parsed; bridges end together; a frame that is read is the account's |
| `services` | stack: a manifest with any subset of 13 declarations of the kinds that others refer to; any subset of 8 with the other 15, locally and not; every pair of 54 foreign references, each intent on each of 6 kinds. Daemon: 3 requests, 2 signals, both kinds. Bus: 2 events, 2 consumers, with and without `fromBeginning`, and with it a poison message or none | compute finds what is stored and sent; which references are wired and which are dropped; grants are the intents, and where they are not; a clean exit has drained and a shutdown ends; delivery is at least once and in order from where the group began, and events that are not skipped are handled |
| `console` | metrics: LocalStack and 2 accounts, 3 selections, 2 chart windows, 1 reload. Sync: 2 starts, 3 builds, 3 uploads of 2 files, both targets. Log: 2 streams of up to 4 lines, a ring of 3, a view of 2, 3 openings | no invocation on a real account, charts fit, beeps follow alerts, a settled target is what is shown; which builds can be missed, and when uploads can overlap; a view that is up to date shows the end of the log |
| `slots_hardstop` | one spawn | *violated*: a process that ignores SIGINT is never sent SIGKILL |
| `claude_stop` | 2 services, 2 sessions, every mode | *violated*: Stop in one service's panel rejects the request of another's session |
| `stack_env` | the manifests of `services` | *violated*: a resource made after the compute is not in its environment; the trace has a job and a user pool |
| `repo_scope` | as in `slots`, with two areas | *violated*: a check-in commits what an earlier one left in the index |

Why the bounds suffice. Every hazard here is between at most two actors and one
event that arrives late: the old and the new process of a slot, two runs of a
service, two sessions, two syncs, two consumers, two selections whose answers
cross. Three spawns let the late close of the first meet a replacement and a
replacement of that; two targets of the same kind and one of the other let a switch
change the kind or not. The chart windows are chosen so that a change cuts the
history by at least one sample in each kind. One tenant with two messages is
enough for the queue, because the token does not know tenants and SQS orders
within a group only. The stack's makers see each other only through maps and variables,
so that every pair of kinds in one manifest is what matters, and the second service,
the second database and the second alias are there for what only the last or the first
of several does. Two calls of the page are a check-in and whatever takes its slot;
one area is enough for what is reported, and what is committed beside it takes two.
Two polls, two connections and two accounts give each the other to cross. Three binary
digits round most of the sums that 53 leave exact in a test, and have a smallest weight whose sum never
reaches 1, as 53 have. The ring is
larger than the view and both smaller than the log, so that each forgets. The counters are bounded by guards on the *inputs*
(requests, selections, builds, signals), not on the program's own reactions, with one
exception: a handler of `claude` that tells the window something waits while `MaxNews` events are on
their way, which is the same as the window being quicker; how far it may lag is what that bound says.

Deadlock is not checked where the inputs are bounded and the system may stop once
they are used up (`CHECK_DEADLOCK FALSE` in `Pipeline`, `PipelineReload`, `RepoPage`,
`RepoScope`, `ServiceStackEnv`, `Services`, `Console`).

## 4. Fairness

Nothing obliges the user, a client or a publisher to do anything.

* `pipeline_reload`: the commands of stages terminate and node reports it.
* `slots_hardstop`: timers fire, close events are delivered, a process that is sent
  SIGKILL ends; one that is sent SIGINT need not.
* `claude_live`: the SDK loads, answers, and reads its prompt, as its streaming
  input does; that a query ends is not assumed.
* `traffic`: of the queue, consumers go on calling `receive()`, a long poll returns, an item is acked
  or given up. Strong fairness on a queue's deliveries says that a queue polled again and
  again does not fail, and is not missed by a short poll, every time.
* `services`: of the bus, the group assigns a partition without owner, its owner fetches, a
  handler ends, a member told to leave goes then, and a message that is
  redelivered again and again to an owner is not failed every time (strong).
* `services`: of the daemon, a timer that is armed fires. Handlers need not return.
* `console`: of the metrics, the interval ticks, polls and answers return: docker and the SDK
  calls end. (They have no timeout of their own in the code: docker that hangs
  stops the metrics for good, and no fairness of the console's makes up for that.)

The other parts of these runs have safety properties only, and no fairness.

## 5. Proofs

The proofs hold for every value of the constants under the ASSUMEs of the modules.

*ProcessSlots* (`ProcessSlots_proofs`): `TypeCorrect`, `SlotsAreConsistent`,
`HardStopIsDead`, `OnlyTakeoversLose`. `SlotsHoldTheNewest` is not inductive as it stands: that a
freshly spawned process is the newest of its slot needs `BornInOrder` (exactly
the children 1..spawned have been born), and that a timer never finds a running process
without its SIGINT needs `TimersAreBorn` (timers belong to processes that were
spawned). The invariant is their conjunction with the type invariant. `Stop`, which
six actions share, and `Spawn` have lemmas of their own, and each action then
follows from one or both. `OnlyOverlapLosesAProcess` is inductive on top of it: what a
step does to the slots is a spawn, an exit or a close (`SlotSteps`), a spawn makes the
occupant's newer witness, and a close that empties another's entry is the older one.

*Pipeline* (`Pipeline_proofs`, which extends the slot layer's): `AwaitsAnswerable` and
`RunningIsRun` hold whether or not the window is reloaded. Neither is inductive: that the
process a run awaits is the run's own, and will not be closed by somebody else's event, needs
that it was spawned for the stage the run is at (`AwaitsItsStage`). The loop of `runPipeline()`
is reasoned about once (`LoopMoves`: what it leaves of the run, the statuses and the slots), and
the rest of the program sees only that one run goes on and the others wait (`MoveKeeps`).
`FailureIsShown`, `SuccessKept` and `KeepsItsPromise` assume `~CanReload`: after a reload two
runs of a service may write one status object, and `pipeline_reload` shows what that does.
Without it a run in progress is the last one asked for of its service and the statuses say where
it is (`OneRun`), which needs that runs begin in their order. `OutcomeShows` says what a run's
loop comes to: all has passed, or the first stage that has not is the one it is at, or that failed.
The refinement `KeepsItsPromise` then takes the state of the one service to that of `StagedRun`
step by step (a run that starts, a stage that passes and the next that is begun, a failure), and
everything else, steps of other services' runs included, to stutters.

*ClaudeAgent* (`ClaudeAgent_proofs`): the five invariants its runs check are inductive
together once types are added, that sessions and requests are numbered as they are
made and untouched until then (`CInv`, `Numbered`), and what the events on their way will have
said: of the words on a service the last one is true (`LastWordIsTrue`), so that the panel that has heard
it is right (`WindowIsTold`). An event sent is one more at the end (`WordKeeps`, `CardKeeps`),
one delivered one fewer at the front (`HearKeeps`), and what sends nothing changes neither
(`SilenceKeeps`). Each handler
between two awaits has a lemma of its own. `OnlyEndsLose` says of every session that
nobody stopped and that has not ended: it is filed, or a stopped session of its
service has ended. `OneSessionUnlessStopped` is its use: until some stopped session
has ended, no service has two.

*RepoPage* (`RepoPage_proofs`, which extends the slot layer's): `ReportsAreTrue`, `BusyIsFiled` and
`NothingIsTakenBack`. That a check-in's commit is at the origin when it reports success needs, for each
call at each command, what the commands before it have done (`CallOK`); that every live process is
awaited by one call (`OneAwaitsIt`), so that the exit code a call reads is its own command's; and that no
copy of an area is ahead of the one it is made from (`InOrder`), so that no later push takes the
origin back. The page's flag needs the last message still on its way (`PendingIsFiled`).

*WorkQueue* (`Traffic_proofs`): `QueueTypeCorrect` and `TheShareIsKept`, that over any cycles
the fair queue's turns differ from its share by less than one turn and half the distance of
the doubles above 1 per cycle. The invariant adds what the token holds to what was had
(`TokenShare`): a cycle changes the sum of both by the weight and by the rounding of one sum
(`CycleKeepsShare`). What rounding does is proved of its definition: a sum is moved by half the
distance there at most (`RoundIs`), and one below 1 goes to 1 or to a double below it, never past
it (`BelowOne`), so that of two doubles below 1 the sum stays below 2, where 1 can be taken away exactly (`SumIs`).

*ServiceDaemon* (`Services_proofs`): `DrainedExit`. That nothing is cut off by a
successful exit says something only of the exit itself, so the invariant adds that a
process that has not exited has cut nothing off (`RunningIsWhole`); every way to
exit is an instance of one lemma, `ExitKeeps`, whose premise for a service's success,
no request under way, only `Closed` has to show.

*CloudMonitor* (`Console_proofs`): two invariants, the second on top of the
first. `NeverInvoked` needs that a cached client is for the current target
(`ClientsAreCurrent`), which `setTarget()` ensures by forgetting all of them in the
same step. `ChartsFit` and `BeepsAreAlerts` need that the store is armed for the
window's target and setting at every step (`ArmedForTheView`): `rearm()` is called in
the step in which either changes, and a poll that returns later is cut to what
it finds then (`RearmFits`).

*EventBus* (`Services_proofs`): `OkIsTrue`, `AtLeastOnce` and `ShutdownIsComplete`. The
first is inductive as it stands. A handler may
return after several changes of owner, so at-least-once needs that everything from where the
group began up to the offset it works on has been handled (`WorkedInOrder`), whatever is committed
meanwhile; the log only growing is `LogGrows`. While nothing is committed, each new member may begin
further on; the handler of an earlier one that still runs is then not the owner's, and what it returns is not
committed. The shutdown needs that a consumer
told to leave is leaving as long as it is connected, and that nobody else
was told to (`LeavingInv`).

*WatchSync* (`Console_proofs`): `OneSyncOneUpload` and `OnlyTheFlagMisses`. With one start the property is
about the number of uploads, which is not inductive; the invariant (`FlagGuards`) adds
that the sync in the map is a call's that has got past its look, that no upload runs before
one has, and that while only one call has, an upload under way has the flag of the sync
in the map set. The lemma `AtLeastTwo` turns two uploads at once into two members of a set. While there is no
build there is no upload and nothing in the bucket (`Unbuilt`). That only
a skipped sync misses a build is shown along the whole upload (`Synced`): when no event,
timer or skipped sync is outstanding, the files put so far and the one under way are of
the last build. It needs that uploads are apart, that is, the first invariant.

*ConfigPoll* (`Traffic_proofs`): `NothingMissed`. That the caller's value is the
map's token is kept by an answer only if the poll was made with that token; so as long
as calls have not overlapped there is at most one, and it polls with the token of the map
or with a new session's, and its answer fits the token that comes with it (`CInv`). A version that
`json()` cannot parse is the one exception: the token then stands for it, the caller's value does not, and the next answer
with a value ends that.

*LivePush* (`Traffic_proofs`): `NoHalfBridge` and `FramesFindTheirAccount`. A bridge with one
connection has an end that is still to be heard of, and each end is heard of once
(`EndsAreHeard`). A frame that is read came on the connection the window listens to, which
was made by the socket it has, which is the account's (`WindowInv`).

*Endpoint* (`Traffic_proofs`): `QueriesArrive`. Once a request is what its client made of a valid
query (`SentIsMarshalled`), all is in what the two ends do to one (`RoundTrip`). The path is put together by a recursive
function over the pattern; the provers have no induction to offer, so `PathIs` says what the function is, shows that this
satisfies its equation (and so that the function exists), and that there is no least segment at which
another solution differs. It is where the assumption about optional parameters, at the end of a
pattern only, is needed.

*LogFeed* (`Console_proofs`): `ViewShowsTheLog`. The property speaks of a view that has received
everything, and of any other state the invariant has to say what it will show. A line is its
number, so every list of lines is a run of consecutive numbers: the ring ends at the last line logged and begins
where it was last cleared or as far back as it reaches (`Keeps`); the last message on its way that
will replace the view's lines, or the view itself if there is none, holds a run of the ring's of its time
(`Replaces`, `Base`, `Shows`); and the lines of the open stream that come after it are the next ones, each once
and in order (`Awaits`). The lemmas on runs say what a ring does to one (`EndOfRun`, `RingGoesOn`).

*ServiceStack* (`ServiceStack_proofs`): `DataIsReached`, `ReferencesAreKept` and `IntentsAreHeld`, for
any set of declarations in any order of their arrays, with any references where the types allow
one and any intents. `ReferencesAreKept` says of each reference whether it is wired: those a maker looks
up, if the manifest declares a resource of that kind and key, and no other. `IntentsAreHeld` says what each
intent comes to on each kind, the departures of section 6 (`Ungranted`, `Loose`) included. What making one
declaration writes to the table and leaves in the stack is said once for all makers (`Writes`, `Leaves`); the invariant says what has been made so far and that it is not
undone: makers come in the order of kinds (`Ordered`), a stored resource has its variable in the table
and in each copy (`InTheTable`, `InTheCopies`), what is referred to is of a kind made earlier (`RefersBack`) and linked once its referrer is made, with
no link besides (`LinksHave`), the API and the aliases have what they front (`Fronts`), and grants on foreign
resources are of references granted, to all compute alike (`GrantsHeld`). That a variable is not overwritten is the hypothesis of `DataReachesCompute`, that no
other declaration spells it. The proof showed that this has to count the second variable of a topic,
`TOPIC_X_CONFIG`: a topic named `x-config` has the same one for its own
identifier (`Naming.ts:28`), and whichever is made last wins. The instance has such a pair now.

What is left to TLC. Liveness: `RunsSettle`, `EveryTurnIsHeard`,
`TenantsProgress`, `PriorityProgresses`, `EventsAreHandled`, `ShutdownEnds`,
`SettledTargetIsShown` hold under fairness, which the prover does not handle. Every
invariant and action property of a passing run is proved. The properties the four violation runs
refute, and those listed in section 6, are of course not.

## 6. Where the code departs from what is said of it

Four runs keep a departure each:

* `processManager.ts:183` says "hard stop if it ignores SIGINT"; the timer sends
  SIGKILL only `if ( !child.killed )`, and `killed` is true as soon as the SIGINT
  was delivered. (`KilledProcessesEnd`; `HardStopIsDead` proves the reason.)
* `claudeAgent.ts:101` says "reject any dangling approvals for this service"; the
  loop below it resolves the approvals of all services. (`StopIsPerService`)
* `ServiceStack.ts:72` says the stack "injects every resource's identifier into the
  service's compute as an env var the `CloudResolver` reads back", and line 154 "env is
  complete by now"; user pools, the API, the WebSocket API and event buses publish theirs
  after the compute has copied the table, though the resolver has an accessor for each.
  (`EveryIdentifierIsInjected`, which leaves out jobs: they publish no identifier at all, at any time.
  `DataReachesCompute` is what does hold.)
* `repo.ts:321` says "Stage ONLY the selected area paths (so the commit is scoped to what
  was checked)"; the commit names no paths and takes along whatever the index held
  already. (`CommitIsScoped`)

The modules state more properties that TLC refutes. They are listed here with what
is said and how to see it: add the name to the configuration given.

| Property | Said | Why it fails | Configuration |
|---|---|---|---|
| `EveryProcessIsOwned` (ProcessSlots) | "Owns every child process the console spawns" (`processManager.ts:19`) | the late close of a replaced process deletes its replacement's entry | `RepoPage.cfg`, INVARIANT |
| `RestartWaitsForThePort` (ProcessSlots) | "waits for the port to free" (`processManager.ts:282`) | it waits 1200 ms | `RepoPage.cfg`, PROPERTY |
| `LiveStatus` (Pipeline) | "Each stage shows live status" (`tools/console/README.md:34`) | a second run after a reload resets the statuses of the first | `PipelineReload.cfg`, INVARIANT |
| `OneSessionPerService` (ClaudeAgent) | "No-op if mode is off or already running" (`claudeAgent.ts:106`) | the end of a stopped session unfiles its successor | `ClaudeAgent.cfg` with `MaxSessions = 3`, INVARIANT |
| `DropsWhatItChecked` (ClaudeAgent) | "a stale/foreign id is dropped so we just start fresh" (`claudeAgent.ts:191`) | the token is dropped after an await, whatever it is by then | `ClaudeAgent.cfg`, PROPERTY |
| `ClearedIsForgotten` (ClaudeAgent) | "so the next chat starts fresh" (`ClaudePanel.tsx:218`) | the init message of an open session saves the token again | `ClaudeAgent.cfg`, PROPERTY |
| `AskedIsOffered` (ClaudeAgent) | "each gated by Approve/Reject in the UI" (`tools/console/README.md:62`) | requests made while the panel is not mounted are not fetched later | `ClaudeAgent.cfg`, INVARIANT |
| `ReadOnlyModesDoNotEdit` (ClaudeAgent) | "Tools a read-only mode (ondemand/realtime) must never use" (`claudeAgent.ts:25`) | the mode is read once when the session opens | `ClaudeAgent.cfg` with `Choices <- mcModes`, PROPERTY |
| `OneSlotPerTenant` (WorkQueue) | "a single flooding account occupies only its own group's slot" (`WorkQueue.ts:11`) | a message whose visibility timeout passes is delivered to a second consumer | `Traffic.cfg`, INVARIANT |
| `QuietIsSynced` (WatchSync) | "syncs the output straight into the LocalStack S3 site bucket" (`webDev.ts:14`) | a sync that is due during an upload is skipped and not armed again | `Console.cfg`, INVARIANT |
| `RealAccountIsReadOnly` (WatchSync) | "A real account is READ-ONLY" (`main/aws.ts:17`) | a sync goes on with the client of whatever target is current | `Console.cfg`, INVARIANT |
| `SuccessIsDrained` (ServiceDaemon) | "Override and call super.aboutToQuit()" (`Daemon.ts:126`) | the proxy's override does not, and cuts off its requests | `Services.cfg`, INVARIANT |
| `SourceIsOfTheTarget` (CloudMonitor) | "Target change resets history" (`metricsStore.ts:95`) | a poll that straddles the switch fills it with the old source again | `Console.cfg`, INVARIANT |
| `WindowAgrees` (CloudMonitor) | "every surface ... agrees on the current target" (`targetStore.ts:8`) | answers of two selections cross | `Console.cfg`, INVARIANT |
| `UndefinedIsUnchanged` (ConfigPoll) | json() "returns undefined when unchanged/empty" (`AppConfig.ts:95`) | the token is kept before the text is parsed, so after a version that cannot be parsed the caller keeps an older value and is told that nothing has changed | `Traffic.cfg`, INVARIANT |
| `ThrownIsRedelivered` (EventBus) | "a throw leaves it uncommitted (redelivered)" (`Kafka.ts:191`) | without `fromBeginning` and before the first commit the next member begins behind it | `Services.cfg`, INVARIANT |
| `OverlapIsHarmless` (ConfigPoll) | "returns an empty string when nothing changed since your last poll" (`AppConfig.ts:58`) | of two overlapping calls the later answer's token is kept, also when it is the older | `Traffic.cfg`, INVARIANT |
| `AwaitsKeepTheQuery` (Endpoint) | "endpoint instances are registered once and reused, so clear per-request state first" (`Service.ts:76`) | the next request clears and fills the query of one that is awaited | `Traffic.cfg`, INVARIANT |
| `PublishedToTheAccount` (LivePush) | "close any existing connection before going to another account" (`WebsocketService.ts:79`) | a frame whose text is awaited at the switch is published after it | `Traffic.cfg`, INVARIANT |
| `SignedInHasSocket` (LivePush) | `setAccountId()` connects when the account changes (`WebsocketService.ts:62`) | `makeEmpty()` keeps the account, so signing in to the same one again makes no socket | `Traffic.cfg`, INVARIANT |
| `EveryIntentIsGranted` (ServiceStack) | "wires least-privilege IAM (including cross-service `uses` by access intent)" (`ServiceStack.ts:71`) | a subscription to a topic and an intent on a function, an event bus or another kind is granted nothing (`:909`, `:919`), and an intent a queue, topic or secret does not have is granted all it has | `ServiceStackEnv.cfg`, INVARIANT in place of its own |
| `EveryReferenceIsWired` (ServiceStack) | "fan to a queue/lambda or onto EventBridge", "queue / lambda / etc.", "the source resource (queue/bus/bucket/api)" (`Resources.ts:78`, `:202`, `:229`) | a bucket's notifications are never read, and a trigger by, a rule to or an alarm's action on any other kind than the one the maker looks for is dropped (`ServiceStack.ts:698`) | `ServiceStackEnv.cfg`, INVARIANT in place of its own |
| `LinksAreToTheServiceNamed` (ServiceStack) | "A reference to a resource owned by some service (possibly another)" (`Common.ts:55`) | the maps hold this stack's resources by key, and the service of the reference is not looked at | `ServiceStackEnv.cfg`, INVARIANT in place of its own |
| `JobsAreTriggered` (ServiceStack) | "Attach an owned Lambda (by logical key) as a Cognito user-pool trigger" (`ServiceStack.ts:1048`) | a function's name is a token at synthesis and equals no literal | `ServiceStackEnv.cfg`, INVARIANT in place of its own |

Seen while modelling, and not stated as properties: the window connects with the query
parameter `cid` (`WebsocketService.ts:89`) and the proxy reads `accountId`
(`ProxyService.ts:275`, under a comment that says `cid`), so the backend is told no account;
`logStore.ts:60` says a trailing empty line is dropped and keeps it; of two
services of a manifest the API and the aliases go to the load balancer of the last; two
references to one foreign resource give its import the same construct id twice and end the
synthesis; a poll token that has expired is never dropped from the map, so that polls
fail until the process restarts; a value in a path is not percent-encoded, so one with a
slash in it is not routed or lands in other fields (`ServerSeesWhatTheClientSent` is
about values without); and `replace()` looks for `:id` also within `:idx`
(`RestfulEndpoint.ts:157`), so that where `:idx` stands first in the uri, `id` has to be
mapped after it.

## 7. Plan

Done, in this order: process slots, pipeline and its abstract specification,
Claude, work queue, watch-sync, event bus, process life cycle, cloud target and
metrics; then the repository page, the log feed, the REST endpoint, the
AppConfig poll, the realtime path and the service stack; proofs as in section 5.

Next, the model:

1. The cases the bounds leave out where they cost most: three sessions in `claude`, two
   services' pages at once.
2. `ScheduleUpsert`: pause and resume of a schedule against an upsert between their read
   and their write.
3. The pub/sub bus of the window with subscribers that unsubscribe while it publishes.

Next, the proofs: type correctness of the modules whose type invariant no run checks, as theorems of
their own; and action properties on top of the invariants there are, as `NothingIsTakenBack` is:
that a session nobody stopped stays filed, that a resume spawns nothing that has passed, that a committed
offset never goes back.

## 8. What is not modelled, and why

* Views, formatting, log wording, transcripts, profile lists, error texts: no property depends on them.
* Doubles of 53 binary digits in TLC's runs: the model rounds as they do for any number of digits,
  the runs have three, and the proofs are for all. How far a turn may come late is what `ShareKept` says,
  and that a weight of 2^-54 or less never gets one what `TenantsProgress` excepts.
* Time: timers fire at some point, never at a given one. A delay is not an error here.
* The attributes of cloud resources (sizes, retention, policies, throttles) and the platform
  stack: declarations that no other part of the program reads.
* Request bodies and field types: both ends check them with the same schema, in one step.
* The sign-out of an account (`setAccountId( "" )`, which connects with an empty one): no
  caller does it.
* `aws/Scheduler.ts`: each operation is one or two SDK calls and nothing is kept; no
  service calls it yet.
* `packages/services/src/WorkQueue.ts` (the dispatch governor) throws "not
  implemented"; `Consumer.ts` has no loop of its own; `Job.ts` runs one invocation at a time.
* The remaining AWS facades are one SDK call per method around a lazily made client; the
  AI clients one retry loop around a local counter.
* The rest of `cloud/` and `packages/cloud-manifest`, `packages/system`,
  `packages/common`, `packages/api` and the models under `apps/core` are declarations and
  pure functions, and the widgets and pages of the web application React components;
  together they are most of the repository's lines. `apps/integrations` is Markdown.
* Hazards no property covers carry a note in `PROJECT.json`.
