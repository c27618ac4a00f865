----------------------------- MODULE Pipeline -----------------------------
(***************************************************************************)
(* runPipeline() of tools/console/src/main/processManager.ts, on top of    *)
(* the process slots: a run takes the selected stages of one service in    *)
(* the order build, image, deploy, awaits the process of each and halts at *)
(* the first that fails.  The statuses are one shared object per service,  *)
(* which every run of the service reads and writes across its awaits.      *)
(*                                                                         *)
(* Everything between two awaits is one step: the close handler of the     *)
(* awaited process resolves the promise, and the rest of the loop runs as  *)
(* a microtask before any other event is delivered.                        *)
(***************************************************************************)
EXTENDS ProcessSlots

CONSTANTS CanBuild, CanImage,  \* the services with these capabilities
          PipelineServices,    \* the services the window runs pipelines for
          MaxRuns,             \* bound on the runs requested
          MaxRequests,         \* bound on the other requests made meanwhile
          CanReload,           \* whether the console's window may be reloaded
          OneService           \* the service KeepsThePromise is stated of

ASSUME PipelineAssumption ==
  /\ PipelineServices \subseteq Services
  /\ CanBuild \subseteq Services /\ CanImage \subseteq Services
  /\ MaxRuns \in Nat /\ MaxRequests \in Nat /\ CanReload \in BOOLEAN
  /\ OneService \in PipelineServices

Stages == {"build", "image", "deploy"}
Order  == [build |-> 1, image |-> 2, deploy |-> 3]     \* STAGE_ORDER
Target == {"compose", "cdklocal"}
Runs   == 1..MaxRuns

VARIABLES stages,   \* stages[s][g]: the StageState object of service s
          runs,     \* what the closure of each runPipeline() call holds
          requests  \* how many other requests the window has made

pipeVars == <<stages, runs, requests>>
allVars  == <<slotVars, pipeVars>>

\* phase: "new", "awaiting" (the process `child' of stage `at'), "done" with
\* result.ok in `ok', or "rejected" when spawn threw.  `watched': the window
\* that asked for the run still shows it as busy.
NewRun == [phase |-> "new", svc |-> WebProxy, sel |-> {}, target |-> "cdklocal",
           resume |-> FALSE, at |-> "build", child |-> NoChild,
           ok |-> FALSE, watched |-> FALSE]

PInit == /\ Init
         /\ stages = [s \in Services |-> [g \in Stages |-> "idle"]]
         /\ runs = [p \in Runs |-> NewRun]
         /\ requests = 0

Awaiting(p) == runs[p].phase = "awaiting"

\* DevelopView.onRun: the Run and Resume buttons of a service are disabled
\* while a run this window asked for has not settled.
Busy(s) == \E p \in Runs : Awaiting(p) /\ runs[p].watched /\ runs[p].svc = s

-----------------------------------------------------------------------------

First(G) == CHOOSE g \in G : \A h \in G : Order[g] <= Order[h]
After(G, g) == {h \in G : Order[h] > Order[g]}

\* Variants: the failing stage is not marked; the stages after it are not.
Unmarked(ss, sel, g) == [h \in Stages |-> IF h \in After(sel, g) THEN "skipped" ELSE ss[h]]
Unskipped(ss, sel, g) == [ss EXCEPT ![g] = "failed"]

\* setStage( stage, "failed" ) and skipAfter().
Halted(ss, sel, g) ==
  [h \in Stages |-> IF h = g THEN "failed"
                    ELSE IF h \in After(sel, g) THEN "skipped" ELSE ss[h]]

\* The capability guards, and deployCmd() finding no compose file.
Capable(r, g) ==
  /\ g = "build" => r.svc \in CanBuild
  /\ g = "image" => r.svc \in CanImage
  /\ g = "deploy" /\ r.target = "compose" => r.svc \in HasCompose

\* The run returns with the statuses ss; the rest of its closure is gone.
Settle(p, r, ss) ==
  /\ stages' = [stages EXCEPT ![r.svc] = ss]
  /\ runs' = [runs EXCEPT ![p] =
       [NewRun EXCEPT !.phase = "done", !.svc = r.svc, !.sel = r.sel, !.resume = r.resume,
                      !.ok = \A g \in r.sel : ss[g] = "success"]]

\* No process is signalled or spawned.
SlotsAre(tab, st) ==
  /\ slots' = tab /\ status' = st
  /\ UNCHANGED <<spawned, keyOf, killed, timers>>

\* The loop over the stages in `rest', up to its next await or return, from the
\* statuses ss and the slot table tab.
Loop(p, r, rest, ss, tab, st) ==
  LET todo == {g \in rest : ~(r.resume /\ ss[g] = "success")}
      g    == First(todo)
      on   == [ss EXCEPT ![g] = "running"]
  IN \/ /\ todo = {}
        /\ Settle(p, r, ss) /\ SlotsAre(tab, st)
     \/ /\ todo # {} /\ ~Capable(r, g)
        /\ Settle(p, r, Halted(ss, r.sel, g)) /\ SlotsAre(tab, st)
     \/ /\ todo # {} /\ Capable(r, g)
        /\ Stop(tab, {<<r.svc, g>>})
        /\ stages' = [stages EXCEPT ![r.svc] = on]
        /\ \/ /\ Spawn(tab, st, <<r.svc, g>>)
              /\ runs' = [runs EXCEPT ![p] =
                   [r EXCEPT !.phase = "awaiting", !.at = g, !.child = spawned']]
           \/ /\ SpawnThrows(tab, st)
              /\ runs' = [runs EXCEPT ![p] = [r EXCEPT !.phase = "rejected", !.at = g]]

-----------------------------------------------------------------------------
\* Variant: a resume resets what it was to keep.
ResetAll(s, sel, resume) ==
  [g \in Stages |-> IF g \in sel THEN "idle" ELSE stages[s][g]]

\* The selected stages are reset, except those a resume keeps.
Reset(s, sel, resume) ==
  [g \in Stages |-> IF g \in sel /\ ~(resume /\ stages[s][g] = "success")
                    THEN "idle" ELSE stages[s][g]]

\* The window asks for a run: the stages are reset and the loop starts.
StartRun(p, s, sel, target, resume) ==
  /\ runs[p].phase = "new"
  /\ \A q \in Runs : q < p => runs[q].phase # "new"
  /\ ~Busy(s)
  /\ Loop(p, [NewRun EXCEPT !.svc = s, !.sel = sel, !.target = target,
                            !.resume = resume, !.watched = TRUE],
          sel, Reset(s, sel, resume), slots, status)
  /\ UNCHANGED <<doomed, restarts, requests>>

\* The awaited process closes with code 0.  A compose deploy is followed on the
\* runtime stream before its stage is marked; an exception there is swallowed.
StageSucceeds(p) ==
  LET r  == runs[p]
      c  == r.child
      st == [status EXCEPT ![c] = "closed"]
      ss == [stages[r.svc] EXCEPT ![r.at] = "success"]
      log == <<r.svc, "runtime">>
  IN /\ Awaiting(p) /\ status[c] = "exited"
     /\ \/ /\ r.at = "deploy" /\ r.target = "compose"
           /\ Stop(Freed(c), {log})
           /\ Spawn(Freed(c), st, log) \/ SpawnThrows(Freed(c), st)
           /\ Settle(p, r, ss)
        \/ /\ ~(r.at = "deploy" /\ r.target = "compose")
           /\ Loop(p, r, After(r.sel, r.at), ss, Freed(c), st)
     /\ UNCHANGED <<doomed, restarts, requests>>

\* It closes with another code, or was terminated by a signal.
StageFails(p) ==
  LET r == runs[p]
  IN /\ Awaiting(p)
     /\ Close(r.child)
     /\ Settle(p, r, Halted(stages[r.svc], r.sel, r.at))
     /\ UNCHANGED requests

\* Variant: a process that closes is never heard of.
Unheard(c) == Close(c) /\ UNCHANGED pipeVars

\* The process of a run whose promise nobody awaits, or of no run.
OtherClose(c) ==
  /\ ~\E p \in Runs : Awaiting(p) /\ runs[p].child = c
  /\ Close(c) /\ UNCHANGED pipeVars

\* The window is reloaded and forgets which services were busy.
Reload ==
  /\ CanReload
  /\ \E p \in Runs : Awaiting(p) /\ runs[p].watched
  /\ runs' = [p \in Runs |-> [runs[p] EXCEPT !.watched = FALSE]]
  /\ UNCHANGED <<slotVars, stages, requests>>

\* The other operations on the service's slots while runs are under way.
SlotRequest(s) ==
  /\ requests < MaxRequests /\ requests' = requests + 1
  /\ \/ KillAll(s) \/ ComposeDown(s) \/ StartBuildWatch(s)
     \/ \E k \in {s} \X Streams : Kill(k)
  /\ UNCHANGED <<stages, runs>>

SlotStep(c) == (Exit(c) \/ HardStop(c)) /\ UNCHANGED pipeVars

\* The target of a request that does not select deploy is never read.
Targets(sel) == IF "deploy" \in sel THEN Target ELSE {"cdklocal"}

PNext ==
  \/ \E p \in Runs, s \in PipelineServices, sel \in (SUBSET Stages) \ {{}} :
       \E target \in Targets(sel), resume \in BOOLEAN :
         StartRun(p, s, sel, target, resume)
  \/ \E p \in Runs : StageSucceeds(p) \/ StageFails(p)
  \/ \E s \in PipelineServices : SlotRequest(s)
  \/ \E c \in Child : OtherClose(c) \/ SlotStep(c)
  \/ Reload

PSpec == PInit /\ [][PNext]_allVars

\* The commands of the stages terminate, and node reports it.
PFairness ==
  /\ WF_allVars(\E p \in Runs : StageSucceeds(p) \/ StageFails(p))
  /\ WF_allVars(\E p \in Runs : Awaiting(p) /\ Exit(runs[p].child) /\ UNCHANGED pipeVars)

PFairSpec == PSpec /\ PFairness

-----------------------------------------------------------------------------
(* Properties                                                              *)

\* A stage shown as running is being run: some run awaits a live process of that
\* stage, or a spawn threw there and the exception left the status behind.
RunningStageIsRun ==
  \A s \in Services, g \in Stages : stages[s][g] = "running" =>
    \E p \in Runs :
      /\ runs[p].svc = s /\ runs[p].at = g
      /\ \/ Awaiting(p) /\ Live(runs[p].child) /\ keyOf[runs[p].child] = <<s, g>>
         \/ runs[p].phase = "rejected"

\* No await is left hanging or answered twice: two runs never wait for one
\* process, and the process a run waits for has not closed.
AwaitsAreAnswerable ==
  \A p \in Runs : Awaiting(p) =>
    /\ Live(runs[p].child)
    /\ \A q \in Runs \ {p} : Awaiting(q) => runs[q].child # runs[p].child

\* A run that returns not ok leaves the stage to resume from on show: the first
\* selected stage that did not pass is "failed", until a later run of the service
\* is started.
NotOkShowsWhere ==
  \A p \in Runs : runs[p].phase = "done" /\ ~runs[p].ok =>
    LET ss == stages[runs[p].svc]
        G  == {g \in runs[p].sel : ss[g] # "success"}
    IN \/ G # {} /\ ss[First(G)] = "failed"
       \/ \E q \in Runs : q > p /\ runs[q].phase # "new" /\ runs[q].svc = runs[p].svc

\* `resume keeps prior successes' (processManager.ts:310): a success is given up
\* only to a new run that selects its stage and is not a resume, or to the
\* failure of an earlier stage of a run that had selected both.
KeepsSuccess ==
  \A s \in Services, g \in Stages :
    stages[s][g] = "success" /\ stages'[s][g] # "success" =>
      \E p \in Runs : /\ runs'[p] # runs[p] /\ runs'[p].svc = s /\ g \in runs'[p].sel
                      /\ \/ runs[p].phase = "new" /\ ~runs'[p].resume
                         \/ \E h \in runs'[p].sel : /\ Order[h] < Order[g]
                                                    /\ stages'[s][h] = "failed"
SuccessIsKept == [][KeepsSuccess]_allVars

\* The run of a service asked for last, if any.
Latest(s) == {p \in Runs : runs[p].svc = s /\ runs[p].phase # "new"
                /\ \A q \in Runs : q > p => runs[q].svc # s \/ runs[q].phase = "new"}

\* While the window is not reloaded, what it shows of a service is what the README
\* promises of a staged pipeline, whatever else is started, stopped or killed
\* meanwhile (README.md:32).
Promise == INSTANCE StagedRun WITH
  shown  <- stages[OneService],
  sel    <- UNION {runs[p].sel : p \in Latest(OneService)},
  active <- \E p \in Runs : Awaiting(p) /\ runs[p].svc = OneService
KeepsThePromise == Promise!Spec

\* Every run settles: whatever is killed, replaced or overlapped, the promise of
\* each run() is resolved.
RunsSettle == \A p \in Runs : Awaiting(p) ~> runs[p].phase \in {"done", "rejected"}

\* `Each stage shows live status' (README.md:34): the stage a run is executing is
\* shown as running.
LiveStatus == \A p \in Runs : Awaiting(p) => stages[runs[p].svc][runs[p].at] = "running"
=============================================================================
