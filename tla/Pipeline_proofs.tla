-------------------------- MODULE Pipeline_proofs --------------------------
(***************************************************************************)
(* Proofs about Pipeline, for any services, any number of runs and of      *)
(* processes: that awaits are answered and running stages are run, that    *)
(* successes are kept and a failure is shown, and that the pipeline        *)
(* implements StagedRun.  The slot layer keeps its own invariant, IInv.    *)
(***************************************************************************)
EXTENDS Pipeline, ProcessSlots_proofs

Marks     == {"idle", "running", "success", "failed", "skipped"}
Statuses  == [Stages -> Marks]
RunRecord == [phase : {"new", "awaiting", "done", "rejected"}, svc : Services,
              sel : SUBSET Stages, target : Target, resume : BOOLEAN, at : Stages,
              child : Child \cup {NoChild}, ok : BOOLEAN, watched : BOOLEAN]

PTypeOK == /\ stages \in [Services -> Statuses]
           /\ runs \in [Runs -> RunRecord]
           /\ requests \in Nat

\* A run waits for a live process of the stage it is at.
AwaitsItsStage ==
  \A p \in Runs : Awaiting(p) =>
    /\ runs[p].child \in Child /\ Live(runs[p].child)
    /\ keyOf[runs[p].child] = <<runs[p].svc, runs[p].at>>
    /\ runs[p].at \in runs[p].sel

PInv == IInv /\ PTypeOK /\ AwaitsItsStage /\ AwaitsAreAnswerable /\ RunningStageIsRun

-----------------------------------------------------------------------------
(* The loop                                                                *)

LEMMA FirstIsLeast ==
  ASSUME NEW G \in SUBSET Stages, G # {}
  PROVE  First(G) \in G /\ \A h \in G : Order[First(G)] <= Order[h]
  <1>1. \E g \in G : \A h \in G : Order[g] <= Order[h]
    <2>1. Order["build"] = 1 /\ Order["image"] = 2 /\ Order["deploy"] = 3
      BY DEF Order
    <2>2. CASE "build" \in G
      BY <2>1, <2>2 DEF Stages
    <2>3. CASE "build" \notin G /\ "image" \in G
      BY <2>1, <2>3 DEF Stages
    <2>4. CASE "build" \notin G /\ "image" \notin G
      <3>1. G = {"deploy"}
        BY <2>4 DEF Stages
      <3>2. QED
        BY <2>1, <3>1
    <2>5. QED
      BY <2>2, <2>3, <2>4
  <1>2. QED
    BY <1>1 DEF First

LEMMA OrderIsTotal ==
  ASSUME NEW g \in Stages, NEW h \in Stages
  PROVE  /\ Order[g] \in Nat
         /\ Order[g] <= Order[h] <=> ~(Order[h] < Order[g])
         /\ g # h => Order[g] < Order[h] \/ Order[h] < Order[g]
  BY DEF Stages, Order

\* Run p steps to the record z, and the statuses of its service to zs.
Moves(p, z, zs) == /\ stages' = [stages EXCEPT ![z.svc] = zs]
                   /\ runs' = [runs EXCEPT ![p] = z]

\* The loop passes over h.
Kept(r, ss, h) == r.resume /\ ss[h] = "success"

AllPassed(r, ss) == \A h \in r.sel : ss[h] = "success"

\* How the loop over `rest' leaves the run r that starts it from the statuses ss:
\* every stage is kept, or the first that is not halts the run or is spawned.
LoopEnds(r, rest, ss, z, zs) ==
  /\ z.svc = r.svc /\ z.sel = r.sel /\ z.resume = r.resume
  /\ \/ /\ \A h \in rest : Kept(r, ss, h)
        /\ zs = ss /\ z.phase = "done" /\ z.ok = AllPassed(r, zs)
     \/ \E g \in rest :
          /\ ~Kept(r, ss, g)
          /\ \A h \in rest : Order[h] < Order[g] => Kept(r, ss, h)
          /\ \/ zs = Halted(ss, r.sel, g) /\ z.phase = "done" /\ z.ok = AllPassed(r, zs)
             \/ /\ zs = [ss EXCEPT ![g] = "running"]
                /\ z.phase \in {"awaiting", "rejected"} /\ z.at = g
                /\ z.watched = r.watched

\* What it does to the processes, from the statuses st.
LoopSpawns(z, st) ==
  \/ z.phase # "awaiting" /\ status' = st /\ keyOf' = keyOf
  \/ /\ z.phase = "awaiting" /\ z.child = spawned + 1 /\ z.child \in Child
     /\ status' = [st EXCEPT ![z.child] = "running"]
     /\ keyOf' = [keyOf EXCEPT ![z.child] = <<z.svc, z.at>>]

LEMMA NewRunIsRecord == NewRun \in RunRecord
  BY ServicesAssumption DEF NewRun, RunRecord, Target, Stages, NoChild

LEMMA HaltedIsStatuses ==
  ASSUME NEW ss \in Statuses, NEW sel \in SUBSET Stages, NEW g \in Stages
  PROVE  Halted(ss, sel, g) \in Statuses
  BY DEF Halted, Statuses, Marks

\* run() of a stage, after the slots were left as tab and the processes as st.
LEMMA StageRuns ==
  ASSUME IInv, NEW tab, NEW st, Filed(tab, st), NEW k \in Key, Stop(tab, {k}),
         Spawn(tab, st, k) \/ SpawnThrows(tab, st), UNCHANGED <<doomed, restarts>>
  PROVE  IInv'
  <1>1. restarts' \in Nat
    BY DEF IInv, TypeOK
  <1>2. CASE Spawn(tab, st, k)
    BY <1>1, <1>2, SpawnStep
  <1>3. CASE SpawnThrows(tab, st)
    BY <1>1, <1>3, StopStep DEF SpawnThrows
  <1>4. QED
    BY <1>2, <1>3

LEMMA SettleMoves ==
  ASSUME NEW p, NEW r \in RunRecord, NEW ss \in Statuses, Settle(p, r, ss)
  PROVE  \E z \in RunRecord :
           /\ Moves(p, z, ss) /\ z.svc = r.svc /\ z.sel = r.sel /\ z.resume = r.resume
           /\ z.phase = "done" /\ z.ok = AllPassed(r, ss)
  <1> DEFINE z == [NewRun EXCEPT !.phase = "done", !.svc = r.svc, !.sel = r.sel,
                                 !.resume = r.resume, !.ok = AllPassed(r, ss)]
  <1>0. AllPassed(r, ss) \in BOOLEAN
    BY DEF AllPassed
  <1>1. /\ z \in RunRecord /\ z.svc = r.svc /\ z.sel = r.sel /\ z.resume = r.resume
        /\ z.phase = "done" /\ z.ok = AllPassed(r, ss)
    BY <1>0, NewRunIsRecord DEF RunRecord
  <1>2. Moves(p, z, ss)
    BY <1>1 DEF Settle, Moves, AllPassed
  <1>3. QED
    BY <1>1, <1>2

LEMMA LoopMoves ==
  ASSUME IInv, NEW p \in Runs, NEW r \in RunRecord, NEW rest \in SUBSET r.sel,
         NEW ss \in Statuses, NEW tab, NEW st, Filed(tab, st),
         Loop(p, r, rest, ss, tab, st), UNCHANGED <<doomed, restarts>>
  PROVE  /\ IInv'
         /\ \E z \in RunRecord, zs \in Statuses :
              Moves(p, z, zs) /\ LoopEnds(r, rest, ss, z, zs) /\ LoopSpawns(z, st)
  <1> DEFINE todo == {g \in rest : ~(r.resume /\ ss[g] = "success")}
             g    == First(todo)
             on   == [ss EXCEPT ![g] = "running"]
  <1>1. restarts' \in Nat /\ r.sel \in SUBSET Stages /\ r.svc \in Services
    BY DEF IInv, TypeOK, RunRecord
  <1>2. ASSUME SlotsAre(tab, st) PROVE IInv'
    BY <1>1, <1>2, FiledStep DEF SlotsAre
  <1>3. ASSUME todo # {}
        PROVE  /\ g \in rest /\ g \in Stages /\ ~Kept(r, ss, g)
               /\ \A h \in rest : Order[h] < Order[g] => Kept(r, ss, h)
    <2>1. g \in todo /\ \A h \in todo : Order[g] <= Order[h]
      BY <1>1, <1>3, FirstIsLeast
    <2>2. g \in Stages /\ rest \subseteq Stages
      BY <1>1, <2>1
    <2>3. ASSUME NEW h \in rest, Order[h] < Order[g] PROVE h \notin todo
      <3>1. ~(Order[g] <= Order[h])
        BY <2>2, <2>3, OrderIsTotal
      <3>2. QED
        BY <2>1, <3>1
    <2>4. QED
      BY <2>1, <2>2, <2>3 DEF Kept
  <1>4. CASE todo = {} /\ Settle(p, r, ss) /\ SlotsAre(tab, st)
    <2>1. \A h \in rest : Kept(r, ss, h)
      BY <1>4 DEF Kept
    <2>2. PICK z \in RunRecord :
            /\ Moves(p, z, ss) /\ z.svc = r.svc /\ z.sel = r.sel /\ z.resume = r.resume
            /\ z.phase = "done" /\ z.ok = AllPassed(r, ss)
      BY <1>4, SettleMoves
    <2>3. LoopEnds(r, rest, ss, z, ss) /\ LoopSpawns(z, st)
      BY <1>4, <2>1, <2>2 DEF LoopEnds, LoopSpawns, SlotsAre
    <2>4. QED
      BY <1>2, <1>4, <2>2, <2>3
  <1>5. CASE todo # {} /\ Settle(p, r, Halted(ss, r.sel, g)) /\ SlotsAre(tab, st)
    <2>1. Halted(ss, r.sel, g) \in Statuses
      BY <1>1, <1>3, <1>5, HaltedIsStatuses
    <2>2. PICK z \in RunRecord :
            /\ Moves(p, z, Halted(ss, r.sel, g))
            /\ z.svc = r.svc /\ z.sel = r.sel /\ z.resume = r.resume
            /\ z.phase = "done" /\ z.ok = AllPassed(r, Halted(ss, r.sel, g))
      BY <1>5, <2>1, SettleMoves
    <2>3. LoopEnds(r, rest, ss, z, Halted(ss, r.sel, g)) /\ LoopSpawns(z, st)
      BY <1>3, <1>5, <2>2 DEF LoopEnds, LoopSpawns, SlotsAre
    <2>4. QED
      BY <1>2, <1>5, <2>1, <2>2, <2>3
  <1>6. CASE /\ todo # {} /\ Stop(tab, {<<r.svc, g>>})
             /\ stages' = [stages EXCEPT ![r.svc] = on]
             /\ Spawn(tab, st, <<r.svc, g>>)
             /\ runs' = [runs EXCEPT ![p] =
                  [r EXCEPT !.phase = "awaiting", !.at = g, !.child = spawned']]
    <2> DEFINE z == [r EXCEPT !.phase = "awaiting", !.at = g, !.child = spawned']
    <2>1. <<r.svc, g>> \in Key /\ on \in Statuses
      BY <1>1, <1>3, <1>6 DEF Key, Streams, Stages, Statuses, Marks
    <2>2. IInv'
      BY <1>6, <2>1, StageRuns
    <2>3. /\ spawned' = spawned + 1 /\ spawned' \in Child
          /\ status' = [st EXCEPT ![spawned'] = "running"]
          /\ keyOf' = [keyOf EXCEPT ![spawned'] = <<r.svc, g>>]
      BY <1>6, BoundsAssumption DEF Spawn, IInv, TypeOK, Child
    <2>4. /\ z \in RunRecord /\ z.phase = "awaiting" /\ z.at = g /\ z.child = spawned'
          /\ z.svc = r.svc /\ z.sel = r.sel /\ z.resume = r.resume /\ z.watched = r.watched
      BY <1>3, <1>6, <2>3 DEF RunRecord
    <2>5. Moves(p, z, on) /\ LoopSpawns(z, st)
      BY <1>6, <2>3, <2>4 DEF Moves, LoopSpawns
    <2>6. LoopEnds(r, rest, ss, z, on)
      BY <1>3, <1>6, <2>4 DEF LoopEnds
    <2>7. QED
      BY <2>1, <2>2, <2>4, <2>5, <2>6
  <1>7. CASE /\ todo # {} /\ Stop(tab, {<<r.svc, g>>})
             /\ stages' = [stages EXCEPT ![r.svc] = on]
             /\ SpawnThrows(tab, st)
             /\ runs' = [runs EXCEPT ![p] = [r EXCEPT !.phase = "rejected", !.at = g]]
    <2> DEFINE z == [r EXCEPT !.phase = "rejected", !.at = g]
    <2>1. <<r.svc, g>> \in Key /\ on \in Statuses
      BY <1>1, <1>3, <1>7 DEF Key, Streams, Stages, Statuses, Marks
    <2>2. IInv'
      BY <1>7, <2>1, StageRuns
    <2>3. /\ z \in RunRecord /\ z.phase = "rejected" /\ z.at = g
          /\ z.svc = r.svc /\ z.sel = r.sel /\ z.resume = r.resume /\ z.watched = r.watched
      BY <1>3, <1>7 DEF RunRecord
    <2>4. Moves(p, z, on) /\ LoopSpawns(z, st)
      BY <1>7, <2>3 DEF Moves, LoopSpawns, SpawnThrows
    <2>5. LoopEnds(r, rest, ss, z, on)
      BY <1>3, <1>7, <2>3 DEF LoopEnds
    <2>6. QED
      BY <2>1, <2>2, <2>3, <2>4, <2>5
  <1>8. QED
    BY <1>4, <1>5, <1>6, <1>7 DEF Loop
-----------------------------------------------------------------------------
(* Awaits and running stages                                               *)

\* The process that run q awaits is there after the step.
StillAwaited(q) ==
  Awaiting(q) => /\ keyOf'[runs[q].child] = keyOf[runs[q].child]
                 /\ status'[runs[q].child] \in {"running", "exited"}

\* Run p goes on to z, and its service's statuses to zs; the others wait on.
GoesOn(p, z, zs) ==
  /\ Moves(p, z, zs) /\ UNCHANGED requests
  /\ \/ runs[p].phase = "new"
     \/ runs[p].phase = "awaiting" /\ runs[p].svc = z.svc
  /\ \A q \in Runs \ {p} : StillAwaited(q)
  /\ z.phase = "awaiting" =>
       /\ z.child \in Child /\ status'[z.child] = "running"
       /\ keyOf'[z.child] = <<z.svc, z.at>> /\ z.at \in z.sel
       /\ \A q \in Runs \ {p} : Awaiting(q) => runs[q].child # z.child
  /\ \A g \in Stages : zs[g] = "running" =>
       \/ z.at = g /\ z.phase \in {"awaiting", "rejected"}
       \/ stages[z.svc][g] = "running" /\ ~(Awaiting(p) /\ runs[p].at = g)

LEMMA MoveKeeps ==
  ASSUME PInv, IInv', NEW p \in Runs, NEW z \in RunRecord, NEW zs \in Statuses, GoesOn(p, z, zs)
  PROVE  PInv'
  <1>1. PTypeOK'
    BY DEF GoesOn, PInv, PTypeOK, Moves, RunRecord
  <1>2. runs'[p] = z /\ \A q \in Runs \ {p} : runs'[q] = runs[q]
    BY DEF GoesOn, PInv, PTypeOK, Moves
  <1>3. AwaitsItsStage'
    <2> SUFFICES ASSUME NEW q \in Runs, runs'[q].phase = "awaiting"
                 PROVE  /\ runs'[q].child \in Child
                        /\ status'[runs'[q].child] \in {"running", "exited"}
                        /\ keyOf'[runs'[q].child] = <<runs'[q].svc, runs'[q].at>>
                        /\ runs'[q].at \in runs'[q].sel
      BY DEF AwaitsItsStage, Awaiting, Live
    <2>1. CASE q = p
      BY <1>2, <2>1 DEF GoesOn
    <2>2. CASE q # p
      BY <1>2, <2>2 DEF GoesOn, PInv, AwaitsItsStage, Awaiting, StillAwaited
    <2>3. QED
      BY <2>1, <2>2
  <1>4. AwaitsAreAnswerable'
    <2>1. ASSUME NEW q \in Runs, NEW o \in Runs \ {q},
                 runs'[q].phase = "awaiting", runs'[o].phase = "awaiting"
          PROVE  runs'[o].child # runs'[q].child
      BY <1>2, <2>1 DEF GoesOn, PInv, AwaitsAreAnswerable, Awaiting
    <2>2. QED
      BY <1>3, <2>1 DEF AwaitsItsStage, AwaitsAreAnswerable, Awaiting
  <1>5. RunningStageIsRun'
    <2> SUFFICES ASSUME NEW s \in Services, NEW g \in Stages, stages'[s][g] = "running"
                 PROVE  \E q \in Runs : /\ runs'[q].svc = s /\ runs'[q].at = g
                                        /\ runs'[q].phase \in {"awaiting", "rejected"}
      BY <1>3 DEF RunningStageIsRun, AwaitsItsStage, Awaiting
    <2>1. CASE s = z.svc /\ z.at = g /\ z.phase \in {"awaiting", "rejected"}
      BY <1>2, <2>1
    <2>2. CASE stages[s][g] = "running" /\ ~(Awaiting(p) /\ runs[p].svc = s /\ runs[p].at = g)
      <3>1. PICK q \in Runs : /\ runs[q].svc = s /\ runs[q].at = g
                              /\ Awaiting(q) \/ runs[q].phase = "rejected"
        BY <2>2 DEF PInv, RunningStageIsRun
      <3>2. q # p
        BY <2>2, <3>1 DEF GoesOn, Awaiting
      <3>3. QED
        BY <1>2, <3>1, <3>2 DEF Awaiting
    <2>3. CASE s # z.svc
      <3>1. stages'[s] = stages[s]
        BY <2>3 DEF GoesOn, Moves, PInv, PTypeOK
      <3>2. QED
        BY <2>2, <2>3, <3>1 DEF GoesOn, Awaiting
    <2>4. CASE s = z.svc
      <3>1. stages'[s] = zs
        BY <2>4 DEF GoesOn, Moves, PInv, PTypeOK
      <3>2. QED
        BY <2>1, <2>2, <2>4, <3>1 DEF GoesOn, Awaiting
    <2>5. QED
      BY <2>3, <2>4
  <1>6. QED
    BY <1>1, <1>3, <1>4, <1>5 DEF PInv

\* No run goes on; at most the window forgets which it is watching.
LEMMA NoMoveKeeps ==
  ASSUME PInv, IInv', requests' \in Nat, UNCHANGED stages, runs' \in [Runs -> RunRecord],
         \A q \in Runs : /\ runs'[q].phase = runs[q].phase /\ runs'[q].svc = runs[q].svc
                         /\ runs'[q].sel = runs[q].sel /\ runs'[q].at = runs[q].at
                         /\ runs'[q].child = runs[q].child,
         \A q \in Runs : StillAwaited(q)
  PROVE  PInv'
  <1>1. PTypeOK'
    BY DEF PInv, PTypeOK
  <1>2. AwaitsItsStage'
    <2> SUFFICES ASSUME NEW q \in Runs, runs'[q].phase = "awaiting"
                 PROVE  /\ runs'[q].child \in Child
                        /\ status'[runs'[q].child] \in {"running", "exited"}
                        /\ keyOf'[runs'[q].child] = <<runs'[q].svc, runs'[q].at>>
                        /\ runs'[q].at \in runs'[q].sel
      BY DEF AwaitsItsStage, Awaiting, Live
    <2>1. Awaiting(q) /\ StillAwaited(q)
      BY DEF Awaiting
    <2>2. QED
      BY <2>1 DEF PInv, AwaitsItsStage, StillAwaited
  <1>3. AwaitsAreAnswerable'
    <2>1. ASSUME NEW q \in Runs, NEW o \in Runs \ {q},
                 runs'[q].phase = "awaiting", runs'[o].phase = "awaiting"
          PROVE  runs'[o].child # runs'[q].child
      BY <2>1 DEF PInv, AwaitsAreAnswerable, Awaiting
    <2>2. QED
      BY <1>2, <2>1 DEF AwaitsItsStage, AwaitsAreAnswerable, Awaiting
  <1>4. RunningStageIsRun'
    <2>1. ASSUME NEW s \in Services, NEW g \in Stages, stages'[s][g] = "running"
          PROVE  \E q \in Runs : /\ runs'[q].svc = s /\ runs'[q].at = g
                                 /\ \/ runs'[q].phase = "awaiting"
                                    \/ runs'[q].phase = "rejected"
      <3>1. PICK q \in Runs : /\ runs[q].svc = s /\ runs[q].at = g
                              /\ runs[q].phase = "awaiting" \/ runs[q].phase = "rejected"
        BY <2>1 DEF PInv, RunningStageIsRun, Awaiting
      <3>2. QED
        BY <3>1
    <2>2. ASSUME NEW q \in Runs, runs'[q].phase = "awaiting"
          PROVE  /\ status'[runs'[q].child] \in {"running", "exited"}
                 /\ keyOf'[runs'[q].child] = <<runs'[q].svc, runs'[q].at>>
      BY <1>2, <2>2 DEF AwaitsItsStage, Awaiting, Live
    <2>3. QED
      BY ONLY <2>1, <2>2 DEF RunningStageIsRun, Awaiting, Live
  <1>5. QED
    BY <1>1, <1>2, <1>3, <1>4 DEF PInv

LEMMA ResetIsStatuses ==
  ASSUME PTypeOK, NEW s \in Services, NEW sel \in SUBSET Stages, NEW resume \in BOOLEAN
  PROVE  /\ Reset(s, sel, resume) \in Statuses
         /\ \A g \in Stages : Reset(s, sel, resume)[g] =
              IF g \in sel /\ ~(resume /\ stages[s][g] = "success") THEN "idle" ELSE stages[s][g]
  BY DEF PTypeOK, Reset, Statuses, Marks

\* The stages that a loop leaves running were, or are the one it has spawned.
LEMMA LoopRuns ==
  ASSUME NEW r \in RunRecord, NEW rest \in SUBSET r.sel, NEW ss \in Statuses,
         NEW z \in RunRecord, NEW zs \in Statuses, LoopEnds(r, rest, ss, z, zs),
         NEW g \in Stages, zs[g] = "running"
  PROVE  \/ z.at = g /\ z.phase \in {"awaiting", "rejected"}
         \/ ss[g] = "running"
  BY DEF LoopEnds, Halted, Statuses


\* The processes that have been born are left alone by run() and by the loop.
LEMMA LoopLeaves ==
  ASSUME IInv, PTypeOK, NEW tab, NEW st, Filed(tab, st), NEW z \in RunRecord, LoopSpawns(z, st),
         NEW c \in Child, st[c] # "unborn"
  PROVE  status'[c] = st[c] /\ keyOf'[c] = keyOf[c] /\ c # spawned + 1
  <1>1. c # spawned + 1
    BY DEF IInv, TypeOK, Filed, Child
  <1>2. QED
    BY <1>1 DEF LoopSpawns, IInv, TypeOK, Filed

LEMMA RunLeaves ==
  ASSUME IInv, NEW tab, NEW st, Filed(tab, st), NEW k \in Key,
         Spawn(tab, st, k) \/ SpawnThrows(tab, st), NEW c \in Child, st[c] # "unborn"
  PROVE  status'[c] = st[c] /\ keyOf'[c] = keyOf[c]
  BY SpawnLeaves DEF SpawnThrows

\* The record a run starts its loop with.
Fresh(s, sel, target, resume) ==
  [NewRun EXCEPT !.svc = s, !.sel = sel, !.target = target, !.resume = resume, !.watched = TRUE]

LEMMA FreshIsRecord ==
  ASSUME NEW s \in Services, NEW sel \in SUBSET Stages, NEW target \in Target, NEW resume \in BOOLEAN
  PROVE  /\ Fresh(s, sel, target, resume) \in RunRecord
         /\ Fresh(s, sel, target, resume).svc = s /\ Fresh(s, sel, target, resume).sel = sel
         /\ Fresh(s, sel, target, resume).resume = resume
         /\ Fresh(s, sel, target, resume).watched
  BY NewRunIsRecord DEF Fresh, RunRecord

\* StartRun and StageSucceeds, in terms of LoopEnds.
LEMMA StartMoves ==
  ASSUME IInv, PTypeOK, NEW p \in Runs, NEW s \in PipelineServices, NEW sel \in SUBSET Stages,
         NEW target \in Target, NEW resume \in BOOLEAN, StartRun(p, s, sel, target, resume)
  PROVE  /\ IInv'
         /\ \E z \in RunRecord, zs \in Statuses :
              /\ Moves(p, z, zs) /\ LoopSpawns(z, status)
              /\ LoopEnds(Fresh(s, sel, target, resume), sel, Reset(s, sel, resume), z, zs)
  <1>1. s \in Services
    BY PipelineAssumption
  <1>2. Fresh(s, sel, target, resume) \in RunRecord /\ Fresh(s, sel, target, resume).sel = sel
    BY <1>1, FreshIsRecord
  <1>3. Reset(s, sel, resume) \in Statuses
    BY <1>1, ResetIsStatuses
  <1>4. Filed(slots, status)
    BY StateIsFiled
  <1>5. /\ Loop(p, Fresh(s, sel, target, resume), sel, Reset(s, sel, resume), slots, status)
        /\ UNCHANGED <<doomed, restarts>>
    BY DEF StartRun, Fresh
  <1>6. QED
    BY <1>2, <1>3, <1>4, <1>5, LoopMoves

\* The statuses once the stage run p is at has passed, and the processes once its
\* process has closed.
Passed(p)  == [stages[runs[p].svc] EXCEPT ![runs[p].at] = "success"]
Without(c) == [status EXCEPT ![c] = "closed"]

LEMMA PassMoves ==
  ASSUME IInv, PTypeOK, AwaitsItsStage, NEW p \in Runs, StageSucceeds(p)
  PROVE  /\ IInv'
         /\ \A c \in Child : status[c] # "unborn" /\ c # runs[p].child =>
              status'[c] = status[c] /\ keyOf'[c] = keyOf[c]
         /\ \E z \in RunRecord, zs \in Statuses :
              /\ Moves(p, z, zs)
              /\ \/ /\ LoopEnds(runs[p], After(runs[p].sel, runs[p].at), Passed(p), z, zs)
                    /\ LoopSpawns(z, Without(runs[p].child))
                 \/ /\ runs[p].at = "deploy" /\ zs = Passed(p) /\ z.phase = "done"
                    /\ z.svc = runs[p].svc /\ z.sel = runs[p].sel /\ z.resume = runs[p].resume
                    /\ z.ok = AllPassed(runs[p], zs)
  <1> DEFINE r    == runs[p]
             c    == r.child
             rest == After(r.sel, r.at)
  <1>1. /\ r \in RunRecord /\ rest \in SUBSET r.sel /\ r.svc \in Services /\ r.at \in Stages
        /\ c \in Child /\ status[c] = "exited" /\ UNCHANGED <<doomed, restarts>>
    BY DEF PTypeOK, AwaitsItsStage, StageSucceeds, RunRecord, After
  <1>2. Passed(p) \in Statuses
    BY <1>1 DEF PTypeOK, Passed, Statuses, Marks
  <1>3. Filed(Freed(c), Without(c))
    BY <1>1, ClosedIsFiled DEF Without
  <1>4. \A d \in Child : status[d] # "unborn" /\ d # c => Without(c)[d] = status[d]
    BY DEF Without, IInv, TypeOK
  <1>5. CASE /\ r.at = "deploy" /\ Stop(Freed(c), {<<r.svc, "runtime">>})
             /\ Spawn(Freed(c), Without(c), <<r.svc, "runtime">>) \/ SpawnThrows(Freed(c), Without(c))
             /\ Settle(p, r, Passed(p))
    <2>1. <<r.svc, "runtime">> \in Key
      BY <1>1 DEF Key, Streams
    <2>2. IInv'
      BY <1>1, <1>3, <1>5, <2>1, StageRuns
    <2>3. \A d \in Child : status[d] # "unborn" /\ d # c =>
            status'[d] = status[d] /\ keyOf'[d] = keyOf[d]
      BY <1>3, <1>4, <1>5, <2>1, RunLeaves
    <2>4. \E z \in RunRecord :
            /\ Moves(p, z, Passed(p)) /\ z.svc = r.svc /\ z.sel = r.sel /\ z.resume = r.resume
            /\ z.phase = "done" /\ z.ok = AllPassed(r, Passed(p))
      BY <1>1, <1>2, <1>5, SettleMoves
    <2>5. QED
      BY <1>2, <1>5, <2>2, <2>3, <2>4
  <1>6. CASE Loop(p, r, rest, Passed(p), Freed(c), Without(c))
    <2>1. /\ IInv'
          /\ \E z \in RunRecord, zs \in Statuses :
               Moves(p, z, zs) /\ LoopEnds(r, rest, Passed(p), z, zs) /\ LoopSpawns(z, Without(c))
      BY <1>1, <1>2, <1>3, <1>6, LoopMoves
    <2>2. \A d \in Child : status[d] # "unborn" /\ d # c =>
            status'[d] = status[d] /\ keyOf'[d] = keyOf[d]
      BY <1>3, <1>4, <2>1, LoopLeaves
    <2>3. QED
      BY <2>1, <2>2
  <1>7. QED
    BY <1>5, <1>6 DEF StageSucceeds, Passed, Without

\* A process that a loop has spawned is the awaited one, and nobody else's.
LEMMA LoopAwaits ==
  ASSUME PInv, NEW tab, NEW st, Filed(tab, st),
         \A c \in Child : st[c] = "unborn" <=> status[c] = "unborn",
         NEW z \in RunRecord, LoopSpawns(z, st), z.phase = "awaiting"
  PROVE  /\ z.child \in Child /\ status'[z.child] = "running"
         /\ keyOf'[z.child] = <<z.svc, z.at>>
         /\ \A q \in Runs : Awaiting(q) => runs[q].child # z.child
  <1>1. /\ z.child \in Child /\ status'[z.child] = "running"
        /\ keyOf'[z.child] = <<z.svc, z.at>> /\ z.child = spawned + 1
    BY DEF LoopSpawns, PInv, IInv, TypeOK, Filed
  <1>2. ASSUME NEW q \in Runs, Awaiting(q) PROVE runs[q].child # spawned + 1
    <2>1. runs[q].child \in Child /\ status[runs[q].child] # "unborn"
      BY <1>2 DEF PInv, AwaitsItsStage, Live
    <2>2. st[runs[q].child] # "unborn"
      BY <2>1
    <2>3. QED
      BY <2>1, <2>2, LoopLeaves DEF PInv
  <1>3. QED
    BY <1>1, <1>2

\* The stage a loop spawns is one it was asked to go over.
LEMMA LoopAt ==
  ASSUME NEW r \in RunRecord, NEW rest \in SUBSET r.sel, NEW ss, NEW z, NEW zs,
         LoopEnds(r, rest, ss, z, zs), z.phase = "awaiting"
  PROVE  z.at \in z.sel
  BY DEF LoopEnds

LEMMA StartKeeps ==
  ASSUME PInv, NEW p \in Runs, NEW s \in PipelineServices, NEW sel \in SUBSET Stages,
         NEW target \in Target, NEW resume \in BOOLEAN, StartRun(p, s, sel, target, resume)
  PROVE  PInv'
  <1> DEFINE r  == Fresh(s, sel, target, resume)
             ss == Reset(s, sel, resume)
  <1>0. s \in Services
    BY PipelineAssumption
  <1>1. /\ r \in RunRecord /\ r.svc = s /\ r.sel = sel /\ ss \in Statuses
        /\ \A g \in Stages : ss[g] = "running" => stages[s][g] = "running"
    <2>1. r \in RunRecord /\ r.svc = s /\ r.sel = sel
      BY <1>0, FreshIsRecord
    <2>2. /\ ss \in Statuses
          /\ \A g \in Stages : ss[g] =
               IF g \in sel /\ ~(resume /\ stages[s][g] = "success") THEN "idle" ELSE stages[s][g]
      BY <1>0, ResetIsStatuses DEF PInv
    <2>3. QED
      BY <2>1, <2>2
  <1>2. Filed(slots, status)
    BY StateIsFiled DEF PInv
  <1>3. IInv'
    BY StartMoves DEF PInv
  <1>4. PICK z \in RunRecord, zs \in Statuses :
          Moves(p, z, zs) /\ LoopSpawns(z, status) /\ LoopEnds(r, sel, ss, z, zs)
    BY StartMoves DEF PInv
  <1>5. runs[p].phase = "new" /\ UNCHANGED requests /\ z.svc = s
    BY <1>1, <1>4 DEF StartRun, LoopEnds
  <1>6. ASSUME NEW q \in Runs \ {p} PROVE StillAwaited(q)
    BY <1>2, <1>4, LoopLeaves DEF PInv, AwaitsItsStage, StillAwaited, Live
  <1>7. z.phase = "awaiting" =>
          /\ z.child \in Child /\ status'[z.child] = "running"
          /\ keyOf'[z.child] = <<z.svc, z.at>> /\ z.at \in z.sel
          /\ \A q \in Runs \ {p} : Awaiting(q) => runs[q].child # z.child
    <2>1. SUFFICES ASSUME z.phase = "awaiting"
                   PROVE  /\ z.child \in Child /\ status'[z.child] = "running"
                          /\ keyOf'[z.child] = <<z.svc, z.at>> /\ z.at \in z.sel
                          /\ \A q \in Runs : Awaiting(q) => runs[q].child # z.child
      OBVIOUS
    <2>2. z.at \in z.sel
      BY <1>1, <1>4, <2>1, LoopAt
    <2>3. QED
      BY <1>2, <1>4, <2>1, <2>2, LoopAwaits
  <1>8. ASSUME NEW g \in Stages, zs[g] = "running"
        PROVE  \/ z.at = g /\ z.phase \in {"awaiting", "rejected"}
               \/ stages[z.svc][g] = "running" /\ ~(Awaiting(p) /\ runs[p].at = g)
    <2> HIDE DEF r, ss
    <2>1. sel = r.sel /\ r \in RunRecord /\ ss \in Statuses /\ LoopEnds(r, sel, ss, z, zs)
      BY <1>1, <1>4
    <2>2. \/ z.at = g /\ z.phase \in {"awaiting", "rejected"}
          \/ ss[g] = "running"
      BY ONLY <2>1, <1>8, LoopRuns, z \in RunRecord, zs \in Statuses, g \in Stages
    <2>3. ~Awaiting(p)
      BY <1>5 DEF Awaiting
    <2> QED
      BY ONLY <1>1, <1>5, <2>2, <2>3, g \in Stages
  <1> HIDE DEF r, ss
  <1>9. GoesOn(p, z, zs)
    BY <1>4, <1>5, <1>6, <1>7, <1>8 DEF GoesOn
  <1>10. QED
    BY <1>3, <1>9, MoveKeeps

LEMMA PassKeeps ==
  ASSUME PInv, NEW p \in Runs, StageSucceeds(p)
  PROVE  PInv'
  <1> DEFINE r == runs[p]
             c == r.child
  <1>1. /\ r \in RunRecord /\ r.svc \in Services /\ r.at \in Stages /\ c \in Child
        /\ Awaiting(p) /\ status[c] = "exited" /\ UNCHANGED requests
        /\ After(r.sel, r.at) \in SUBSET r.sel
    BY DEF PInv, PTypeOK, AwaitsItsStage, StageSucceeds, RunRecord, After
  <1>2. /\ Passed(p) \in Statuses
        /\ \A g \in Stages : Passed(p)[g] = "running" => stages[r.svc][g] = "running" /\ g # r.at
    BY <1>1 DEF PInv, PTypeOK, Passed, Statuses, Marks
  <1>3. /\ Filed(Freed(c), Without(c))
        /\ \A d \in Child : Without(c)[d] = "unborn" <=> status[d] = "unborn"
    BY <1>1, ClosedIsFiled DEF Without, PInv, IInv, TypeOK
  <1>4. /\ IInv'
        /\ \A d \in Child : status[d] # "unborn" /\ d # c =>
             status'[d] = status[d] /\ keyOf'[d] = keyOf[d]
    BY PassMoves DEF PInv
  <1>5. PICK z \in RunRecord, zs \in Statuses :
          /\ Moves(p, z, zs)
          /\ \/ LoopEnds(r, After(r.sel, r.at), Passed(p), z, zs) /\ LoopSpawns(z, Without(c))
             \/ zs = Passed(p) /\ z.phase = "done" /\ z.svc = r.svc
    BY PassMoves DEF PInv
  <1>6. z.svc = r.svc
    BY <1>5 DEF LoopEnds
  <1>7. ASSUME NEW q \in Runs \ {p} PROVE StillAwaited(q)
    BY <1>1, <1>4 DEF PInv, AwaitsItsStage, AwaitsAreAnswerable, StillAwaited, Live
  <1>8. z.phase = "awaiting" =>
          /\ z.child \in Child /\ status'[z.child] = "running"
          /\ keyOf'[z.child] = <<z.svc, z.at>> /\ z.at \in z.sel
          /\ \A q \in Runs \ {p} : Awaiting(q) => runs[q].child # z.child
    <2>1. SUFFICES ASSUME z.phase = "awaiting"
                   PROVE  /\ z.child \in Child /\ status'[z.child] = "running"
                          /\ keyOf'[z.child] = <<z.svc, z.at>> /\ z.at \in z.sel
                          /\ \A q \in Runs : Awaiting(q) => runs[q].child # z.child
      OBVIOUS
    <2>2. LoopEnds(r, After(r.sel, r.at), Passed(p), z, zs) /\ LoopSpawns(z, Without(c))
      BY <1>5, <2>1
    <2> HIDE DEF r, c
    <2>3. z.at \in z.sel
      BY <1>1, <2>1, <2>2, LoopAt
    <2>4. QED
      BY <1>3, <2>1, <2>2, <2>3, LoopAwaits
  <1>9. ASSUME NEW g \in Stages, zs[g] = "running"
        PROVE  \/ z.at = g /\ z.phase \in {"awaiting", "rejected"}
               \/ stages[z.svc][g] = "running" /\ ~(Awaiting(p) /\ runs[p].at = g)
    <2>1. CASE zs = Passed(p) BY <1>2, <1>6, <1>9, <2>1
    <2>2. CASE LoopEnds(r, After(r.sel, r.at), Passed(p), z, zs)
      <3>1. PICK q \in RunRecord, rest \in SUBSET r.sel, ps \in Statuses :
              q = r /\ rest = After(r.sel, r.at) /\ rest \in SUBSET q.sel /\ ps = Passed(p)
        BY <1>1, <1>2
      <3> HIDE DEF r, c
      <3>2. LoopEnds(q, rest, ps, z, zs) BY ONLY <2>2, <3>1
      <3>3. \/ z.at = g /\ z.phase \in {"awaiting", "rejected"}
            \/ ps[g] = "running"
        BY ONLY <1>9, <3>1, <3>2, LoopRuns, z \in RunRecord, zs \in Statuses, g \in Stages
      <3>4. Passed(p)[g] = "running" => stages[z.svc][g] = "running" /\ g # runs[p].at
        BY <1>2, <1>6 DEF r
      <3> QED BY ONLY <3>1, <3>3, <3>4
    <2> QED BY <1>5, <2>1, <2>2
  <1>10. GoesOn(p, z, zs)
    BY <1>1, <1>5, <1>6, <1>7, <1>8, <1>9 DEF GoesOn, Awaiting
  <1>11. QED
    BY <1>4, <1>10, MoveKeeps

LEMMA FailKeeps ==
  ASSUME PInv, NEW p \in Runs, StageFails(p)
  PROVE  PInv'
  <1> DEFINE r  == runs[p]
             zs == Halted(stages[r.svc], r.sel, r.at)
  <1>1. /\ r \in RunRecord /\ r.svc \in Services /\ r.at \in Stages /\ r.child \in Child
        /\ r.sel \in SUBSET Stages /\ Awaiting(p) /\ Close(r.child) /\ UNCHANGED requests
    BY DEF PInv, PTypeOK, AwaitsItsStage, StageFails, RunRecord
  <1>2. stages[r.svc] \in Statuses
    BY <1>1 DEF PInv, PTypeOK
  <1>3. zs \in Statuses
    BY <1>1, <1>2, HaltedIsStatuses
  <1>4. \A g \in Stages : zs[g] = "running" => stages[r.svc][g] = "running" /\ g # r.at
    BY DEF Halted
  <1>5. IInv'
    BY <1>1, EnvironmentStep DEF PInv, Environment
  <1>6. PICK z \in RunRecord : Moves(p, z, zs) /\ z.svc = r.svc /\ z.phase = "done"
    BY <1>1, <1>3, SettleMoves DEF StageFails
  <1>7. ASSUME NEW q \in Runs \ {p} PROVE StillAwaited(q)
    BY <1>1 DEF PInv, AwaitsItsStage, AwaitsAreAnswerable, StillAwaited, Close, Live, IInv, TypeOK
  <1> HIDE DEF zs
  <1>8. GoesOn(p, z, zs)
    BY <1>1, <1>4, <1>6, <1>7 DEF GoesOn, Awaiting
  <1>9. QED
    BY <1>3, <1>5, <1>8, MoveKeeps

LEMMA OtherCloseKeeps ==
  ASSUME PInv, NEW c \in Child, OtherClose(c)
  PROVE  PInv'
  <1>1. Close(c) /\ UNCHANGED pipeVars /\ \A q \in Runs : Awaiting(q) => runs[q].child # c
    BY DEF OtherClose
  <1>2. IInv'
    BY <1>1, EnvironmentStep DEF PInv, Environment
  <1>3. \A q \in Runs : StillAwaited(q)
    BY <1>1 DEF PInv, AwaitsItsStage, StillAwaited, Close, Live, IInv, TypeOK
  <1>4. QED
    BY <1>1, <1>2, <1>3, NoMoveKeeps DEF PInv, PTypeOK, pipeVars

LEMMA SlotStepKeeps ==
  ASSUME PInv, NEW c \in Child, SlotStep(c)
  PROVE  PInv'
  <1>1. (Exit(c) \/ HardStop(c)) /\ UNCHANGED pipeVars
    BY DEF SlotStep
  <1>2. IInv'
    BY <1>1, EnvironmentStep DEF PInv, Environment
  <1>3. \A q \in Runs : StillAwaited(q)
    BY <1>1 DEF PInv, AwaitsItsStage, StillAwaited, Exit, HardStop, Live, IInv, TypeOK
  <1>4. QED
    BY <1>1, <1>2, <1>3, NoMoveKeeps DEF PInv, PTypeOK, pipeVars

LEMMA SlotRequestKeeps ==
  ASSUME PInv, NEW s \in PipelineServices, SlotRequest(s)
  PROVE  PInv'
  <1>1. s \in Services
    BY PipelineAssumption
  <1>2. requests' \in Nat /\ UNCHANGED <<stages, runs>>
    BY DEF SlotRequest, PInv, PTypeOK
  <1>3. Request
    <2>1. \A k \in {s} \X Streams : k \in Key
      BY <1>1 DEF Key
    <2>2. QED
      BY <1>1, <2>1 DEF SlotRequest, Request
  <1>4. IInv'
    BY <1>3, RequestStep DEF PInv
  <1>5. \A q \in Runs : StillAwaited(q)
    <2>1. SUFFICES ASSUME NEW q \in Runs, Awaiting(q)
                   PROVE  /\ keyOf'[runs[q].child] = keyOf[runs[q].child]
                          /\ status'[runs[q].child] \in {"running", "exited"}
      BY DEF StillAwaited
    <2>2. runs[q].child \in Child /\ status[runs[q].child] \in {"running", "exited"}
      BY <2>1 DEF PInv, AwaitsItsStage, Live
    <2>3. CASE UNCHANGED <<slots, keyOf, status>>
      BY <2>2, <2>3
    <2>4. ASSUME NEW k \in Key, Spawn(slots, status, k)
          PROVE  /\ keyOf'[runs[q].child] = keyOf[runs[q].child]
                 /\ status'[runs[q].child] = status[runs[q].child]
      BY <2>2, <2>4, SpawnLeaves, StateIsFiled DEF PInv
    <2>5. QED
      BY <1>3, <2>2, <2>3, <2>4, RequestSlots
  <1>6. QED
    BY <1>2, <1>4, <1>5, NoMoveKeeps DEF PInv, PTypeOK

LEMMA ReloadKeeps ==
  ASSUME PInv, Reload
  PROVE  PInv'
  <1>1. /\ runs' = [p \in Runs |-> [runs[p] EXCEPT !.watched = FALSE]]
        /\ UNCHANGED <<slotVars, stages, requests>>
    BY DEF Reload
  <1>2. IInv'
    BY <1>1 DEF PInv, slotVars, IInv, TypeOK, BornInOrder, TimersAreBorn, SlotsHoldTheNewest,
                TimersFindKilledProcesses, Live
  <1>3. \A q \in Runs : StillAwaited(q)
    BY <1>1 DEF slotVars, PInv, AwaitsItsStage, StillAwaited, Live
  <1>4. \A q \in Runs : runs[q] \in RunRecord
    BY DEF PInv, PTypeOK
  <1>5. /\ runs' \in [Runs -> RunRecord]
        /\ \A q \in Runs : /\ runs'[q].phase = runs[q].phase /\ runs'[q].svc = runs[q].svc
                           /\ runs'[q].sel = runs[q].sel /\ runs'[q].at = runs[q].at
                           /\ runs'[q].child = runs[q].child
    BY <1>1, <1>4 DEF RunRecord
  <1>6. QED
    BY <1>1, <1>2, <1>3, <1>5, NoMoveKeeps DEF PInv, PTypeOK

\* The target of a run that is asked for is one that the code knows.
LEMMA TargetsAreTargets == \A sel : Targets(sel) \subseteq Target
  BY DEF Targets, Target

LEMMA PipelineStep == PInv /\ [PNext]_allVars => PInv'
  <1> SUFFICES ASSUME PInv, [PNext]_allVars PROVE PInv'
    OBVIOUS
  <1>1. ASSUME NEW p \in Runs, NEW s \in PipelineServices, NEW sel \in (SUBSET Stages) \ {{}},
               NEW target \in Targets(sel), NEW resume \in BOOLEAN,
               StartRun(p, s, sel, target, resume)
        PROVE  PInv'
    <2>1. sel \in SUBSET Stages /\ target \in Target
      BY TargetsAreTargets
    <2>2. QED
      BY <1>1, <2>1, StartKeeps
  <1>2. ASSUME NEW p \in Runs, StageSucceeds(p) \/ StageFails(p) PROVE PInv'
    BY <1>2, PassKeeps, FailKeeps
  <1>3. ASSUME NEW s \in PipelineServices, SlotRequest(s) PROVE PInv'
    BY <1>3, SlotRequestKeeps
  <1>4. ASSUME NEW c \in Child, OtherClose(c) \/ SlotStep(c) PROVE PInv'
    BY <1>4, OtherCloseKeeps, SlotStepKeeps
  <1>5. CASE Reload
    BY <1>5, ReloadKeeps
  <1>6. CASE UNCHANGED allVars
    <2>1. UNCHANGED slotVars /\ UNCHANGED <<stages, runs, requests>>
      BY <1>6 DEF allVars, pipeVars
    <2>2. IInv'
      BY <2>1 DEF PInv, slotVars, IInv, TypeOK, BornInOrder, TimersAreBorn, SlotsHoldTheNewest,
                  TimersFindKilledProcesses, Live
    <2>3. \A q \in Runs : StillAwaited(q)
      BY <2>1 DEF slotVars, PInv, AwaitsItsStage, StillAwaited, Live
    <2>4. QED
      BY <2>1, <2>2, <2>3, NoMoveKeeps DEF PInv, PTypeOK
  <1>7. QED
    BY <1>1, <1>2, <1>3, <1>4, <1>5, <1>6 DEF PNext

LEMMA PipelineInit == PInit => PInv
  <1> SUFFICES ASSUME PInit PROVE PInv
    OBVIOUS
  <1>1. IInv
    BY InitIInv DEF PInit
  <1>2. PTypeOK
    BY NewRunIsRecord DEF PInit, PTypeOK, Statuses, Marks
  <1>3. \A p \in Runs : ~Awaiting(p)
    BY DEF PInit, Awaiting, NewRun
  <1>4. QED
    BY <1>1, <1>2, <1>3 DEF PInit, PInv, AwaitsItsStage, AwaitsAreAnswerable, RunningStageIsRun

LEMMA PipelineAlways == PSpec => []PInv
  BY PipelineInit, PipelineStep, PTL DEF PSpec

\* Whatever is killed, replaced or overlapped, also by runs of one service after a
\* reload, a run that is awaiting a process awaits one that has not closed, and no
\* other run does: its promise is resolved, once (processManager.ts:146).
THEOREM AwaitsAnswerable == PSpec => []AwaitsAreAnswerable
  BY PipelineAlways, PTL DEF PInv

\* A stage shown as running has a run at it, with a live process of that stage or
\* an exception thrown by spawn (processManager.ts:314).
THEOREM RunningIsRun == PSpec => []RunningStageIsRun
  BY PipelineAlways, PTL DEF PInv

-----------------------------------------------------------------------------
(* One run of a service at a time                                          *)

\* Runs are numbered in the order they are asked for.
StartedInOrder == \A p, q \in Runs : q < p /\ runs[p].phase # "new" => runs[q].phase # "new"

\* A run in progress is the last one asked for of its service, and the statuses tell
\* where it is: what it has selected before its stage has passed.
InProgress(r, ss) ==
  /\ r.watched /\ ss[r.at] = "running"
  /\ \A h \in r.sel : Order[h] < Order[r.at] => ss[h] = "success"
  /\ ~r.resume => \A h \in After(r.sel, r.at) : ss[h] # "success"

OneRun ==
  \A p \in Runs : Awaiting(p) =>
    /\ InProgress(runs[p], stages[runs[p].svc])
    /\ \A q \in Runs : q > p /\ runs[q].svc = runs[p].svc => runs[q].phase = "new"

LoneInv == StartedInOrder /\ OneRun /\ NotOkShowsWhere

\* The loop over `rest' starts from statuses that fit where the run is.
Ready(r, rest, ss) ==
  /\ \A h \in r.sel \ rest : ss[h] = "success" /\ \A g \in rest : Order[h] < Order[g]
  /\ ~r.resume => \A h \in rest : ss[h] # "success"

\* What it then comes to: everything has passed, or the first stage that has not
\* halts the run or is the one it goes on with.
Outcome(r, ss, z, zs) ==
  /\ z.svc = r.svc /\ z.sel = r.sel /\ z.resume = r.resume
  /\ \/ AllPassed(r, ss) /\ zs = ss /\ z.phase = "done" /\ z.ok
     \/ \E g \in r.sel :
          /\ ss[g] # "success"
          /\ \A h \in r.sel : Order[h] < Order[g] => ss[h] = "success"
          /\ ~r.resume => \A h \in After(r.sel, g) : ss[h] # "success"
          /\ \/ zs = Halted(ss, r.sel, g) /\ z.phase = "done" /\ ~z.ok
             \/ /\ zs = [ss EXCEPT ![g] = "running"]
                /\ z.phase \in {"awaiting", "rejected"} /\ z.at = g /\ z.watched = r.watched

LEMMA HaltedFails ==
  ASSUME NEW r \in RunRecord, NEW ss \in Statuses, NEW g \in r.sel
  PROVE  ~AllPassed(r, Halted(ss, r.sel, g)) /\ Halted(ss, r.sel, g)[g] = "failed"
  <1>1. g \in Stages
    BY DEF RunRecord
  <1>2. QED
    BY <1>1 DEF AllPassed, Halted

LEMMA ReadyEnds ==
  ASSUME NEW r \in RunRecord, NEW rest \in SUBSET r.sel, NEW ss \in Statuses,
         NEW z \in RunRecord, NEW zs \in Statuses, Ready(r, rest, ss), LoopEnds(r, rest, ss, z, zs)
  PROVE  Outcome(r, ss, z, zs)
  <1>1. rest \subseteq Stages /\ r.sel \subseteq Stages
    BY DEF RunRecord
  <1>2. \A h \in rest : Kept(r, ss, h) <=> ss[h] = "success"
    BY DEF Kept, Ready, RunRecord
  <1>3. z.svc = r.svc /\ z.sel = r.sel /\ z.resume = r.resume
    BY DEF LoopEnds
  <1>4. CASE /\ \A h \in rest : Kept(r, ss, h)
             /\ zs = ss /\ z.phase = "done" /\ z.ok = AllPassed(r, zs)
    <2>1. AllPassed(r, ss)
      BY <1>2, <1>4 DEF AllPassed, Ready
    <2>2. QED
      BY <1>3, <1>4, <2>1 DEF Outcome
  <1>5. ASSUME NEW g \in rest,
               ~Kept(r, ss, g), \A h \in rest : Order[h] < Order[g] => Kept(r, ss, h),
               \/ zs = Halted(ss, r.sel, g) /\ z.phase = "done" /\ z.ok = AllPassed(r, zs)
               \/ /\ zs = [ss EXCEPT ![g] = "running"]
                  /\ z.phase \in {"awaiting", "rejected"} /\ z.at = g /\ z.watched = r.watched
        PROVE  Outcome(r, ss, z, zs)
    <2>1. g \in r.sel /\ ss[g] # "success"
      BY <1>2, <1>5
    <2>2. \A h \in r.sel : Order[h] < Order[g] => ss[h] = "success"
      BY <1>2, <1>5 DEF Ready
    <2>3. \A h \in After(r.sel, g) : h \in rest
      <3>1. SUFFICES ASSUME NEW h \in r.sel, Order[h] > Order[g], h \notin rest PROVE FALSE
        BY DEF After
      <3>2. Order[h] < Order[g]
        BY <3>1 DEF Ready
      <3>3. Order[h] \in Nat /\ Order[g] \in Nat
        BY <1>1, <2>1, OrderIsTotal
      <3>4. QED
        BY <3>1, <3>2, <3>3
    <2>4. ~r.resume => \A h \in After(r.sel, g) : ss[h] # "success"
      BY <2>3 DEF Ready
    <2>5. CASE zs = Halted(ss, r.sel, g) /\ z.phase = "done" /\ z.ok = AllPassed(r, zs)
      <3>1. ~z.ok
        BY <2>1, <2>5, HaltedFails
      <3>2. QED
        BY <1>3, <2>1, <2>2, <2>4, <2>5, <3>1 DEF Outcome
    <2>6. CASE /\ zs = [ss EXCEPT ![g] = "running"]
               /\ z.phase \in {"awaiting", "rejected"} /\ z.at = g /\ z.watched = r.watched
      BY <1>3, <2>1, <2>2, <2>4, <2>6 DEF Outcome
    <2>7. QED
      BY <1>5, <2>5, <2>6
  <1>6. QED
    BY <1>4, <1>5 DEF LoopEnds

\* The stage to resume from is the one that halted the run.
LEMMA FirstUndone ==
  ASSUME NEW ss \in Statuses, NEW G \in SUBSET Stages, NEW g \in G, ss[g] # "success",
         \A h \in G : Order[h] < Order[g] => ss[h] = "success"
  PROVE  First({h \in G : ss[h] # "success"}) = g
  <1> DEFINE U == {h \in G : ss[h] # "success"}
  <1>1. First(U) \in U /\ \A h \in U : Order[First(U)] <= Order[h]
    BY FirstIsLeast
  <1>2. ~(Order[First(U)] < Order[g])
    BY <1>1
  <1>3. ~(Order[g] < Order[First(U)])
    BY <1>1, OrderIsTotal
  <1>4. QED
    BY <1>1, <1>2, <1>3, OrderIsTotal

\* The status of the stage a run of these statuses would be resumed from.
ShowsWhere(r, ss) ==
  LET G == {h \in r.sel : ss[h] # "success"}
  IN G # {} /\ ss[First(G)] = "failed"

LEMMA HaltedShowsWhere ==
  ASSUME NEW r \in RunRecord, NEW ss \in Statuses, NEW g \in r.sel,
         \A h \in r.sel : Order[h] < Order[g] => ss[h] = "success"
  PROVE  ShowsWhere(r, Halted(ss, r.sel, g))
  <1> DEFINE zs == Halted(ss, r.sel, g)
  <1>1. r.sel \in SUBSET Stages /\ g \in Stages
    BY DEF RunRecord
  <1>2. zs \in Statuses /\ zs[g] = "failed"
    BY <1>1, HaltedIsStatuses, HaltedFails
  <1>3. ASSUME NEW h \in r.sel, Order[h] < Order[g] PROVE zs[h] = "success"
    <2>1. h # g /\ h \notin After(r.sel, g) /\ h \in Stages
      BY <1>1, <1>3, OrderIsTotal DEF After
    <2>2. QED
      BY <1>3, <2>1 DEF Halted
  <1> HIDE DEF zs
  <1>4. First({h \in r.sel : zs[h] # "success"}) = g
    BY <1>1, <1>2, <1>3, FirstUndone
  <1>5. QED
    BY <1>2, <1>4 DEF ShowsWhere, zs

LEMMA OutcomeShows ==
  ASSUME NEW r \in RunRecord, NEW ss \in Statuses, NEW z \in RunRecord, NEW zs \in Statuses,
         r.watched, Outcome(r, ss, z, zs)
  PROVE  /\ z.phase # "new"
         /\ z.phase = "awaiting" => InProgress(z, zs)
         /\ z.phase = "done" /\ ~z.ok => ShowsWhere(z, zs)
         /\ \A h \in Stages : ss[h] = "success" /\ zs[h] # "success" =>
              h \in z.sel /\ \E g \in z.sel : Order[g] < Order[h] /\ zs[g] = "failed"
  <1>1. r.sel \in SUBSET Stages
    BY DEF RunRecord
  <1>2. CASE AllPassed(r, ss) /\ zs = ss /\ z.phase = "done" /\ z.ok
    BY <1>2
  <1>3. ASSUME NEW g \in r.sel, ss[g] # "success",
               \A h \in r.sel : Order[h] < Order[g] => ss[h] = "success",
               zs = Halted(ss, r.sel, g), z.phase = "done", z.sel = r.sel
        PROVE  /\ ShowsWhere(z, zs)
               /\ \A h \in Stages : ss[h] = "success" /\ zs[h] # "success" =>
                    h \in z.sel /\ \E k \in z.sel : Order[k] < Order[h] /\ zs[k] = "failed"
    <2>1. ShowsWhere(z, zs)
      BY <1>3, HaltedShowsWhere DEF ShowsWhere
    <2>2. ASSUME NEW h \in Stages, ss[h] = "success", zs[h] # "success"
          PROVE  h \in r.sel /\ Order[g] < Order[h]
      BY <1>3, <2>2 DEF Halted, After
    <2>3. zs[g] = "failed"
      BY <1>3, HaltedFails
    <2>4. QED
      BY <1>3, <2>1, <2>2, <2>3
  <1>4. ASSUME NEW g \in r.sel, ss[g] # "success",
               \A h \in r.sel : Order[h] < Order[g] => ss[h] = "success",
               ~r.resume => \A h \in After(r.sel, g) : ss[h] # "success",
               zs = [ss EXCEPT ![g] = "running"], z.at = g, z.watched = r.watched,
               z.sel = r.sel, z.resume = r.resume
        PROVE  /\ InProgress(z, zs)
               /\ \A h \in Stages : ~(ss[h] = "success" /\ zs[h] # "success")
    <2>1. g \in Stages /\ zs[g] = "running" /\ \A h \in Stages : h # g => zs[h] = ss[h]
      BY <1>1, <1>4 DEF Statuses
    <2>2. \A h \in r.sel : Order[h] < Order[g] => zs[h] = "success"
      BY <1>1, <1>4, <2>1
    <2>3. ~r.resume => \A h \in After(r.sel, g) : zs[h] # "success"
      BY <1>1, <1>4, <2>1 DEF After
    <2>4. QED
      BY <1>4, <2>1, <2>2, <2>3 DEF InProgress
  <1>5. QED
    BY <1>2, <1>3, <1>4 DEF Outcome

\* Run p, the only one of its service that is in progress, goes on to z.
Leads(p, z, zs) ==
  /\ Moves(p, z, zs) /\ z.phase # "new"
  /\ \/ runs[p].phase = "new" /\ \A q \in Runs : q < p => runs[q].phase # "new"
     \/ runs[p].phase = "awaiting" /\ runs[p].svc = z.svc
  /\ \A q \in Runs : q > p /\ runs[q].svc = z.svc => runs[q].phase = "new"
  /\ \A q \in Runs \ {p} : Awaiting(q) => runs[q].svc # z.svc
  /\ z.phase = "awaiting" => InProgress(z, zs)
  /\ z.phase = "done" /\ ~z.ok => ShowsWhere(z, zs)

LEMMA LeadKeeps ==
  ASSUME PTypeOK, LoneInv, NEW p \in Runs, NEW z \in RunRecord, NEW zs \in Statuses, Leads(p, z, zs)
  PROVE  LoneInv'
  <1>1. /\ runs'[p] = z /\ \A q \in Runs \ {p} : runs'[q] = runs[q]
        /\ stages'[z.svc] = zs /\ \A s \in Services \ {z.svc} : stages'[s] = stages[s]
    BY DEF PTypeOK, Leads, Moves, RunRecord
  <1>2. \A q \in Runs : q \in Nat /\ runs[q].svc \in Services
    BY DEF PTypeOK, RunRecord, Runs
  <1>3. StartedInOrder'
    <2>1. SUFFICES ASSUME NEW o \in Runs, NEW q \in Runs, q < o, runs'[o].phase # "new"
                   PROVE  runs'[q].phase # "new"
      BY DEF StartedInOrder
    <2>2. CASE q = p
      BY <1>1, <2>2 DEF Leads
    <2>3. CASE q # p /\ o = p
      BY <1>1, <2>1, <2>3 DEF Leads, LoneInv, StartedInOrder
    <2>4. CASE q # p /\ o # p
      BY <1>1, <2>1, <2>4 DEF LoneInv, StartedInOrder
    <2>5. QED
      BY <2>2, <2>3, <2>4
  <1>4. OneRun'
    <2>1. SUFFICES ASSUME NEW q \in Runs, runs'[q].phase = "awaiting"
                   PROVE  /\ InProgress(runs'[q], stages'[runs'[q].svc])
                          /\ \A o \in Runs : o > q /\ runs'[o].svc = runs'[q].svc
                               => runs'[o].phase = "new"
      BY DEF OneRun, Awaiting, InProgress
    <2>2. CASE q = p
      <3>1. InProgress(runs'[q], stages'[runs'[q].svc])
        BY <1>1, <2>1, <2>2 DEF Leads
      <3>2. \A o \in Runs : o > q => o # q
        BY <1>2
      <3>3. QED
        BY <1>1, <2>2, <3>1, <3>2 DEF Leads
    <2>3. CASE q # p
      <3>1. Awaiting(q) /\ runs'[q] = runs[q] /\ runs[q].svc # z.svc
        BY <1>1, <2>1, <2>3 DEF Awaiting, Leads
      <3>2. InProgress(runs'[q], stages'[runs'[q].svc])
        BY <1>1, <1>2, <3>1 DEF LoneInv, OneRun
      <3>3. ASSUME NEW o \in Runs, o > q, runs'[o].svc = runs'[q].svc PROVE runs'[o].phase = "new"
        BY <1>1, <3>1, <3>3 DEF LoneInv, OneRun
      <3>4. QED
        BY <3>2, <3>3
    <2>4. QED
      BY <2>2, <2>3
  <1>5. NotOkShowsWhere'
    <2>1. SUFFICES ASSUME NEW q \in Runs, runs'[q].phase = "done", ~runs'[q].ok
                   PROVE  \/ ShowsWhere(runs'[q], stages'[runs'[q].svc])
                          \/ \E o \in Runs : /\ o > q /\ runs'[o].phase # "new"
                                             /\ runs'[o].svc = runs'[q].svc
      BY DEF NotOkShowsWhere, ShowsWhere
    <2>2. CASE q = p
      BY <1>1, <2>1, <2>2 DEF Leads
    <2>3. CASE q # p /\ runs[q].svc = z.svc
      <3>1. runs'[q] = runs[q] /\ ~(q > p)
        BY <1>1, <2>1, <2>3 DEF Leads
      <3>2. p > q
        BY <1>2, <2>3, <3>1
      <3>3. QED
        BY <1>1, <2>3, <3>1, <3>2 DEF Leads
    <2>4. CASE q # p /\ runs[q].svc # z.svc
      <3>1. /\ runs'[q] = runs[q] /\ stages'[runs[q].svc] = stages[runs[q].svc]
        BY <1>1, <1>2, <2>4
      <3>2. \/ ShowsWhere(runs[q], stages[runs[q].svc])
            \/ \E o \in Runs : o > q /\ runs[o].phase # "new" /\ runs[o].svc = runs[q].svc
        BY <2>1, <3>1 DEF LoneInv, NotOkShowsWhere, ShowsWhere
      <3>3. CASE ShowsWhere(runs[q], stages[runs[q].svc])
        BY <3>1, <3>3
      <3>4. ASSUME NEW o \in Runs, o > q, runs[o].phase # "new", runs[o].svc = runs[q].svc
            PROVE  runs'[o].phase # "new" /\ runs'[o].svc = runs'[q].svc
        <4>1. o # p
          BY <2>4, <3>4 DEF Leads
        <4>2. QED
          BY <1>1, <3>1, <3>4, <4>1
      <3>5. QED
        BY <3>2, <3>3, <3>4
    <2>5. QED
      BY <2>2, <2>3, <2>4
  <1>6. QED
    BY <1>3, <1>4, <1>5 DEF LoneInv

\* What a step that moves a run comes to, when runs of a service do not overlap: run p
\* goes from the statuses ss of its service to z and zs.
LoneStep(p, r, ss, z, zs) == Leads(p, z, zs) /\ Outcome(r, ss, z, zs)

\* The window that asked for a run in progress knows of it.
LEMMA NotBusy ==
  ASSUME LoneInv, NEW s, ~Busy(s), NEW q \in Runs, Awaiting(q)
  PROVE  runs[q].svc # s
  BY DEF LoneInv, OneRun, InProgress, Busy

LEMMA LoneStart ==
  ASSUME PInv, LoneInv, NEW p \in Runs, NEW s \in PipelineServices, NEW sel \in SUBSET Stages,
         NEW target \in Target, NEW resume \in BOOLEAN, StartRun(p, s, sel, target, resume)
  PROVE  \E z \in RunRecord, zs \in Statuses :
           LoneStep(p, Fresh(s, sel, target, resume), Reset(s, sel, resume), z, zs)
  <1> DEFINE r  == Fresh(s, sel, target, resume)
             ss == Reset(s, sel, resume)
  <1>0. s \in Services
    BY PipelineAssumption
  <1>1. r \in RunRecord /\ r.svc = s /\ r.sel = sel /\ r.resume = resume /\ r.watched
    BY <1>0, FreshIsRecord
  <1>2. /\ ss \in Statuses
        /\ \A g \in Stages : ss[g] =
             IF g \in sel /\ ~(resume /\ stages[s][g] = "success") THEN "idle" ELSE stages[s][g]
    BY <1>0, ResetIsStatuses DEF PInv
  <1>3. PICK z \in RunRecord, zs \in Statuses :
          Moves(p, z, zs) /\ LoopEnds(r, sel, ss, z, zs)
    BY StartMoves DEF PInv
  <1>4. Ready(r, sel, ss)
    BY <1>1, <1>2 DEF Ready
  <1> HIDE DEF r, ss
  <1>5. Outcome(r, ss, z, zs)
    BY <1>1, <1>2, <1>3, <1>4, ReadyEnds
  <1>6. /\ z.phase # "new"
        /\ z.phase = "awaiting" => InProgress(z, zs)
        /\ z.phase = "done" /\ ~z.ok => ShowsWhere(z, zs)
    BY <1>1, <1>2, <1>5, OutcomeShows
  <1>7. z.svc = s
    BY <1>1, <1>5 DEF Outcome
  <1>8. /\ runs[p].phase = "new" /\ \A q \in Runs : q < p => runs[q].phase # "new"
        /\ ~Busy(s)
    BY DEF StartRun
  <1>9. \A q \in Runs : q > p => runs[q].phase = "new"
    BY <1>8 DEF LoneInv, StartedInOrder, Runs
  <1>10. \A q \in Runs : Awaiting(q) => runs[q].svc # z.svc
    BY <1>7, <1>8, NotBusy
  <1>11. Leads(p, z, zs)
    BY <1>3, <1>6, <1>8, <1>9, <1>10 DEF Leads
  <1>12. QED
    BY <1>5, <1>11 DEF LoneStep, r, ss

\* Two runs in progress are of different services.
LEMMA ApartServices ==
  ASSUME LoneInv, NEW p \in Runs, NEW q \in Runs \ {p}, Awaiting(p), Awaiting(q)
  PROVE  runs[q].svc # runs[p].svc
  BY DEF LoneInv, OneRun, Awaiting, Runs

LEMMA LonePass ==
  ASSUME PInv, LoneInv, NEW p \in Runs, StageSucceeds(p)
  PROVE  \E z \in RunRecord, zs \in Statuses : LoneStep(p, runs[p], Passed(p), z, zs)
  <1> DEFINE r    == runs[p]
             rest == After(r.sel, r.at)
             ss   == Passed(p)
  <1>1. /\ r \in RunRecord /\ rest \in SUBSET r.sel /\ r.svc \in Services /\ r.at \in Stages
        /\ Awaiting(p) /\ r.at \in r.sel /\ r.sel \in SUBSET Stages
    BY DEF PInv, PTypeOK, AwaitsItsStage, StageSucceeds, RunRecord, After
  <1>2. InProgress(r, stages[r.svc]) /\ \A q \in Runs : q > p /\ runs[q].svc = r.svc => runs[q].phase = "new"
    BY <1>1 DEF LoneInv, OneRun
  <1>3. /\ ss \in Statuses /\ ss[r.at] = "success"
        /\ \A g \in Stages : g # r.at => ss[g] = stages[r.svc][g]
    BY <1>1 DEF PInv, PTypeOK, Passed, Statuses, Marks
  <1>4. \A h \in r.sel \ rest : ss[h] = "success" /\ ~(Order[h] > Order[r.at])
    <2>1. SUFFICES ASSUME NEW h \in r.sel, h \notin rest, h # r.at
                   PROVE  ss[h] = "success" /\ ~(Order[h] > Order[r.at])
      BY <1>1, <1>3, OrderIsTotal DEF After
    <2>2. Order[h] < Order[r.at] /\ h \in Stages
      BY <1>1, <2>1, OrderIsTotal DEF After
    <2>3. ss[h] = "success"
      BY <1>2, <1>3, <2>1, <2>2 DEF InProgress
    <2>4. QED
      BY <1>1, <2>2, <2>3, OrderIsTotal
  <1>5. Ready(r, rest, ss)
    <2>1. ASSUME NEW h \in r.sel \ rest, NEW g \in rest PROVE Order[h] < Order[g]
      BY <1>1, <1>4, <2>1, OrderIsTotal DEF After
    <2>2. ~r.resume => \A h \in rest : ss[h] # "success"
      <3>1. \A h \in rest : h \in Stages /\ h # r.at
        BY <1>1, OrderIsTotal DEF After
      <3>2. QED
        BY <1>2, <1>3, <3>1 DEF InProgress
    <2>3. QED
      BY <1>4, <2>1, <2>2 DEF Ready
  <1>6. PICK z \in RunRecord, zs \in Statuses :
          /\ Moves(p, z, zs)
          /\ \/ LoopEnds(r, rest, ss, z, zs)
             \/ /\ r.at = "deploy" /\ zs = ss /\ z.phase = "done"
                /\ z.svc = r.svc /\ z.sel = r.sel /\ z.resume = r.resume
                /\ z.ok = AllPassed(r, zs)
    BY PassMoves DEF PInv
  <1>7. Outcome(r, ss, z, zs)
    <2>1. CASE LoopEnds(r, rest, ss, z, zs)
      <3> HIDE DEF r, rest, ss
      <3>1. QED
        BY <1>1, <1>3, <1>5, <2>1, ReadyEnds
    <2>2. CASE /\ r.at = "deploy" /\ zs = ss /\ z.phase = "done"
               /\ z.svc = r.svc /\ z.sel = r.sel /\ z.resume = r.resume
               /\ z.ok = AllPassed(r, zs)
      \* Nothing comes after the deployment.
      <3>1. rest = {}
        BY <1>1, <2>2 DEF After, Stages, Order
      <3>2. AllPassed(r, ss)
        BY <1>4, <3>1 DEF AllPassed
      <3>3. QED
        BY <2>2, <3>2 DEF Outcome
    <2>3. QED
      BY <1>6, <2>1, <2>2
  <1>8. /\ z.phase # "new" /\ z.svc = r.svc
        /\ z.phase = "awaiting" => InProgress(z, zs)
        /\ z.phase = "done" /\ ~z.ok => ShowsWhere(z, zs)
    <2>1. r.watched
      BY <1>2 DEF InProgress
    <2>2. z.svc = r.svc
      BY <1>7 DEF Outcome
    <2> HIDE DEF r, ss
    <2>3. QED
      BY <1>1, <1>3, <1>7, <2>1, <2>2, OutcomeShows
  <1>9. \A q \in Runs \ {p} : Awaiting(q) => runs[q].svc # z.svc
    BY <1>1, <1>8, ApartServices
  <1>10. Leads(p, z, zs)
    BY <1>1, <1>2, <1>6, <1>8, <1>9 DEF Leads, Awaiting
  <1>11. QED
    BY <1>7, <1>10 DEF LoneStep

LEMMA LoneFail ==
  ASSUME PInv, LoneInv, NEW p \in Runs, StageFails(p)
  PROVE  \E z \in RunRecord :
           /\ Leads(p, z, Halted(stages[runs[p].svc], runs[p].sel, runs[p].at))
           /\ z.svc = runs[p].svc /\ z.sel = runs[p].sel /\ z.phase = "done"
  <1> DEFINE r  == runs[p]
             ss == stages[r.svc]
             zs == Halted(ss, r.sel, r.at)
  <1>1. /\ r \in RunRecord /\ r.svc \in Services /\ r.at \in Stages
        /\ Awaiting(p) /\ r.at \in r.sel /\ r.sel \in SUBSET Stages /\ ss \in Statuses
        /\ Settle(p, r, zs)
    BY DEF PInv, PTypeOK, AwaitsItsStage, StageFails, RunRecord
  <1>2. InProgress(r, ss) /\ \A q \in Runs : q > p /\ runs[q].svc = r.svc => runs[q].phase = "new"
    BY <1>1 DEF LoneInv, OneRun
  <1>3. zs \in Statuses
    BY <1>1, HaltedIsStatuses
  <1>4. ShowsWhere(r, zs)
    BY <1>1, <1>2, HaltedShowsWhere DEF InProgress
  <1>5. PICK z \in RunRecord : Moves(p, z, zs) /\ z.svc = r.svc /\ z.sel = r.sel /\ z.phase = "done"
    BY <1>1, <1>3, SettleMoves
  <1>6. ShowsWhere(z, zs)
    BY <1>4, <1>5 DEF ShowsWhere
  <1>7. \A q \in Runs \ {p} : Awaiting(q) => runs[q].svc # z.svc
    BY <1>1, <1>5, ApartServices
  <1>8. Leads(p, z, zs)
    BY <1>1, <1>2, <1>5, <1>6, <1>7 DEF Leads, Awaiting
  <1>9. QED
    BY <1>5, <1>8

\* The other steps move no run.
LEMMA OtherSteps ==
  ASSUME [PNext]_allVars, ~CanReload
  PROVE  \/ UNCHANGED <<stages, runs>>
         \/ \E p \in Runs, s \in PipelineServices, sel \in (SUBSET Stages) \ {{}}, target \in Target,
               resume \in BOOLEAN : StartRun(p, s, sel, target, resume)
         \/ \E p \in Runs : StageSucceeds(p) \/ StageFails(p)
  <1>1. ASSUME NEW p \in Runs, NEW s \in PipelineServices, NEW sel \in (SUBSET Stages) \ {{}},
               NEW target \in Targets(sel), NEW resume \in BOOLEAN,
               StartRun(p, s, sel, target, resume)
        PROVE  sel \in SUBSET Stages /\ target \in Target
    BY TargetsAreTargets
  <1>2. ASSUME NEW s \in PipelineServices, SlotRequest(s) PROVE UNCHANGED <<stages, runs>>
    BY <1>2 DEF SlotRequest
  <1>3. ASSUME NEW c \in Child, OtherClose(c) \/ SlotStep(c) PROVE UNCHANGED <<stages, runs>>
    BY <1>3 DEF OtherClose, SlotStep, pipeVars
  <1>4. ~Reload
    BY DEF Reload
  <1>5. UNCHANGED allVars => UNCHANGED <<stages, runs>>
    BY DEF allVars, pipeVars
  <1>6. QED
    BY <1>1, <1>2, <1>3, <1>4, <1>5 DEF PNext

LEMMA LoneNext ==
  ASSUME ~CanReload
  PROVE  PInv /\ LoneInv /\ [PNext]_allVars => LoneInv'
  <1> SUFFICES ASSUME PInv, LoneInv, [PNext]_allVars PROVE LoneInv'
    OBVIOUS
  <1>1. ASSUME NEW p \in Runs, NEW s \in PipelineServices, NEW sel \in SUBSET Stages,
               NEW target \in Target, NEW resume \in BOOLEAN,
               StartRun(p, s, sel, target, resume)
        PROVE  LoneInv'
    BY <1>1, LoneStart, LeadKeeps DEF PInv, LoneStep
  <1>2. ASSUME NEW p \in Runs, StageSucceeds(p) PROVE LoneInv'
    BY <1>2, LonePass, LeadKeeps DEF PInv, LoneStep
  <1>3. ASSUME NEW p \in Runs, StageFails(p) PROVE LoneInv'
    <2>1. Halted(stages[runs[p].svc], runs[p].sel, runs[p].at) \in Statuses
      BY HaltedIsStatuses DEF PInv, PTypeOK, RunRecord
    <2>2. QED
      BY <1>3, <2>1, LoneFail, LeadKeeps DEF PInv
  <1>4. ASSUME UNCHANGED <<stages, runs>> PROVE LoneInv'
    <2>1. StartedInOrder'
      BY <1>4 DEF LoneInv, StartedInOrder
    <2>2. OneRun'
      BY <1>4 DEF LoneInv, OneRun, InProgress, Awaiting
    <2>3. NotOkShowsWhere'
      BY <1>4 DEF LoneInv, NotOkShowsWhere
    <2>4. QED
      BY <2>1, <2>2, <2>3 DEF LoneInv
  <1>5. QED
    BY <1>1, <1>2, <1>3, <1>4, OtherSteps

LEMMA LoneAlways ==
  ASSUME ~CanReload
  PROVE  PSpec => []LoneInv
  <1>1. PInit => LoneInv
    BY DEF PInit, NewRun, LoneInv, StartedInOrder, OneRun, NotOkShowsWhere, Awaiting
  <1>2. QED
    BY <1>1, LoneNext, PipelineAlways, PTL DEF PSpec

\* While the window is not reloaded, a run that returned not ok leaves the stage to
\* resume from on show, for any number of runs (processManager.ts:359).
THEOREM FailureIsShown ==
  ASSUME ~CanReload
  PROVE  PSpec => []NotOkShowsWhere
  BY LoneAlways, PTL DEF LoneInv

LEMMA StartKeepsSuccess ==
  ASSUME PInv, LoneInv, NEW p \in Runs, NEW s \in PipelineServices, NEW sel \in SUBSET Stages,
         NEW target \in Target, NEW resume \in BOOLEAN, StartRun(p, s, sel, target, resume)
  PROVE  KeepsSuccess
  <1> DEFINE r  == Fresh(s, sel, target, resume)
             ss == Reset(s, sel, resume)
  <1>0. s \in Services
    BY PipelineAssumption
  <1>1. r \in RunRecord /\ r.svc = s /\ r.sel = sel /\ r.resume = resume /\ r.watched
    BY <1>0, FreshIsRecord
  <1>2. /\ ss \in Statuses
        /\ \A g \in Stages : ss[g] =
             IF g \in sel /\ ~(resume /\ stages[s][g] = "success") THEN "idle" ELSE stages[s][g]
    BY <1>0, ResetIsStatuses DEF PInv
  <1>3. PICK z \in RunRecord, zs \in Statuses : Leads(p, z, zs) /\ Outcome(r, ss, z, zs)
    BY LoneStart DEF LoneStep
  <1> HIDE DEF r, ss
  <1>4. z.svc = s /\ z.sel = sel /\ z.resume = resume
    BY <1>1, <1>3 DEF Outcome
  <1>5. \A h \in Stages : ss[h] = "success" /\ zs[h] # "success" =>
          h \in z.sel /\ \E g \in z.sel : Order[g] < Order[h] /\ zs[g] = "failed"
    BY <1>1, <1>2, <1>3, OutcomeShows
  <1>6. /\ runs'[p] = z /\ runs[p].phase = "new" /\ runs'[p] # runs[p]
        /\ stages'[s] = zs /\ \A o \in Services \ {s} : stages'[o] = stages[o]
    BY <1>0, <1>3, <1>4 DEF Leads, Moves, PInv, PTypeOK, StartRun
  <1>7. SUFFICES ASSUME NEW g \in Stages, stages[s][g] = "success", zs[g] # "success"
                 PROVE  /\ g \in z.sel
                        /\ ~z.resume \/ \E h \in z.sel : Order[h] < Order[g] /\ zs[h] = "failed"
    BY <1>4, <1>6 DEF KeepsSuccess
  <1>8. CASE g \in sel /\ ~resume
    BY <1>4, <1>8
  <1>9. CASE ~(g \in sel /\ ~resume)
    <2>1. ss[g] = "success"
      BY <1>2, <1>7, <1>9
    <2>2. QED
      BY <1>5, <1>7, <2>1
  <1>10. QED
    BY <1>8, <1>9

LEMMA PassKeepsSuccess ==
  ASSUME PInv, LoneInv, NEW p \in Runs, StageSucceeds(p)
  PROVE  KeepsSuccess
  <1> DEFINE r  == runs[p]
             ss == Passed(p)
  <1>1. /\ r \in RunRecord /\ r.svc \in Services /\ r.at \in Stages /\ Awaiting(p) /\ r.watched
    BY DEF PInv, PTypeOK, StageSucceeds, RunRecord, LoneInv, OneRun, InProgress
  <1>2. /\ ss \in Statuses
        /\ \A g \in Stages : stages[r.svc][g] = "success" => ss[g] = "success"
    BY <1>1 DEF PInv, PTypeOK, Passed, Statuses, Marks
  <1>3. PICK z \in RunRecord, zs \in Statuses : Leads(p, z, zs) /\ Outcome(r, ss, z, zs)
    BY LonePass DEF LoneStep
  <1> HIDE DEF ss
  <1>4. z.svc = r.svc
    BY <1>3 DEF Outcome
  <1>5. \A h \in Stages : ss[h] = "success" /\ zs[h] # "success" =>
          h \in z.sel /\ \E g \in z.sel : Order[g] < Order[h] /\ zs[g] = "failed"
    BY <1>1, <1>2, <1>3, OutcomeShows
  <1>6. /\ runs'[p] = z /\ \A q \in Runs \ {p} : runs'[q] = runs[q]
        /\ stages'[r.svc] = zs /\ \A o \in Services \ {r.svc} : stages'[o] = stages[o]
    BY <1>1, <1>3, <1>4 DEF Leads, Moves, PInv, PTypeOK
  <1>7. runs'[p] # runs[p]
    <2>1. ss[r.at] = "success"
      BY <1>1 DEF ss, Passed, PInv, PTypeOK, Statuses
    <2>2. z.phase = "awaiting" => z.at # r.at
      BY <1>3, <2>1 DEF Outcome
    <2>3. QED
      BY <1>1, <1>6, <2>2 DEF Awaiting
  <1>8. QED
    BY <1>2, <1>4, <1>5, <1>6, <1>7 DEF KeepsSuccess

LEMMA FailKeepsSuccess ==
  ASSUME PInv, LoneInv, NEW p \in Runs, StageFails(p)
  PROVE  KeepsSuccess
  <1> DEFINE r  == runs[p]
             ss == stages[r.svc]
             zs == Halted(ss, r.sel, r.at)
  <1>1. /\ r \in RunRecord /\ r.svc \in Services /\ r.at \in r.sel /\ r.at \in Stages
        /\ Awaiting(p) /\ r.sel \in SUBSET Stages
    BY DEF PInv, PTypeOK, AwaitsItsStage, StageFails, RunRecord
  <1>2. ss[r.at] = "running"
    BY <1>1 DEF LoneInv, OneRun, InProgress
  <1>3. PICK z \in RunRecord : Leads(p, z, zs) /\ z.svc = r.svc /\ z.sel = r.sel /\ z.phase = "done"
    BY LoneFail
  <1>4. zs \in Statuses
    BY <1>1, HaltedIsStatuses DEF PInv, PTypeOK
  <1>5. ASSUME NEW g \in Stages, ss[g] = "success", zs[g] # "success"
        PROVE  g \in r.sel /\ Order[r.at] < Order[g] /\ zs[r.at] = "failed"
    BY <1>1, <1>2, <1>5 DEF Halted, After
  <1> HIDE DEF zs
  <1>6. /\ runs'[p] = z /\ runs'[p] # runs[p]
        /\ stages'[r.svc] = zs /\ \A o \in Services \ {r.svc} : stages'[o] = stages[o]
    BY <1>1, <1>3, <1>4 DEF Leads, Moves, PInv, PTypeOK, Awaiting
  <1>7. QED
    BY <1>1, <1>3, <1>5, <1>6 DEF KeepsSuccess

\* While the window is not reloaded, a stage that passed is given up only to a new run
\* that is not a resume, or to the failure of an earlier stage (processManager.ts:310).
THEOREM SuccessKept ==
  ASSUME ~CanReload
  PROVE  PSpec => SuccessIsKept
  <1>1. PInv /\ LoneInv /\ [PNext]_allVars => [KeepsSuccess]_allVars
    <2>1. SUFFICES ASSUME PInv, LoneInv, [PNext]_allVars PROVE KeepsSuccess
      OBVIOUS
    <2>2. UNCHANGED <<stages, runs>> => KeepsSuccess
      BY DEF KeepsSuccess
    <2>3. QED
      BY <2>1, <2>2, OtherSteps, StartKeepsSuccess, PassKeepsSuccess, FailKeepsSuccess
  <1>2. QED
    BY <1>1, PipelineAlways, LoneAlways, PTL DEF PSpec, SuccessIsKept

-----------------------------------------------------------------------------
(* The pipeline implements StagedRun                                       *)

\* What the mapping makes of the state.
ShownOf  == stages[OneService]
SelOf    == UNION {runs[p].sel : p \in Latest(OneService)}
ActiveOf == \E p \in Runs : Awaiting(p) /\ runs[p].svc = OneService

\* A run in progress is the latest, so its selection is the one that is shown.
LEMMA AwaitingIsLatest ==
  ASSUME LoneInv, NEW p \in Runs, Awaiting(p), runs[p].svc = OneService
  PROVE  ActiveOf /\ SelOf = runs[p].sel
  <1>1. Latest(OneService) = {p}
    <2>1. p \in Latest(OneService)
      BY DEF Latest, LoneInv, OneRun, Awaiting
    <2>2. ASSUME NEW q \in Latest(OneService) PROVE q = p
      <3>1. q \in Runs /\ runs[q].svc = OneService /\ runs[q].phase # "new" /\ ~(p > q)
        BY DEF Latest, Awaiting
      <3>2. ~(q > p)
        BY <3>1 DEF LoneInv, OneRun
      <3>3. QED
        BY <3>1, <3>2 DEF Runs
    <2>3. QED
      BY <2>1, <2>2
  <1>2. QED
    BY <1>1 DEF SelOf, ActiveOf

\* What is shown once a run of the service has gone on.
LEMMA LeadShows ==
  ASSUME PTypeOK, LoneInv, NEW p \in Runs, NEW z \in RunRecord, NEW zs \in Statuses,
         Leads(p, z, zs), z.svc = OneService
  PROVE  ShownOf' = zs /\ SelOf' = z.sel /\ ActiveOf' = (z.phase = "awaiting")
  <1>1. /\ runs'[p] = z /\ \A q \in Runs \ {p} : runs'[q] = runs[q]
        /\ stages'[z.svc] = zs
    BY DEF PTypeOK, Leads, Moves, RunRecord
  <1>2. ASSUME NEW q \in Runs \ {p}, runs[q].svc = OneService, runs[q].phase # "new" PROVE p > q
    BY <1>2 DEF Leads, Runs
  <1>3. Latest(OneService)' = {p}
    <2>1. p \in Latest(OneService)'
      <3>1. ASSUME NEW q \in Runs, q > p PROVE runs'[q].svc # OneService \/ runs'[q].phase = "new"
        BY <1>1, <3>1 DEF Leads, Runs
      <3>2. QED
        BY <1>1, <3>1 DEF Latest, Leads
    <2>2. ASSUME NEW q \in Latest(OneService)' PROVE q = p
      <3>1. /\ q \in Runs /\ runs'[q].svc = OneService /\ runs'[q].phase # "new"
            /\ \A o \in Runs : o > q => runs'[o].svc # OneService \/ runs'[o].phase = "new"
        BY DEF Latest
      <3>2. ~(p > q)
        BY <1>1, <3>1 DEF Leads
      <3>3. QED
        BY <1>1, <1>2, <3>1, <3>2
    <2>3. QED
      BY <2>1, <2>2
  <1>4. SelOf' = z.sel
    BY <1>1, <1>3 DEF SelOf
  <1>5. ActiveOf' = (z.phase = "awaiting")
    BY <1>1 DEF ActiveOf, Awaiting, Leads
  <1>6. ShownOf' = zs
    BY <1>1 DEF ShownOf
  <1>7. QED
    BY <1>4, <1>5, <1>6

\* A run of another service shows nothing.
LEMMA LeadHides ==
  ASSUME PTypeOK, NEW p \in Runs, NEW z \in RunRecord, NEW zs \in Statuses,
         Leads(p, z, zs), z.svc # OneService
  PROVE  ShownOf' = ShownOf /\ SelOf' = SelOf /\ ActiveOf' = ActiveOf
  <1>1. /\ runs'[p] = z /\ \A q \in Runs \ {p} : runs'[q] = runs[q]
        /\ stages'[OneService] = stages[OneService]
    BY DEF PTypeOK, Leads, Moves, RunRecord
  <1>2. runs[p].phase = "new" \/ runs[p].svc # OneService
    BY DEF Leads
  <1>3. \A q \in Runs : /\ runs'[q].svc = OneService /\ runs'[q].phase # "new"
                             <=> runs[q].svc = OneService /\ runs[q].phase # "new"
                        /\ runs[q].svc = OneService /\ runs[q].phase # "new"
                             => runs'[q] = runs[q]
    BY <1>1, <1>2
  <1>4. Latest(OneService)' = Latest(OneService)
    BY <1>3 DEF Latest
  <1>5. SelOf' = SelOf
    BY <1>3, <1>4 DEF SelOf, Latest
  <1>6. ActiveOf' = ActiveOf
    BY <1>3 DEF ActiveOf, Awaiting
  <1>7. QED
    BY <1>1, <1>5, <1>6 DEF ShownOf

LEMMA BeforeIsEarlier ==
  ASSUME NEW g \in Stages
  PROVE  Promise!Before[g] = {h \in Stages : Order[h] < Order[g]}
  BY DEF Promise!Before, Stages, Order

\* How StagedRun marks the stages after a failure is how skipAfter() does.
LEMMA HaltedIsPromised ==
  ASSUME NEW ss \in Statuses, NEW sel \in SUBSET Stages, NEW g \in Stages
  PROVE  Halted(ss, sel, g) =
           [h \in Promise!Stage |-> IF h = g THEN "failed"
              ELSE IF h \in sel /\ g \in Promise!Before[h] THEN "skipped" ELSE ss[h]]
  <1>1. Promise!Stage = Stages
    BY DEF Promise!Stage, Stages
  <1>2. ASSUME NEW h \in Stages
        PROVE  h \in After(sel, g) <=> h \in sel /\ g \in Promise!Before[h]
    BY BeforeIsEarlier, OrderIsTotal DEF After
  <1>3. QED
    BY <1>1, <1>2 DEF Halted

\* The outcome of a loop is a way for the promised run to proceed.
LEMMA OutcomeProceeds ==
  ASSUME NEW r \in RunRecord, NEW ss \in Statuses, NEW z \in RunRecord, NEW zs \in Statuses,
         Outcome(r, ss, z, zs), ShownOf' = zs, ActiveOf' = (z.phase = "awaiting")
  PROVE  Promise!Proceeds(ss, r.sel, ShownOf', ActiveOf')
  <1> DEFINE U == {g \in r.sel : ss[g] # "success"}
  <1>1. U = Promise!Undone(ss, r.sel) /\ r.sel \in SUBSET Stages
    BY DEF Promise!Undone, RunRecord
  <1>2. CASE AllPassed(r, ss) /\ zs = ss /\ z.phase = "done" /\ z.ok
    <2>1. U = {} /\ ShownOf' = ss /\ ActiveOf' = FALSE
      BY <1>2 DEF AllPassed
    <2>2. QED
      BY <1>1, <2>1 DEF Promise!Proceeds, ShownOf, ActiveOf
  <1>3. ASSUME NEW g \in r.sel, ss[g] # "success",
               \A h \in r.sel : Order[h] < Order[g] => ss[h] = "success",
               \/ zs = Halted(ss, r.sel, g) /\ z.phase = "done"
               \/ zs = [ss EXCEPT ![g] = "running"]
        PROVE  Promise!Proceeds(ss, r.sel, ShownOf', ActiveOf')
    <2>1. g \in U /\ Promise!Before[g] \cap U = {}
      BY <1>1, <1>3, BeforeIsEarlier
    <2>2. CASE zs = [ss EXCEPT ![g] = "running"]
      <3>1. ShownOf' = [ss EXCEPT ![g] = "running"] /\ ActiveOf' \in BOOLEAN
        BY <2>2
      <3>2. QED
        BY <1>1, <2>1, <3>1 DEF Promise!Proceeds, ShownOf, ActiveOf
    <2>3. CASE zs = Halted(ss, r.sel, g) /\ z.phase = "done"
      <3>1. ShownOf' = [h \in Promise!Stage |-> IF h = g THEN "failed"
              ELSE IF h \in r.sel /\ g \in Promise!Before[h] THEN "skipped" ELSE ss[h]]
        BY <1>1, <1>3, <2>3, HaltedIsPromised
      <3>2. ActiveOf' = FALSE
        BY <2>3
      <3>3. QED
        BY <1>1, <2>1, <3>1, <3>2 DEF Promise!Proceeds, ShownOf, ActiveOf
    <2>4. QED
      BY <1>3, <2>2, <2>3
  <1>4. QED
    BY <1>2, <1>3 DEF Outcome

LEMMA StartIsBegun ==
  ASSUME PInv, LoneInv, NEW p \in Runs, NEW s \in PipelineServices,
         NEW sel \in (SUBSET Stages) \ {{}}, NEW target \in Target, NEW resume \in BOOLEAN,
         StartRun(p, s, sel, target, resume)
  PROVE  Promise!Next \/ UNCHANGED <<ShownOf, SelOf, ActiveOf>>
  <1> DEFINE r  == Fresh(s, sel, target, resume)
             ss == Reset(s, sel, resume)
  <1>0. s \in Services /\ sel \in SUBSET Stages /\ Stages = Promise!Stage
    BY PipelineAssumption DEF Stages, Promise!Stage
  <1>1. r \in RunRecord /\ r.svc = s /\ r.sel = sel
    BY <1>0, FreshIsRecord
  <1>2. ss \in Statuses
    BY <1>0, ResetIsStatuses DEF PInv
  <1>3. PICK z \in RunRecord, zs \in Statuses : Leads(p, z, zs) /\ Outcome(r, ss, z, zs)
    BY <1>0, LoneStart DEF LoneStep
  <1> HIDE DEF r
  <1>4. z.svc = s /\ z.sel = sel
    BY <1>1, <1>3 DEF Outcome
  <1>5. CASE s = OneService
    <2>1. ShownOf' = zs /\ SelOf' = sel /\ ActiveOf' = (z.phase = "awaiting")
      BY <1>3, <1>4, <1>5, LeadShows DEF PInv
    <2>2. Promise!Proceeds(ss, sel, ShownOf', ActiveOf')
      BY <1>1, <1>2, <1>3, <2>1, OutcomeProceeds
    <2>3. ss = [g \in Promise!Stage |-> IF g \in sel /\ ~(resume /\ ShownOf[g] = "success")
                                        THEN "idle" ELSE ShownOf[g]]
      BY <1>0, <1>5 DEF Reset, ShownOf
    <2>4. ~ActiveOf
      BY <1>5, NotBusy DEF StartRun, ActiveOf
    <2>5. Promise!Begin(sel, resume)
      BY <2>1, <2>2, <2>3, <2>4 DEF Promise!Begin, ShownOf, SelOf, ActiveOf
    <2>6. QED
      BY <1>0, <2>5 DEF Promise!Next
  <1>6. CASE s # OneService
    BY <1>3, <1>4, <1>6, LeadHides DEF PInv
  <1>7. QED
    BY <1>5, <1>6

LEMMA PassIsPassed ==
  ASSUME PInv, LoneInv, NEW p \in Runs, StageSucceeds(p)
  PROVE  Promise!Next \/ UNCHANGED <<ShownOf, SelOf, ActiveOf>>
  <1>1. Passed(p) \in Statuses /\ runs[p] \in RunRecord /\ Awaiting(p) /\ Stages = Promise!Stage
    BY DEF PInv, PTypeOK, StageSucceeds, RunRecord, Passed, Statuses, Marks, Stages, Promise!Stage
  <1>2. PICK r \in RunRecord, ss \in Statuses : r = runs[p] /\ ss = Passed(p)
    BY <1>1
  <1>a. r.at \in Promise!Stage
    BY <1>1 DEF RunRecord
  <1>3. PICK z \in RunRecord, zs \in Statuses : Leads(p, z, zs) /\ Outcome(r, ss, z, zs)
    BY <1>2, LonePass DEF LoneStep
  <1>4. z.svc = r.svc /\ z.sel = r.sel
    BY <1>3 DEF Outcome
  <1>5. CASE r.svc = OneService
    <2>1. ShownOf' = zs /\ SelOf' = r.sel /\ ActiveOf' = (z.phase = "awaiting")
      BY <1>3, <1>4, <1>5, LeadShows DEF PInv
    <2>2. Promise!Proceeds(ss, r.sel, ShownOf', ActiveOf')
      BY <1>3, <2>1, OutcomeProceeds
    <2>3. ActiveOf /\ SelOf = r.sel
      BY <1>1, <1>2, <1>5, AwaitingIsLatest
    <2>4. ss = [ShownOf EXCEPT ![r.at] = "success"] /\ ShownOf[r.at] = "running"
      BY <1>1, <1>2, <1>5 DEF Passed, ShownOf, LoneInv, OneRun, InProgress
    <2>5. Promise!Pass(r.at)
      <3>1. Promise!Proceeds([ShownOf EXCEPT ![r.at] = "success"], SelOf, ShownOf', ActiveOf')
        BY <2>2, <2>3, <2>4
      <3>2. QED
        BY <2>1, <2>3, <2>4, <3>1 DEF Promise!Pass, ShownOf, SelOf, ActiveOf
    <2>6. QED
      BY <1>a, <2>5 DEF Promise!Next
  <1>6. CASE r.svc # OneService
    BY <1>2, <1>3, <1>4, <1>6, LeadHides DEF PInv
  <1>7. QED
    BY <1>5, <1>6

LEMMA FailIsFailed ==
  ASSUME PInv, LoneInv, NEW p \in Runs, StageFails(p)
  PROVE  Promise!Next \/ UNCHANGED <<ShownOf, SelOf, ActiveOf>>
  <1>1. /\ runs[p] \in RunRecord /\ Awaiting(p) /\ Stages = Promise!Stage
        /\ stages[runs[p].svc] \in Statuses
    BY DEF PInv, PTypeOK, AwaitsItsStage, StageFails, RunRecord, Stages, Promise!Stage
  <1>2. PICK r \in RunRecord, ss \in Statuses : r = runs[p] /\ ss = stages[r.svc]
    BY <1>1
  <1>3. PICK zs \in Statuses : zs = Halted(ss, r.sel, r.at)
    BY HaltedIsStatuses DEF RunRecord
  <1>4. PICK z \in RunRecord : Leads(p, z, zs) /\ z.svc = r.svc /\ z.sel = r.sel /\ z.phase = "done"
    BY <1>2, <1>3, LoneFail
  <1>5. r.at \in Promise!Stage
    BY <1>1 DEF RunRecord
  <1>6. CASE r.svc = OneService
    <2>1. ShownOf' = zs /\ SelOf' = r.sel /\ ActiveOf' = FALSE
      BY <1>4, <1>6, LeadShows DEF PInv
    <2>2. ActiveOf /\ SelOf = r.sel
      BY <1>1, <1>2, <1>6, AwaitingIsLatest
    <2>3. ShownOf = ss /\ ss[r.at] = "running"
      BY <1>1, <1>2, <1>6 DEF ShownOf, LoneInv, OneRun, InProgress
    <2>4. zs = [h \in Promise!Stage |-> IF h = r.at THEN "failed"
              ELSE IF h \in r.sel /\ r.at \in Promise!Before[h] THEN "skipped" ELSE ss[h]]
      BY <1>3, HaltedIsPromised DEF RunRecord
    <2>5. Promise!Fail(r.at)
      BY <2>1, <2>2, <2>3, <2>4 DEF Promise!Fail, ShownOf, SelOf, ActiveOf
    <2>6. QED
      BY <1>5, <2>5 DEF Promise!Next
  <1>7. CASE r.svc # OneService
    BY <1>4, <1>7, LeadHides DEF PInv
  <1>8. QED
    BY <1>6, <1>7

\* While the window is not reloaded, what it shows of a service is what the README
\* promises, for any service, any number of runs and whatever else goes on: the
\* pipeline implements StagedRun (README.md:32).
THEOREM KeepsItsPromise ==
  ASSUME ~CanReload
  PROVE  PSpec => KeepsThePromise
  <1>1. PInit => Promise!Init
    <2>1. SUFFICES ASSUME PInit PROVE Promise!Init
      OBVIOUS
    <2>2. Latest(OneService) = {} /\ ~ActiveOf
      BY <2>1 DEF PInit, Latest, ActiveOf, Awaiting, NewRun
    <2>3. ShownOf = [g \in Promise!Stage |-> "idle"]
      BY <2>1, PipelineAssumption DEF PInit, ShownOf, Stages, Promise!Stage
    <2>4. SelOf = {}
      BY <2>2 DEF SelOf
    <2>5. QED
      BY <2>2, <2>3, <2>4 DEF Promise!Init, ShownOf, SelOf, ActiveOf
  <1>2. PInv /\ LoneInv /\ [PNext]_allVars => [Promise!Next]_(Promise!vars)
    <2>1. SUFFICES ASSUME PInv, LoneInv, [PNext]_allVars
                   PROVE  Promise!Next \/ UNCHANGED <<ShownOf, SelOf, ActiveOf>>
      BY DEF Promise!vars, ShownOf, SelOf, ActiveOf
    <2>2. UNCHANGED <<stages, runs>> => UNCHANGED <<ShownOf, SelOf, ActiveOf>>
      BY DEF ShownOf, SelOf, ActiveOf, Latest, Awaiting
    <2>3. QED
      BY <2>1, <2>2, OtherSteps, StartIsBegun, PassIsPassed, FailIsFailed
  <1>3. QED
    BY <1>1, <1>2, PipelineAlways, LoneAlways, PTL DEF PSpec, KeepsThePromise, Promise!Spec
=============================================================================
