--------------------------- MODULE ProcessSlots ---------------------------
(***************************************************************************)
(* The child processes of the RumbleUp console and the slots it files them *)
(* under: tools/console/src/main/processManager.ts, without the pipeline   *)
(* (module Pipeline adds it on top of the operators of this one).          *)
(*                                                                         *)
(* A slot is one (service, stream) pair.  run() spawns a process, files it *)
(* in its slot and installs the "close" handler that empties the slot;     *)
(* kill() sends SIGINT to whatever the slot holds and arms a four second   *)
(* timer that is meant to send SIGKILL.  A process is "running", then      *)
(* "exited" (it is gone, its pipes may still be held open by a            *)
(* grandchild), then "closed" (node has delivered the "close" event).      *)
(***************************************************************************)
EXTENDS Naturals, FiniteSets

CONSTANTS Services,     \* ids of the services and pseudo-services
          WebProxy,     \* WEBPROXY_ID, the pseudo-service of the local edge
          HasCompose,   \* the services that have a docker-compose file
          MaxSpawns,    \* bound on the processes ever spawned
          MaxRestarts   \* bound on the restartProxy timers pending at once

ASSUME ServicesAssumption == WebProxy \in Services /\ HasCompose \subseteq Services
ASSUME BoundsAssumption   == MaxSpawns \in Nat /\ MaxRestarts \in Nat

Streams  == {"build", "image", "deploy", "runtime"}
Key      == Services \X Streams
Child    == 1..MaxSpawns        \* in the order they were spawned
NoChild  == 0
ProxyKey == <<WebProxy, "runtime">>

VARIABLES slots,      \* slots[k] is the process filed under k, or NoChild
          spawned,    \* how many processes have been spawned
          keyOf,      \* the slot each process was spawned for
          status,     \* "unborn", "running", "exited" or "closed"
          killed,     \* ChildProcess.killed: some signal has been delivered
          doomed,     \* it has been sent SIGKILL, which it cannot ignore
          timers,     \* the processes a hard-stop timer is armed for
          restarts    \* restartProxy timers not yet fired

slotVars == <<slots, spawned, keyOf, status, killed, doomed, timers, restarts>>

Live(c) == status[c] \in {"running", "exited"}

Init ==
  /\ slots    = [k \in Key |-> NoChild]
  /\ spawned  = 0
  /\ keyOf    = [c \in Child |-> ProxyKey]
  /\ status   = [c \in Child |-> "unborn"]
  /\ killed   = [c \in Child |-> FALSE]
  /\ doomed   = [c \in Child |-> FALSE]
  /\ timers   = {}
  /\ restarts = 0

-----------------------------------------------------------------------------
(* The two operations everything else is made of.  Both take the slot table *)
(* (and the statuses) they start from, so that a handler that empties a     *)
(* slot and then runs a command is one step.                                *)

\* Variant: the hard-stop timer is armed but no signal is sent.
StopUnsignalled(tab, ks) ==
  /\ killed' = killed
  /\ timers' = timers \cup ({tab[k] : k \in ks} \ {NoChild})

\* kill() on every slot of ks, as the table tab has them: SIGINT reaches a
\* process that is still running, and the timer is armed whether it did or not.
Stop(tab, ks) ==
  LET cs == {tab[k] : k \in ks} \ {NoChild}
  IN /\ killed' = [c \in Child |-> killed[c] \/ (c \in cs /\ status[c] = "running")]
     /\ timers' = timers \cup cs

\* The part of run() after the kill: spawn, and overwrite the slot.
Spawn(tab, st, k) ==
  LET c == spawned + 1
  IN /\ spawned < MaxSpawns
     /\ spawned' = c
     /\ slots'   = [tab EXCEPT ![k] = c]
     /\ keyOf'   = [keyOf EXCEPT ![c] = k]
     /\ status'  = [st EXCEPT ![c] = "running"]

\* child_process.spawn throws: nothing is filed, and an occupant of the slot
\* has been signalled but is still there.
SpawnThrows(tab, st) ==
  /\ slots'  = tab
  /\ status' = st
  /\ UNCHANGED <<spawned, keyOf>>

\* run(): kill the occupant if there is one, then spawn.
Run(k) ==
  /\ Stop(slots, {k})
  /\ Spawn(slots, status, k) \/ SpawnThrows(slots, status)

-----------------------------------------------------------------------------
(* The operations the console's window calls over IPC.                     *)

\* startDev, startProxy and the commands repo.ts executes for its
\* pseudo-service, all on the runtime stream.
StartDev(s) == Run(<<s, "runtime">>) /\ UNCHANGED <<doomed, restarts>>

StartBuildWatch(s) == Run(<<s, "build">>) /\ UNCHANGED <<doomed, restarts>>

\* Variant: kill() empties the slot at once.
KillAndForget(k) ==
  /\ Stop(slots, {k})
  /\ slots' = [slots EXCEPT ![k] = NoChild]
  /\ UNCHANGED <<spawned, keyOf, status, doomed, restarts>>

Kill(k) ==
  /\ Stop(slots, {k})
  /\ UNCHANGED <<slots, spawned, keyOf, status, doomed, restarts>>

KillAll(s) ==
  /\ Stop(slots, {s} \X Streams)
  /\ UNCHANGED <<slots, spawned, keyOf, status, doomed, restarts>>

\* composeDown(): stop following the logs, then `compose down' on the deploy
\* stream, which stops a deploy that is under way.
ComposeDown(s) ==
  \/ s \notin HasCompose /\ Kill(<<s, "runtime">>)
  \/ /\ s \in HasCompose
     /\ Stop(slots, {<<s, "runtime">>, <<s, "deploy">>})
     /\ Spawn(slots, status, <<s, "deploy">>) \/ SpawnThrows(slots, status)
     /\ UNCHANGED <<doomed, restarts>>

\* restartProxy(): kill the edge now, start it again when the timer fires.
RestartProxy ==
  /\ restarts < MaxRestarts
  /\ Stop(slots, {ProxyKey})
  /\ restarts' = restarts + 1
  /\ UNCHANGED <<slots, spawned, keyOf, status, doomed>>

RestartTimer ==
  /\ restarts > 0
  /\ restarts' = restarts - 1
  /\ Run(ProxyKey)
  /\ UNCHANGED <<doomed>>

-----------------------------------------------------------------------------
(* What the processes and the timers do.                                   *)

\* A process ends: by itself, because it obeys SIGINT, because of SIGKILL, or because the command could not be started.
Exit(c) ==
  /\ status[c] = "running"
  /\ status' = [status EXCEPT ![c] = "exited"]
  /\ UNCHANGED <<slots, spawned, keyOf, killed, doomed, timers, restarts>>

\* Variant: "close" leaves the slot to the next spawn.
KeptBy(c) == slots

\* The table as the "close" handler of c leaves it.
Freed(c) == [slots EXCEPT ![keyOf[c]] = NoChild]

Close(c) ==
  /\ status[c] = "exited"
  /\ slots'  = Freed(c)
  /\ status' = [status EXCEPT ![c] = "closed"]
  /\ UNCHANGED <<spawned, keyOf, killed, doomed, timers, restarts>>

\* The timer of kill(): `if ( !child.killed ) child.kill( "SIGKILL" )'.
HardStop(c) ==
  /\ c \in timers
  /\ timers' = timers \ {c}
  /\ LET hit == ~killed[c] /\ status[c] = "running"
     IN /\ doomed' = [doomed EXCEPT ![c] = @ \/ hit]
        /\ killed' = [killed EXCEPT ![c] = @ \/ hit]
  /\ UNCHANGED <<slots, spawned, keyOf, status, restarts>>

Request ==
  \/ \E k \in Key : Kill(k)
  \/ \E s \in Services :
       StartDev(s) \/ StartBuildWatch(s) \/ KillAll(s) \/ ComposeDown(s)
  \/ RestartProxy

Environment ==
  \/ \E c \in Child : Exit(c) \/ Close(c) \/ HardStop(c)
  \/ RestartTimer

Next == Request \/ Environment

Spec == Init /\ [][Next]_slotVars

\* Timers fire and "close" events are delivered.  Nothing obliges a process to
\* end by itself or to obey SIGINT; only SIGKILL cannot be ignored.
Fairness ==
  /\ WF_slotVars(RestartTimer)
  /\ \A c \in Child :
       /\ WF_slotVars(Close(c))
       /\ WF_slotVars(HardStop(c))
       /\ WF_slotVars(doomed[c] /\ Exit(c))

FairSpec == Spec /\ Fairness

-----------------------------------------------------------------------------
(* Properties                                                              *)

TypeOK ==
  /\ slots    \in [Key -> Child \cup {NoChild}]
  /\ spawned  \in 0..MaxSpawns
  /\ keyOf    \in [Child -> Key]
  /\ status   \in [Child -> {"unborn", "running", "exited", "closed"}]
  /\ killed   \in [Child -> BOOLEAN]
  /\ doomed   \in [Child -> BOOLEAN]
  /\ timers   \in SUBSET Child
  /\ restarts \in Nat

\* kill() can only hit what it is aimed at: the process filed under a slot was
\* spawned for that slot and has not closed, and of the processes spawned for
\* the slot it is the newest.  (run() overwrites, "close" deletes by key: two
\* handlers of different processes write the same entry of the map.)
SlotsHoldTheNewest ==
  \A k \in Key : slots[k] # NoChild =>
    /\ keyOf[slots[k]] = k /\ Live(slots[k])
    /\ \A d \in Child : d > slots[k] /\ status[d] # "unborn" => keyOf[d] # k

\* A live process that isRunning() does not see was overlapped by another one
\* of its slot: a newer one that replaced it, or an older one whose late
\* "close" emptied the slot.  Nothing else loses a process.
OnlyOverlapLosesAProcess ==
  \A c \in Child : Live(c) /\ slots[keyOf[c]] # c =>
    \E d \in Child \ {c} : /\ keyOf[d] = keyOf[c] /\ status[d] # "unborn"
                           /\ d < c => status[d] = "closed"

\* A hard-stop timer only ever finds a running process that has had its SIGINT,
\* so `!child.killed' is false whenever it matters and SIGKILL is never sent.
TimersFindKilledProcesses ==
  /\ \A c \in timers : status[c] = "running" => killed[c]
  /\ \A c \in Child : ~doomed[c]

\* What the header says of the class: it owns every child process it spawns,
\* keyed by (service, stream), and exposes kill (processManager.ts:19).  A running
\* process nobody has asked to stop is therefore one kill() can still reach.
EveryProcessIsOwned ==
  \A c \in Child : status[c] = "running" /\ ~killed[c] => slots[keyOf[c]] = c

\* `hard stop if it ignores SIGINT' (processManager.ts:183): a process that was
\* signalled does not run forever.
KilledProcessesEnd == \A c \in Child : killed[c] ~> ~(status[c] = "running")

\* restartProxy `waits for the port to free' (processManager.ts:282): when its
\* timer starts the edge again, the edge it killed is gone.
RestartWaitsForThePort ==
  [][restarts' < restarts =>
       ~\E c \in Child : Live(c) /\ keyOf[c] = ProxyKey]_slotVars
=============================================================================
