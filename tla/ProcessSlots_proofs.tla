------------------------ MODULE ProcessSlots_proofs ------------------------
(***************************************************************************)
(* Proofs about ProcessSlots, for any services and any number of processes: *)
(* type correctness and the consistency of the slot table with the         *)
(* processes filed in it.                                                  *)
(***************************************************************************)
EXTENDS ProcessSlots, TLAPS

\* Processes are numbered in the order they are spawned.
BornInOrder == \A c \in Child : status[c] = "unborn" <=> c > spawned

\* A timer is only ever armed for a process that has been spawned.
TimersAreBorn == \A c \in timers : status[c] # "unborn"

\* The inductive invariant.  SlotsHoldTheNewest is not inductive by itself: the
\* next process must be newer than every process spawned so far, and it must not
\* have a timer yet.
IInv == /\ TypeOK /\ BornInOrder /\ TimersAreBorn
        /\ SlotsHoldTheNewest /\ TimersFindKilledProcesses

LEMMA ProxyKeyInKey == ProxyKey \in Key
  BY ServicesAssumption DEF ProxyKey, Key, Streams

LEMMA InitIInv == Init => IInv
  <1> SUFFICES ASSUME Init PROVE IInv
    OBVIOUS
  <1>1. TypeOK
    BY ProxyKeyInKey, BoundsAssumption DEF Init, TypeOK, NoChild
  <1>2. BornInOrder /\ TimersAreBorn
    BY BoundsAssumption DEF Init, BornInOrder, TimersAreBorn, Child
  <1>3. SlotsHoldTheNewest /\ TimersFindKilledProcesses
    BY DEF Init, SlotsHoldTheNewest, TimersFindKilledProcesses
  <1>4. QED
    BY <1>1, <1>2, <1>3 DEF IInv

\* A slot table and statuses that an operation may start from: those of the state, or
\* those a close handler leaves (Freed) before it goes on in the same step.
Filed(tab, st) ==
  /\ tab \in [Key -> Child \cup {NoChild}]
  /\ st \in [Child -> {"unborn", "running", "exited", "closed"}]
  /\ \A c \in Child : /\ st[c] = "unborn" <=> c > spawned
                      /\ st[c] = "running" => status[c] = "running"
  /\ \A k \in Key : tab[k] # NoChild =>
       /\ keyOf[tab[k]] = k /\ st[tab[k]] \in {"running", "exited"}
       /\ \A d \in Child : d > tab[k] /\ st[d] # "unborn" => keyOf[d] # k

LEMMA StateIsFiled == IInv => Filed(slots, status)
  BY DEF IInv, TypeOK, BornInOrder, SlotsHoldTheNewest, Live, Filed

\* The close handler of c leaves the entries of the other slots, and no entry of c.
LEMMA ClosedIsFiled ==
  ASSUME IInv, NEW c \in Child, status[c] = "exited"
  PROVE  Filed(Freed(c), [status EXCEPT ![c] = "closed"])
  <1> DEFINE tab == Freed(c)
             st  == [status EXCEPT ![c] = "closed"]
  <1>1. keyOf[c] \in Key /\ tab = [slots EXCEPT ![keyOf[c]] = NoChild]
    BY DEF Freed, IInv, TypeOK
  <1>2. /\ tab \in [Key -> Child \cup {NoChild}]
        /\ st \in [Child -> {"unborn", "running", "exited", "closed"}]
    BY <1>1 DEF IInv, TypeOK
  <1>3. ASSUME NEW d \in Child
        PROVE  /\ st[d] = "unborn" <=> status[d] = "unborn"
               /\ st[d] = "running" => status[d] = "running"
               /\ d # c => st[d] = status[d]
    BY DEF IInv, TypeOK
  <1>4. ASSUME NEW k \in Key, tab[k] # NoChild
        PROVE  tab[k] = slots[k] /\ slots[k] # c /\ slots[k] \in Child
    BY <1>1, <1>4 DEF IInv, TypeOK, SlotsHoldTheNewest
  <1>5. \A d \in Child : st[d] = "unborn" <=> d > spawned
    BY <1>3 DEF IInv, BornInOrder
  <1>6. ASSUME NEW k \in Key, tab[k] # NoChild
        PROVE  /\ keyOf[tab[k]] = k /\ st[tab[k]] \in {"running", "exited"}
               /\ \A d \in Child : d > tab[k] /\ st[d] # "unborn" => keyOf[d] # k
    BY <1>3, <1>4, <1>6 DEF IInv, SlotsHoldTheNewest, Live
  <1> HIDE DEF tab, st
  <1>7. Filed(tab, st)
    BY <1>2, <1>3, <1>5, <1>6 DEF Filed
  <1>8. QED
    BY <1>7 DEF tab, st

\* kill(): the processes it signals are running ones, and each process it arms
\* a timer for and that is running has been signalled.
LEMMA StopKeeps ==
  ASSUME IInv, NEW tab, NEW st, Filed(tab, st), NEW ks \in SUBSET Key, Stop(tab, ks)
  PROVE  /\ killed' \in [Child -> BOOLEAN]
         /\ timers' \in SUBSET Child
         /\ \A c \in timers' : st[c] # "unborn" /\ (st[c] = "running" => killed'[c])
         /\ \A c \in Child : killed[c] => killed'[c]
  <1> DEFINE cs == {tab[k] : k \in ks} \ {NoChild}
  <1>1. cs \subseteq Child /\ \A c \in cs : st[c] # "unborn"
    BY DEF Filed
  <1>2. killed' = [c \in Child |-> killed[c] \/ (c \in cs /\ status[c] = "running")]
    BY DEF Stop
  <1>3. timers' = timers \cup cs
    BY DEF Stop
  <1>4. killed' \in [Child -> BOOLEAN] /\ \A c \in Child : killed[c] => killed'[c]
    BY <1>2 DEF IInv, TypeOK
  <1>5. timers' \in SUBSET Child
    BY <1>1, <1>3 DEF IInv, TypeOK
  <1>6. ASSUME NEW c \in timers'
        PROVE  st[c] # "unborn" /\ (st[c] = "running" => killed'[c])
    <2>1. c \in Child /\ (st[c] = "running" => status[c] = "running")
      BY <1>5 DEF Filed
    <2>2. CASE c \in timers
      <3>1. status[c] # "unborn" /\ (status[c] = "running" => killed[c])
        BY <2>2 DEF IInv, TimersAreBorn, TimersFindKilledProcesses
      <3>2. st[c] # "unborn"
        BY <2>1, <3>1 DEF IInv, BornInOrder, Filed
      <3>3. QED
        BY <2>1, <3>1, <3>2, <1>4
    <2>3. CASE c \in cs
      BY <2>1, <2>3, <1>1, <1>2
    <2>4. QED
      BY <2>2, <2>3, <1>3
  <1>7. QED
    BY <1>4, <1>5, <1>6

\* A step that signals the occupants of some slots and spawns nothing.
LEMMA StopStep ==
  ASSUME IInv, NEW tab, NEW st, Filed(tab, st), NEW ks \in SUBSET Key, Stop(tab, ks),
         slots' = tab, status' = st, restarts' \in Nat, UNCHANGED <<spawned, keyOf, doomed>>
  PROVE  IInv'
  <1>1. TypeOK'
    BY StopKeeps DEF IInv, TypeOK, Filed
  <1>2. BornInOrder' /\ SlotsHoldTheNewest'
    BY DEF Filed, BornInOrder, SlotsHoldTheNewest, Live
  <1>3. TimersAreBorn' /\ TimersFindKilledProcesses'
    BY StopKeeps DEF IInv, TimersAreBorn, TimersFindKilledProcesses
  <1>4. QED
    BY <1>1, <1>2, <1>3 DEF IInv

\* A step that leaves such a table and does nothing else.
LEMMA FiledStep ==
  ASSUME IInv, NEW tab, NEW st, Filed(tab, st), slots' = tab, status' = st, restarts' \in Nat,
         UNCHANGED <<spawned, keyOf, killed, doomed, timers>>
  PROVE  IInv'
  <1>1. TypeOK'
    BY DEF IInv, TypeOK, Filed
  <1>2. BornInOrder' /\ SlotsHoldTheNewest'
    BY DEF Filed, BornInOrder, SlotsHoldTheNewest, Live
  <1>3. ASSUME NEW c \in timers
        PROVE  st[c] # "unborn" /\ (st[c] = "running" => killed[c])
    <2>1. c \in Child /\ status[c] # "unborn" /\ (status[c] = "running" => killed[c])
      BY DEF IInv, TypeOK, TimersAreBorn, TimersFindKilledProcesses
    <2>2. QED
      BY <2>1 DEF IInv, BornInOrder, Filed
  <1>4. TimersAreBorn' /\ TimersFindKilledProcesses'
    BY <1>3 DEF IInv, TimersAreBorn, TimersFindKilledProcesses
  <1>5. QED
    BY <1>1, <1>2, <1>4 DEF IInv

\* A step that signals the occupants of some slots and spawns a process in one.
LEMMA SpawnStep ==
  ASSUME IInv, NEW tab, NEW st, Filed(tab, st),
         NEW ks \in SUBSET Key, NEW k \in Key, restarts' \in Nat,
         Stop(tab, ks), Spawn(tab, st, k), UNCHANGED doomed
  PROVE  IInv'
  <1> DEFINE n == spawned + 1
  <1>1. /\ n \in Child /\ spawned' = n /\ n # NoChild
        /\ slots' = [tab EXCEPT ![k] = n]
        /\ keyOf' = [keyOf EXCEPT ![n] = k]
        /\ status' = [st EXCEPT ![n] = "running"]
    BY BoundsAssumption DEF Spawn, IInv, TypeOK, Child, NoChild
  <1>2. st[n] = "unborn"
    BY <1>1, BoundsAssumption DEF IInv, Filed, TypeOK
  <1>3. TypeOK'
    <2>1. /\ killed' \in [Child -> BOOLEAN] /\ timers' \in SUBSET Child
      BY StopKeeps
    <2>2. slots' \in [Key -> Child \cup {NoChild}] /\ keyOf' \in [Child -> Key]
      BY <1>1 DEF IInv, TypeOK, Filed
    <2>3. status' \in [Child -> {"unborn", "running", "exited", "closed"}]
      BY <1>1 DEF Filed
    <2>4. spawned' \in 0..MaxSpawns
      BY <1>1, BoundsAssumption DEF Child
    <2>5. QED
      BY <2>1, <2>2, <2>3, <2>4 DEF IInv, TypeOK
  <1>4. BornInOrder'
    BY <1>1, BoundsAssumption DEF IInv, BornInOrder, Filed, TypeOK, Child
  <1>5. SlotsHoldTheNewest'
    <2> SUFFICES ASSUME NEW j \in Key, slots'[j] # NoChild
                 PROVE  /\ keyOf'[slots'[j]] = j
                        /\ status'[slots'[j]] \in {"running", "exited"}
                        /\ \A d \in Child : d > slots'[j] /\ status'[d] # "unborn"
                             => keyOf'[d] # j
      BY DEF SlotsHoldTheNewest, Live
    <2>1. CASE j = k
      <3>1. slots'[j] = n /\ keyOf'[n] = j /\ status'[n] = "running"
        BY <1>1, <2>1 DEF IInv, TypeOK, Filed
      <3>2. ASSUME NEW d \in Child, d > n PROVE status'[d] = "unborn"
        BY <3>2, <1>1, BoundsAssumption DEF IInv, TypeOK, Filed, Child
      <3>3. QED
        BY <3>1, <3>2 DEF Live
    <2>2. CASE j # k
      <3>1. slots'[j] = tab[j] /\ tab[j] \in Child /\ st[tab[j]] \in {"running", "exited"}
        BY <1>1, <2>2 DEF Filed
      <3>2. tab[j] # n
        BY <3>1, <1>2
      <3>3. keyOf'[tab[j]] = keyOf[tab[j]] /\ status'[tab[j]] = st[tab[j]]
        BY <3>1, <3>2, <1>1 DEF IInv, TypeOK, Filed
      <3>4. ASSUME NEW d \in Child, d > tab[j], status'[d] # "unborn"
            PROVE  keyOf'[d] # j
        BY <3>1, <3>4, <2>2, <1>1 DEF IInv, TypeOK, Filed
      <3>5. QED
        BY <3>1, <3>3, <3>4 DEF Filed
    <2>3. QED
      BY <2>1, <2>2
  <1>6. TimersAreBorn' /\ TimersFindKilledProcesses'
    <2>1. ASSUME NEW c \in timers' PROVE c # n /\ status'[c] = st[c]
      BY <2>1, <1>1, <1>2, StopKeeps DEF Filed
    <2>2. QED
      BY <2>1, StopKeeps DEF IInv, TimersAreBorn, TimersFindKilledProcesses
  <1>7. QED
    BY <1>3, <1>4, <1>5, <1>6 DEF IInv

LEMMA RunStep ==
  ASSUME IInv, NEW k \in Key, Run(k), restarts' \in Nat, UNCHANGED doomed
  PROVE  IInv'
  <1>1. CASE Spawn(slots, status, k)
    BY <1>1, SpawnStep, StateIsFiled DEF Run
  <1>2. CASE SpawnThrows(slots, status)
    BY <1>2, StopStep, StateIsFiled DEF Run, SpawnThrows
  <1>3. QED
    BY <1>1, <1>2 DEF Run

LEMMA RequestStep == ASSUME IInv, Request PROVE IInv'
  <1>1. restarts \in Nat
    BY DEF IInv, TypeOK
  <1>2. ASSUME NEW s \in Services
        PROVE  \A g \in Streams : <<s, g>> \in Key
    BY DEF Key
  <1>3. ASSUME NEW k \in Key, Kill(k) PROVE IInv'
    BY <1>1, <1>3, StopStep, StateIsFiled DEF Kill
  <1>4. ASSUME NEW s \in Services, StartDev(s) PROVE IInv'
    BY <1>1, <1>2, <1>4, RunStep DEF StartDev, Streams
  <1>5. ASSUME NEW s \in Services, StartBuildWatch(s) PROVE IInv'
    BY <1>1, <1>2, <1>5, RunStep DEF StartBuildWatch, Streams
  <1>6. ASSUME NEW s \in Services, KillAll(s) PROVE IInv'
    <2>1. {s} \X Streams \subseteq Key
      BY DEF Key
    <2>2. QED
      BY <1>1, <1>6, <2>1, StopStep, StateIsFiled DEF KillAll
  <1>7. ASSUME NEW s \in Services, ComposeDown(s) PROVE IInv'
    <2>1. <<s, "runtime">> \in Key /\ <<s, "deploy">> \in Key
      BY <1>2 DEF Streams
    <2>2. CASE Kill(<<s, "runtime">>)
      BY <1>3, <2>1, <2>2
    <2>3. CASE /\ Stop(slots, {<<s, "runtime">>, <<s, "deploy">>})
               /\ Spawn(slots, status, <<s, "deploy">>)
               /\ UNCHANGED <<doomed, restarts>>
      BY <1>1, <2>1, <2>3, SpawnStep, StateIsFiled
    <2>4. CASE /\ Stop(slots, {<<s, "runtime">>, <<s, "deploy">>})
               /\ SpawnThrows(slots, status)
               /\ UNCHANGED <<doomed, restarts>>
      BY <1>1, <2>1, <2>4, StopStep, StateIsFiled DEF SpawnThrows
    <2>5. QED
      BY <1>7, <2>2, <2>3, <2>4 DEF ComposeDown
  <1>8. ASSUME RestartProxy PROVE IInv'
    BY <1>1, <1>8, ProxyKeyInKey, StopStep, StateIsFiled DEF RestartProxy
  <1>9. QED
    BY <1>3, <1>4, <1>5, <1>6, <1>7, <1>8 DEF Request

LEMMA EnvironmentStep == ASSUME IInv, Environment PROVE IInv'
  <1>1. ASSUME NEW c \in Child, Exit(c) PROVE IInv'
    <2>1. TypeOK'
      BY <1>1 DEF Exit, IInv, TypeOK
    <2>2. BornInOrder' /\ TimersAreBorn' /\ TimersFindKilledProcesses'
      BY <1>1 DEF Exit, IInv, TypeOK, BornInOrder, TimersAreBorn, TimersFindKilledProcesses
    <2>3. SlotsHoldTheNewest'
      BY <1>1 DEF Exit, IInv, TypeOK, SlotsHoldTheNewest, Live
    <2>4. QED
      BY <2>1, <2>2, <2>3 DEF IInv
  <1>2. ASSUME NEW c \in Child, Close(c) PROVE IInv'
    <2>1. restarts' \in Nat
      BY <1>2 DEF Close, IInv, TypeOK
    <2>2. QED
      BY <1>2, <2>1, ClosedIsFiled, FiledStep DEF Close
  <1>3. ASSUME NEW c \in Child, HardStop(c) PROVE IInv'
    <2>1. ~(~killed[c] /\ status[c] = "running")
      BY <1>3 DEF HardStop, IInv, TimersFindKilledProcesses
    <2>2. timers' \subseteq timers /\ UNCHANGED <<slots, spawned, keyOf, status, restarts>>
      BY <1>3 DEF HardStop
    <2>3. UNCHANGED <<doomed, killed>>
      BY <1>3, <2>1 DEF HardStop, IInv, TypeOK
    <2>4. QED
      BY <2>2, <2>3 DEF IInv, TypeOK, BornInOrder, TimersAreBorn, SlotsHoldTheNewest,
                        TimersFindKilledProcesses, Live
  <1>4. ASSUME RestartTimer PROVE IInv'
    <2>1. restarts' \in Nat
      BY <1>4 DEF RestartTimer, IInv, TypeOK
    <2>2. QED
      BY <1>4, <2>1, ProxyKeyInKey, RunStep DEF RestartTimer
  <1>5. QED
    BY <1>1, <1>2, <1>3, <1>4 DEF Environment

LEMMA Invariance == Spec => []IInv
  <1>1. IInv /\ [Next]_slotVars => IInv'
    <2> SUFFICES ASSUME IInv, [Next]_slotVars PROVE IInv'
      OBVIOUS
    <2>1. CASE Next
      BY <2>1, RequestStep, EnvironmentStep DEF Next
    <2>2. CASE UNCHANGED slotVars
      BY <2>2 DEF slotVars, IInv, TypeOK, BornInOrder, TimersAreBorn, SlotsHoldTheNewest,
                  TimersFindKilledProcesses, Live
    <2>3. QED
      BY <2>1, <2>2
  <1>2. QED
    BY InitIInv, <1>1, PTL DEF Spec

\* Every variable keeps its type, for any services and any bounds.
THEOREM TypeCorrect == Spec => []TypeOK
  BY Invariance, PTL DEF IInv

\* However exits, closes, kills and starts interleave, kill() only ever reaches
\* the newest process of the slot it is given (processManager.ts:177).
THEOREM SlotsAreConsistent == Spec => []SlotsHoldTheNewest
  BY Invariance, PTL DEF IInv

\* The hard-stop timer never sends SIGKILL (processManager.ts:185).
THEOREM HardStopIsDead == Spec => []TimersFindKilledProcesses
  BY Invariance, PTL DEF IInv

-----------------------------------------------------------------------------
(* Which processes are lost                                                *)

LEMMA RunSlots ==
  ASSUME NEW k \in Key, Run(k)
  PROVE  UNCHANGED <<slots, keyOf, status>> \/ Spawn(slots, status, k)
  BY DEF Run, SpawnThrows

\* What a request does to the slots is a spawn, or nothing.
LEMMA RequestSlots ==
  ASSUME Request
  PROVE  UNCHANGED <<slots, keyOf, status>> \/ \E k \in Key : Spawn(slots, status, k)
  <1>1. ASSUME NEW k, Kill(k) PROVE UNCHANGED <<slots, keyOf, status>>
    BY <1>1 DEF Kill
  <1>2. ASSUME NEW s \in Services
        PROVE  \A g \in Streams : <<s, g>> \in Key
    BY DEF Key
  <1>3. ASSUME NEW s \in Services, StartDev(s) \/ StartBuildWatch(s)
        PROVE  UNCHANGED <<slots, keyOf, status>> \/ \E k \in Key : Spawn(slots, status, k)
    BY RunSlots, <1>2, <1>3 DEF StartDev, StartBuildWatch, Streams
  <1>4. ASSUME NEW s \in Services, ComposeDown(s)
        PROVE  UNCHANGED <<slots, keyOf, status>> \/ \E k \in Key : Spawn(slots, status, k)
    BY <1>1, <1>2, <1>4 DEF ComposeDown, SpawnThrows, Streams
  <1>5. ASSUME NEW s \in Services, KillAll(s) PROVE UNCHANGED <<slots, keyOf, status>>
    BY <1>5 DEF KillAll
  <1>6. ASSUME RestartProxy PROVE UNCHANGED <<slots, keyOf, status>>
    BY <1>6 DEF RestartProxy
  <1>7. QED
    BY <1>1, <1>3, <1>4, <1>5, <1>6 DEF Request

\* What a step does to the slots is a spawn, an exit or a close, or nothing.
LEMMA SlotSteps ==
  ASSUME [Next]_slotVars
  PROVE  \/ UNCHANGED <<slots, keyOf, status>>
         \/ \E k \in Key : Spawn(slots, status, k)
         \/ \E c \in Child : Exit(c) \/ Close(c)
  <1>1. CASE Environment
    <2>1. ASSUME NEW c \in Child, HardStop(c) PROVE UNCHANGED <<slots, keyOf, status>>
      BY <2>1 DEF HardStop
    <2>2. ASSUME RestartTimer
          PROVE  UNCHANGED <<slots, keyOf, status>> \/ \E k \in Key : Spawn(slots, status, k)
      BY RunSlots, <2>2, ProxyKeyInKey DEF RestartTimer
    <2>3. QED
      BY <1>1, <2>1, <2>2 DEF Environment
  <1>2. CASE UNCHANGED slotVars
    BY <1>2 DEF slotVars
  <1>3. QED
    BY <1>1, <1>2, RequestSlots DEF Next

\* A spawn leaves the processes that have been born alone.
LEMMA SpawnLeaves ==
  ASSUME IInv, NEW tab, NEW st, Filed(tab, st), NEW k \in Key, Spawn(tab, st, k),
         NEW c \in Child, st[c] # "unborn"
  PROVE  status'[c] = st[c] /\ keyOf'[c] = keyOf[c] /\ c # spawned + 1
  <1>1. c # spawned + 1
    BY DEF IInv, TypeOK, Filed, Child
  <1>2. QED
    BY <1>1 DEF Spawn, IInv, TypeOK, Filed

LEMMA LossStep ==
  ASSUME IInv, OnlyOverlapLosesAProcess, [Next]_slotVars
  PROVE  OnlyOverlapLosesAProcess'
  <1>1. CASE UNCHANGED <<slots, keyOf, status>>
    BY <1>1 DEF OnlyOverlapLosesAProcess, Live
  <1>2. ASSUME NEW k \in Key, Spawn(slots, status, k) PROVE OnlyOverlapLosesAProcess'
    <2> DEFINE n == spawned + 1
    <2>1. /\ n \in Child
          /\ slots' = [slots EXCEPT ![k] = n]
          /\ keyOf' = [keyOf EXCEPT ![n] = k]
          /\ status' = [status EXCEPT ![n] = "running"]
      BY <1>2, BoundsAssumption DEF Spawn, IInv, TypeOK, Child
    <2>2. status[n] = "unborn" /\ \A c \in Child : status[c] # "unborn" => c < n
      BY <2>1, BoundsAssumption DEF IInv, BornInOrder, TypeOK, Child
    <2>3. /\ keyOf'[n] = k /\ status'[n] = "running" /\ slots'[k] = n
          /\ \A c \in Child \ {n} : keyOf'[c] = keyOf[c] /\ status'[c] = status[c]
          /\ \A j \in Key \ {k} : slots'[j] = slots[j]
      BY <2>1 DEF IInv, TypeOK
    <2>4. SUFFICES ASSUME NEW c \in Child \ {n}, Live(c), slots'[keyOf[c]] # c
                   PROVE  \E d \in Child \ {c} : /\ keyOf'[d] = keyOf[c] /\ status'[d] # "unborn"
                                                 /\ d < c => status'[d] = "closed"
      BY <2>3 DEF OnlyOverlapLosesAProcess, Live
    \* The newcomer is newer.
    <2>5. CASE keyOf[c] = k
      <3>1. c < n /\ c \in Nat /\ n \in Nat
        BY <2>1, <2>2, <2>4 DEF Live, Child
      <3>2. ~(n < c)
        BY <3>1
      <3>3. QED
        BY <2>1, <2>3, <2>5, <3>2
    <2>6. CASE keyOf[c] # k
      <3>1. slots[keyOf[c]] # c
        BY <2>3, <2>4, <2>6 DEF IInv, TypeOK
      <3>2. PICK d \in Child \ {c} : /\ keyOf[d] = keyOf[c] /\ status[d] # "unborn"
                                     /\ d < c => status[d] = "closed"
        BY <2>4, <3>1 DEF OnlyOverlapLosesAProcess
      <3>3. QED
        BY <2>2, <2>3, <3>2
    <2>7. QED
      BY <2>5, <2>6
  <1>3. ASSUME NEW x \in Child, Exit(x) PROVE OnlyOverlapLosesAProcess'
    <2>1. /\ status[x] = "running" /\ status' = [status EXCEPT ![x] = "exited"]
          /\ UNCHANGED <<slots, keyOf>>
      BY <1>3 DEF Exit
    <2>2. QED
      BY <2>1 DEF IInv, TypeOK, OnlyOverlapLosesAProcess, Live
  <1>4. ASSUME NEW x \in Child, Close(x) PROVE OnlyOverlapLosesAProcess'
    <2>1. /\ status[x] = "exited" /\ status' = [status EXCEPT ![x] = "closed"]
          /\ slots' = [slots EXCEPT ![keyOf[x]] = NoChild] /\ UNCHANGED keyOf
      BY <1>4 DEF Close, Freed
    <2>2. SUFFICES ASSUME NEW c \in Child \ {x}, Live(c), slots'[keyOf[c]] # c
                   PROVE  \E d \in Child \ {c} : /\ keyOf[d] = keyOf[c] /\ status'[d] # "unborn"
                                                 /\ d < c => status'[d] = "closed"
      BY <2>1 DEF IInv, TypeOK, OnlyOverlapLosesAProcess, Live
    <2>3. CASE slots[keyOf[c]] # c
      BY <2>1, <2>2, <2>3 DEF IInv, TypeOK, OnlyOverlapLosesAProcess
    \* The slot was c's: it is x whose close has emptied it.
    <2>4. CASE slots[keyOf[c]] = c
      <3>1. keyOf[x] = keyOf[c] /\ status'[x] = "closed"
        BY <2>1, <2>2, <2>4 DEF IInv, TypeOK
      <3>2. QED
        BY <2>2, <3>1
    <2>5. QED
      BY <2>3, <2>4
  <1>5. QED
    BY <1>1, <1>2, <1>3, <1>4, SlotSteps

\* A live process the slots do not show was replaced by a newer one of its slot, or
\* lost its entry to the late close of an older one (processManager.ts:158).
THEOREM OnlyTakeoversLose == Spec => []OnlyOverlapLosesAProcess
  <1>1. Init => OnlyOverlapLosesAProcess
    BY DEF Init, OnlyOverlapLosesAProcess, Live
  <1>2. Spec => []IInv
    BY Invariance
  <1>3. IInv /\ OnlyOverlapLosesAProcess /\ [Next]_slotVars => OnlyOverlapLosesAProcess'
    BY LossStep
  <1>4. QED
    BY <1>1, <1>2, <1>3, PTL DEF Spec

=============================================================================
