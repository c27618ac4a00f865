-------------------------- MODULE RepoPage_proofs --------------------------
(***************************************************************************)
(* Proofs about RepoPage: for any areas, any number of calls and whatever  *)
(* the commands do, what a check-in reports has reached the origin, and    *)
(* the page is busy only with a command that is filed.                     *)
(***************************************************************************)
EXTENDS RepoPage, ProcessSlots_proofs

CheckInOps == {"commitPush", "createPR"}
GitCmds    == {"add", "commit", "push", "pr"}
Cmds       == GitCmds \cup {"pull", "rebase", "install", "build", "test"}
Phases     == {"new", "looking", "bumping", "awaiting", "rejected", "settled", "over"}
Made       == {<< >>} \cup UNION {[as -> Nat] : as \in SUBSET Areas}
CallRecord == [phase : Phases, op : Ops, paths : SUBSET Areas, cmd : Cmds,
               child : Child \cup {NoChild}, code : {0, 1}, made : Made, mine : BOOLEAN]

RTypeOK ==
  /\ calls \in [Calls -> CallRecord]
  /\ code \in [Child -> {0, 1}]
  /\ ver  \in [Areas -> Nat] /\ idx    \in [Areas -> Nat]
  /\ head \in [Areas -> Nat] /\ origin \in [Areas -> Nat]
  /\ inbox \in Seq(BOOLEAN) /\ busy \in BOOLEAN /\ testsPassed \in BOOLEAN

\* No copy of an area is ahead of the one it is made from, so that a push never
\* takes the origin back.
InOrder == \A a \in Areas : origin[a] <= head[a] /\ head[a] <= idx[a] /\ idx[a] <= ver[a]

\* Every live process is awaited by the one call that spawned it.
Awaits(k) == calls[k].phase = "awaiting"
OneAwaitsIt ==
  /\ \A k \in Calls : Awaits(k) => calls[k].child \in Child /\ Live(calls[k].child)
  /\ \A j, k \in Calls : Awaits(j) /\ Awaits(k) /\ calls[j].child = calls[k].child => j = k
  /\ \A c \in Child : Live(c) => \E k \in Calls : Awaits(k) /\ calls[k].child = c

\* What a call knows when its command has ended, and may report in the end.
EndedWell(c) == status[c] = "exited" /\ code[c] = 0
Pushed(r)    == DOMAIN r.made # {} /\ \A a \in DOMAIN r.made : origin[a] >= r.made[a]
CallOK(r) ==
  /\ \A a \in DOMAIN r.made : a \in Areas /\ r.made[a] \in Nat /\ r.made[a] <= head[a]
  /\ r.phase = "looking" => r.op = "update"
  /\ r.phase = "bumping" => r.op \in CheckInOps
  /\ r.phase = "awaiting" => (r.op \in CheckInOps <=> r.cmd \in GitCmds)
  /\ r.phase = "awaiting" /\ r.cmd = "commit" /\ EndedWell(r.child) => DOMAIN r.made # {}
  /\ r.phase = "awaiting" /\ r.cmd = "push" => DOMAIN r.made # {}
  /\ r.phase = "awaiting" /\ r.cmd = "push" /\ EndedWell(r.child) => Pushed(r)
  /\ r.phase = "awaiting" /\ r.cmd = "pr" => Pushed(r)
  /\ r.phase \in {"settled", "over"} /\ r.code = 0 /\ r.op \in CheckInOps => Pushed(r)

\* What the page will show once its messages are read.
Pending == IF inbox = << >> THEN busy ELSE inbox[Len(inbox)]
PendingIsFiled == Pending => slots[RepoKey] # NoChild

RInv == /\ IInv /\ RTypeOK /\ InOrder /\ OneAwaitsIt
        /\ \A k \in Calls : CallOK(calls[k])
        /\ PendingIsFiled

-----------------------------------------------------------------------------
(* Messages                                                                *)

LEMMA Appended ==
  ASSUME NEW ms \in Seq(BOOLEAN), NEW b \in BOOLEAN
  PROVE  LET both == ms \o <<b>>
         IN both \in Seq(BOOLEAN) /\ both # << >> /\ both[Len(both)] = b
  <1>1. <<b>> \in Seq(BOOLEAN) /\ Len(<<b>>) = 1 /\ <<b>>[1] = b
    OBVIOUS
  <1>2. (ms \o <<b>>) \in Seq(BOOLEAN) /\ Len(ms \o <<b>>) = Len(ms) + 1
    BY <1>1
  <1>3. (ms \o <<b>>)[Len(ms) + 1] = b
    BY <1>1
  <1>4. QED
    BY <1>2, <1>3

LEMMA TailKeepsLast ==
  ASSUME NEW ms \in Seq(BOOLEAN), ms # << >>
  PROVE  /\ Head(ms) \in BOOLEAN /\ Tail(ms) \in Seq(BOOLEAN)
         /\ Tail(ms) = << >> => ms[Len(ms)] = Head(ms)
         /\ Tail(ms) # << >> => Tail(ms)[Len(Tail(ms))] = ms[Len(ms)]
  <1>1. /\ Len(ms) \in Nat /\ Len(ms) >= 1 /\ Head(ms) = ms[1] /\ ms[1] \in BOOLEAN
        /\ Tail(ms) \in Seq(BOOLEAN) /\ Len(Tail(ms)) = Len(ms) - 1
    OBVIOUS
  <1>2. \A i \in 1..(Len(ms) - 1) : Tail(ms)[i] = ms[i + 1]
    OBVIOUS
  <1>3. Tail(ms) = << >> => Len(ms) = 1
    <2>1. Len(<< >>) = 0
      OBVIOUS
    <2>2. Tail(ms) = << >> => Len(Tail(ms)) = 0
      BY <2>1
    <2>3. QED
      BY <1>1, <2>2
  <1>4. Tail(ms) # << >> => Len(ms) - 1 \in 1..(Len(ms) - 1)
    <2>1. Tail(ms) # << >> => Len(Tail(ms)) # 0
      BY <1>1
    <2>2. QED
      BY <1>1, <2>1
  <1>5. QED
    BY <1>1, <1>2, <1>3, <1>4

\* What is pending after the messages ms.
Last(ms, b) == IF ms = << >> THEN b ELSE ms[Len(ms)]

-----------------------------------------------------------------------------
(* One call goes on                                                        *)

LEMMA NewCallIsRecord == NewCall \in CallRecord
  BY DEF NewCall, CallRecord, Phases, Ops, Cmds, GitCmds, Made, NoChild

LEMMA RepoKeyInKey == RepoKey \in Key
  BY RepoAssumption DEF RepoKey, Key, Streams

\* HEAD and the origin never go back.
GoesForward ==
  /\ head' \in [Areas -> Nat] /\ origin' \in [Areas -> Nat]
  /\ \A a \in Areas : head[a] <= head'[a] /\ origin[a] <= origin'[a]

LEMMA StandsStill ==
  ASSUME RTypeOK, UNCHANGED <<head, origin>>
  PROVE  GoesForward
  BY DEF RTypeOK, GoesForward

\* The other calls wait on; the call k goes on to z, and waits for a process of its
\* own or for none.
CallMoves(k, z) ==
  /\ calls' = [calls EXCEPT ![k] = z]
  /\ GoesForward
  /\ \A j \in Calls \ {k} : Awaits(j) =>
       /\ status'[calls[j].child] = status[calls[j].child]
       /\ code'[calls[j].child] = code[calls[j].child]
  /\ z.phase = "awaiting" => /\ z.child \in Child /\ status'[z.child] \in {"running", "exited"}
                             /\ \A j \in Calls \ {k} : Awaits(j) => calls[j].child # z.child
  /\ \A c \in Child : status'[c] \in {"running", "exited"} =>
       \/ z.phase = "awaiting" /\ z.child = c
       \/ \E j \in Calls \ {k} : Awaits(j) /\ calls[j].child = c

\* A call stays as it should be while the origin and HEAD go forward and its
\* command does not end.
LEMMA StaysOK ==
  ASSUME RTypeOK, NEW r \in CallRecord, CallOK(r), GoesForward,
         r.phase = "awaiting" /\ EndedWell(r.child)' => EndedWell(r.child)
  PROVE  CallOK(r)'
  <1>1. \A a \in DOMAIN r.made : /\ a \in Areas /\ r.made[a] \in Nat /\ r.made[a] <= head'[a]
                                 /\ r.made[a] <= origin[a] => r.made[a] <= origin'[a]
    BY DEF CallOK, RTypeOK, GoesForward
  <1>2. Pushed(r) => Pushed(r)'
    BY <1>1 DEF Pushed, CallOK, RTypeOK, GoesForward
  <1>3. QED
    BY <1>1, <1>2 DEF CallOK

LEMMA MoveKeepsCalls ==
  ASSUME RInv, NEW k \in Calls, NEW z \in CallRecord, CallMoves(k, z), CallOK(z)'
  PROVE  /\ calls' \in [Calls -> CallRecord] /\ OneAwaitsIt'
         /\ \A j \in Calls : CallOK(calls[j])'
  <1>1. /\ calls' \in [Calls -> CallRecord] /\ calls'[k] = z
        /\ \A j \in Calls \ {k} : calls'[j] = calls[j] /\ calls[j] \in CallRecord
    BY DEF RInv, RTypeOK, CallMoves
  <1>2. ASSUME NEW j \in Calls, calls'[j].phase = "awaiting"
        PROVE  calls'[j].child \in Child /\ status'[calls'[j].child] \in {"running", "exited"}
    <2>1. CASE j = k
      BY <1>1, <1>2, <2>1 DEF CallMoves
    <2>2. CASE j # k
      BY <1>1, <1>2, <2>2 DEF CallMoves, RInv, OneAwaitsIt, Awaits, Live
    <2>3. QED
      BY <2>1, <2>2
  <1>3. ASSUME NEW i \in Calls, NEW j \in Calls, calls'[i].phase = "awaiting",
               calls'[j].phase = "awaiting", calls'[i].child = calls'[j].child
        PROVE  i = j
    BY <1>1, <1>3 DEF CallMoves, RInv, OneAwaitsIt, Awaits
  <1>4. ASSUME NEW c \in Child, status'[c] \in {"running", "exited"}
        PROVE  \E j \in Calls : calls'[j].phase = "awaiting" /\ calls'[j].child = c
    BY <1>1, <1>4 DEF CallMoves, Awaits
  <1>5. OneAwaitsIt'
    BY <1>2, <1>3, <1>4 DEF OneAwaitsIt, Awaits, Live
  <1>6. ASSUME NEW j \in Calls PROVE CallOK(calls[j])'
    <2>1. CASE j = k
      BY <1>1, <2>1
    <2>2. CASE j # k
      <3>1. PICK r \in CallRecord : r = calls[j]
        BY <1>1, <2>2
      <3>2. CallOK(r)
        BY <3>1 DEF RInv
      <3>3. r.phase = "awaiting" /\ EndedWell(r.child)' => EndedWell(r.child)
        BY <2>2, <3>1 DEF CallMoves, EndedWell, Awaits
      <3>4. CallOK(r)'
        BY <3>2, <3>3, StaysOK DEF RInv, CallMoves
      <3>5. calls'[j] = r
        BY <1>1, <2>2, <3>1
      <3>6. QED
        BY <3>4, <3>5
    <2>3. QED
      BY <2>1, <2>2
  <1>7. QED
    BY <1>1, <1>5, <1>6

-----------------------------------------------------------------------------
(* run() in the slot of the page                                           *)

\* How run() leaves the call: it awaits the process that was spawned, or its promise
\* was rejected.
Leads(r, cmd, st, msgs, z) ==
  /\ z.op = r.op /\ z.cmd = cmd /\ z.made = r.made /\ z.code = r.code
  /\ \/ /\ z.phase = "awaiting" /\ z.child = spawned + 1 /\ z.child \in Child
        /\ st[z.child] = "unborn"
        /\ status' = [st EXCEPT ![z.child] = "running"]
        /\ inbox' = msgs \o <<TRUE>> /\ slots'[RepoKey] # NoChild
     \/ /\ z.phase = "rejected" /\ status' = st /\ inbox' = msgs

LEMMA ExecMoves ==
  ASSUME IInv, NEW k \in Calls, NEW r \in CallRecord, NEW cmd \in Cmds,
         NEW tab, NEW st, NEW msgs, Filed(tab, st),
         Exec(k, r, cmd, tab, st, msgs), UNCHANGED <<doomed, restarts>>
  PROVE  /\ IInv'
         /\ \E z \in CallRecord :
              /\ calls' = [calls EXCEPT ![k] = z] /\ Leads(r, cmd, st, msgs, z)
              /\ z.phase = "rejected" => slots' = tab
  <1>1. restarts' \in Nat
    BY DEF IInv, TypeOK
  <1>2. CASE /\ Stop(tab, {RepoKey}) /\ Spawn(tab, st, RepoKey)
             /\ calls' = [calls EXCEPT ![k] =
                  [r EXCEPT !.phase = "awaiting", !.cmd = cmd, !.child = spawned']]
             /\ inbox' = msgs \o <<TRUE>>
    <2> DEFINE z == [r EXCEPT !.phase = "awaiting", !.cmd = cmd, !.child = spawned']
    <2>1. IInv'
      BY <1>1, <1>2, RepoKeyInKey, SpawnStep
    <2>2. /\ spawned' = spawned + 1 /\ spawned' \in Child /\ spawned' # NoChild
          /\ status' = [st EXCEPT ![spawned'] = "running"]
          /\ slots' = [tab EXCEPT ![RepoKey] = spawned']
      BY <1>2, BoundsAssumption DEF Spawn, IInv, TypeOK, Child, NoChild
    <2>3. st[spawned'] = "unborn"
      BY <2>2, BoundsAssumption DEF Filed, IInv, TypeOK
    <2>4. slots'[RepoKey] # NoChild
      BY <2>2, RepoKeyInKey DEF Filed
    <2>5. /\ z \in CallRecord /\ z.phase = "awaiting" /\ z.child = spawned'
          /\ z.op = r.op /\ z.cmd = cmd /\ z.made = r.made /\ z.code = r.code
      BY <2>2 DEF CallRecord, Phases
    <2>6. Leads(r, cmd, st, msgs, z)
      BY <1>2, <2>2, <2>3, <2>4, <2>5 DEF Leads
    <2>7. QED
      BY <1>2, <2>1, <2>5, <2>6
  <1>3. CASE /\ Stop(tab, {RepoKey}) /\ SpawnThrows(tab, st)
             /\ calls' = [calls EXCEPT ![k] =
                  [r EXCEPT !.phase = "rejected", !.cmd = cmd, !.child = NoChild]]
             /\ inbox' = msgs
    <2> DEFINE z == [r EXCEPT !.phase = "rejected", !.cmd = cmd, !.child = NoChild]
    <2>1. IInv' /\ slots' = tab /\ status' = st
      BY <1>1, <1>3, RepoKeyInKey, StopStep DEF SpawnThrows
    <2>2. /\ z \in CallRecord /\ z.phase = "rejected"
          /\ z.op = r.op /\ z.cmd = cmd /\ z.made = r.made /\ z.code = r.code
      BY DEF CallRecord, Phases
    <2>3. Leads(r, cmd, st, msgs, z)
      BY <1>3, <2>1, <2>2 DEF Leads
    <2>4. QED
      BY <1>3, <2>1, <2>2, <2>3
  <1>4. QED
    BY <1>2, <1>3 DEF Exec

\* What the call must have done before it runs cmd, and what must be so of the others.
Ready(k, r, cmd, st) ==
  /\ \A a \in DOMAIN r.made : a \in Areas /\ r.made[a] \in Nat /\ r.made[a] <= head[a]
  /\ r.op \in CheckInOps <=> cmd \in GitCmds
  /\ cmd = "push" => DOMAIN r.made # {}
  /\ cmd = "pr" => Pushed(r)
  /\ \A j \in Calls \ {k} : Awaits(j) => st[calls[j].child] = status[calls[j].child]
  /\ \A c \in Child : st[c] \in {"running", "exited"} =>
       \E j \in Calls \ {k} : Awaits(j) /\ calls[j].child = c

LEMMA ExecKeeps ==
  ASSUME RInv, NEW k \in Calls, NEW r \in CallRecord, NEW cmd \in Cmds,
         NEW tab, NEW st, Filed(tab, st), NEW msgs \in Seq(BOOLEAN),
         Last(msgs, busy) => tab[RepoKey] # NoChild, Ready(k, r, cmd, st),
         Exec(k, r, cmd, tab, st, msgs),
         UNCHANGED <<doomed, restarts, code, head, origin, busy>>
  PROVE  /\ IInv' /\ calls' \in [Calls -> CallRecord] /\ inbox' \in Seq(BOOLEAN)
         /\ OneAwaitsIt' /\ \A j \in Calls : CallOK(calls[j])'
         /\ PendingIsFiled'
  <1>1. IInv' /\ \E z \in CallRecord : /\ calls' = [calls EXCEPT ![k] = z]
                                       /\ Leads(r, cmd, st, msgs, z)
                                       /\ z.phase = "rejected" => slots' = tab
    BY ExecMoves DEF RInv
  <1>2. PICK z \in CallRecord : /\ calls' = [calls EXCEPT ![k] = z]
                                /\ Leads(r, cmd, st, msgs, z)
                                /\ z.phase = "rejected" => slots' = tab
    BY <1>1
  <1>3. z.phase \in {"awaiting", "rejected"} /\ z.op = r.op /\ z.cmd = cmd /\ z.made = r.made
    BY <1>2 DEF Leads
  <1>4. \A c \in Child : st[c] # "unborn" =>
          status'[c] = st[c] /\ ~(z.phase = "awaiting" /\ z.child = c)
    BY <1>2 DEF Leads, Filed
  <1>5. \A j \in Calls \ {k} : Awaits(j) =>
          /\ calls[j].child \in Child /\ st[calls[j].child] # "unborn"
          /\ st[calls[j].child] = status[calls[j].child]
    BY DEF Ready, RInv, OneAwaitsIt, Live
  <1>6. CallMoves(k, z)
    <2>1. z.phase = "awaiting" => z.child \in Child /\ status'[z.child] = "running"
      BY <1>2 DEF Leads, Filed
    <2>2. \A c \in Child : status'[c] \in {"running", "exited"} =>
            (z.phase = "awaiting" /\ z.child = c) \/ st[c] \in {"running", "exited"}
      BY <1>2 DEF Leads, Filed
    <2>3. QED
      BY <1>2, <1>4, <1>5, <2>1, <2>2, StandsStill DEF CallMoves, Ready, RInv
  <1>7. CallOK(z)'
    <2>1. ~(z.phase = "awaiting" /\ EndedWell(z.child)')
      BY <1>2 DEF Leads, Filed, EndedWell
    <2>2. Pushed(z)' <=> Pushed(r)
      BY <1>3 DEF Pushed
    <2>3. /\ \A a \in DOMAIN z.made : a \in Areas /\ z.made[a] \in Nat /\ z.made[a] <= head'[a]
          /\ z.op \in CheckInOps <=> z.cmd \in GitCmds
          /\ z.cmd = "push" => DOMAIN z.made # {}
          /\ z.cmd = "pr" => Pushed(z)'
      BY <1>3, <2>2 DEF Ready
    <2>4. QED
      BY ONLY <1>3, <2>1, <2>3 DEF CallOK
  <1>8. inbox' \in Seq(BOOLEAN) /\ PendingIsFiled'
    <2>1. CASE z.phase = "awaiting"
      BY <1>2, <2>1, Appended DEF Leads, PendingIsFiled
    <2>2. CASE z.phase = "rejected"
      BY <1>2, <2>2 DEF Leads, PendingIsFiled, Pending, Last
    <2>3. QED
      BY <1>3, <2>1, <2>2
  <1>9. QED
    BY <1>1, <1>6, <1>7, <1>8, MoveKeepsCalls

-----------------------------------------------------------------------------
(* The steps                                                               *)

LEMMA InitRInv == RInit => RInv
  <1> SUFFICES ASSUME RInit PROVE RInv
    OBVIOUS
  <1>1. IInv
    BY InitIInv DEF RInit
  <1>2. RTypeOK
    <2>1. << >> \in Seq(BOOLEAN)
      OBVIOUS
    <2>2. calls \in [Calls -> CallRecord] /\ code \in [Child -> {0, 1}]
      BY NewCallIsRecord DEF RInit
    <2>3. QED
      BY <2>1, <2>2 DEF RInit, RTypeOK
  <1>3. InOrder
    BY DEF RInit, InOrder
  <1>4. OneAwaitsIt
    BY DEF RInit, Init, NewCall, OneAwaitsIt, Awaits, Live
  <1>5. \A k \in Calls : CallOK(calls[k])
    <2>1. DOMAIN << >> = {}
      OBVIOUS
    <2>2. QED
      BY <2>1 DEF RInit, NewCall, CallOK, CheckInOps, GitCmds
  <1>6. PendingIsFiled
    BY DEF RInit, PendingIsFiled, Pending
  <1>7. QED
    BY <1>1, <1>2, <1>3, <1>4, <1>5, <1>6 DEF RInv

\* A call whose turn has not come awaits nothing: every live process is another's.
LEMMA OthersAwait ==
  ASSUME RInv, NEW k \in Calls, ~Awaits(k)
  PROVE  /\ \A c \in Child : status[c] \in {"running", "exited"} =>
              \E j \in Calls \ {k} : Awaits(j) /\ calls[j].child = c
         /\ Last(inbox, busy) => slots[RepoKey] # NoChild
         /\ Filed(slots, status) /\ inbox \in Seq(BOOLEAN)
  <1>1. Filed(slots, status)
    BY StateIsFiled DEF RInv
  <1>2. QED
    BY <1>1 DEF RInv, RTypeOK, OneAwaitsIt, Live, PendingIsFiled, Pending, Last

\* SetDepVersions() puts the working tree ahead.
LEMMA EditsKeepOrder ==
  ASSUME RInv, NEW as \in SUBSET Areas, SetDepVersions(as), UNCHANGED <<idx, head, origin>>
  PROVE  ver' \in [Areas -> Nat] /\ InOrder'
  <1>1. /\ ver \in [Areas -> Nat] /\ idx \in [Areas -> Nat]
        /\ ver' = [a \in Areas |-> IF a \in as THEN ver[a] + 1 ELSE ver[a]]
    BY DEF RInv, RTypeOK, SetDepVersions
  <1>2. ASSUME NEW a \in Areas
        PROVE  /\ ver[a] \in Nat /\ idx[a] \in Nat /\ ver'[a] \in Nat
               /\ ver[a] <= ver'[a]
    <2>1. ver'[a] = IF a \in as THEN ver[a] + 1 ELSE ver[a]
      BY <1>1
    <2>2. ver[a] \in Nat /\ idx[a] \in Nat
      BY <1>1
    <2>3. ver'[a] = ver[a] + 1 \/ ver'[a] = ver[a]
      BY <2>1
    <2>4. QED
      BY ONLY <2>2, <2>3
  <1>3. ver' \in [Areas -> Nat]
    BY <1>1, <1>2
  <1>4. QED
    BY <1>2, <1>3 DEF InOrder, RInv

LEMMA UpdateKeeps ==
  ASSUME RInv, NEW k \in Calls, NEW as \in SUBSET Areas, Update(k, as)
  PROVE  RInv'
  <1>1. PICK r \in CallRecord : r = calls[k]
    BY DEF RInv, RTypeOK
  <1>2. r.phase = "looking" /\ CallOK(r) /\ ~Awaits(k)
    BY <1>1 DEF Update, RInv, Awaits
  <1>3. Exec(k, r, "install", slots, status, inbox)
    BY <1>1 DEF Update, Exec
  <1>4. UNCHANGED <<doomed, restarts, code, idx, head, origin, busy, testsPassed>>
    BY DEF Update
  <1>5. Ready(k, r, "install", status)
    BY <1>2, OthersAwait DEF Ready, CallOK, CheckInOps, GitCmds
  <1>6. "install" \in Cmds
    BY DEF Cmds
  <1>7. /\ IInv' /\ calls' \in [Calls -> CallRecord] /\ inbox' \in Seq(BOOLEAN)
        /\ OneAwaitsIt' /\ \A j \in Calls : CallOK(calls[j])' /\ PendingIsFiled'
    BY <1>2, <1>3, <1>4, <1>5, <1>6, OthersAwait, ExecKeeps
  <1>8. ver' \in [Areas -> Nat] /\ InOrder'
    BY <1>4, EditsKeepOrder DEF Update
  <1>9. QED
    BY <1>4, <1>7, <1>8 DEF RInv, RTypeOK

LEMMA BumpKeeps ==
  ASSUME RInv, NEW k \in Calls, BumpAndAdd(k)
  PROVE  RInv'
  <1>1. PICK r \in CallRecord : r = calls[k]
    BY DEF RInv, RTypeOK
  <1>2. r.phase = "bumping" /\ CallOK(r) /\ ~Awaits(k) /\ r.paths \in SUBSET Areas
    BY <1>1 DEF BumpAndAdd, RInv, Awaits, CallRecord
  <1>3. Exec(k, r, "add", slots, status, inbox) /\ SetDepVersions(r.paths)
    BY <1>1 DEF BumpAndAdd, Exec
  <1>4. UNCHANGED <<doomed, restarts, code, idx, head, origin, busy, testsPassed>>
    BY DEF BumpAndAdd
  <1>5. Ready(k, r, "add", status)
    BY <1>2, OthersAwait DEF Ready, CallOK, CheckInOps, GitCmds
  <1>6. "add" \in Cmds
    BY DEF Cmds, GitCmds
  <1>7. /\ IInv' /\ calls' \in [Calls -> CallRecord] /\ inbox' \in Seq(BOOLEAN)
        /\ OneAwaitsIt' /\ \A j \in Calls : CallOK(calls[j])' /\ PendingIsFiled'
    BY <1>2, <1>3, <1>4, <1>5, <1>6, OthersAwait, ExecKeeps
  <1>8. ver' \in [Areas -> Nat] /\ InOrder'
    BY <1>2, <1>3, <1>4, EditsKeepOrder
  <1>9. QED
    BY <1>4, <1>7, <1>8 DEF RInv, RTypeOK

\* A call moves on without a process, and no process does.
LEMMA QuietKeeps ==
  ASSUME RInv, NEW k \in Calls, NEW z \in CallRecord, calls' = [calls EXCEPT ![k] = z],
         ~Awaits(k), z.phase # "awaiting", testsPassed' \in BOOLEAN, CallOK(z),
         UNCHANGED <<slotVars, code, gitVars, inbox, busy>>
  PROVE  RInv'
  <1>1. IInv' /\ InOrder' /\ PendingIsFiled'
    BY DEF RInv, slotVars, gitVars, IInv, TypeOK, BornInOrder, TimersAreBorn, SlotsHoldTheNewest,
       TimersFindKilledProcesses, Live, InOrder, PendingIsFiled, Pending
  <1>2. CallMoves(k, z)
    BY OthersAwait, StandsStill DEF CallMoves, slotVars, gitVars, RInv
  <1>3. CallOK(z)'
    BY DEF CallOK, EndedWell, Pushed, slotVars, gitVars
  <1>4. QED
    BY <1>1, <1>2, <1>3, MoveKeepsCalls DEF RInv, RTypeOK, gitVars

LEMMA SyncKeeps ==
  ASSUME RInv, NEW k \in Calls, NothingToSync(k)
  PROVE  RInv'
  <1>1. PICK r \in CallRecord : r = calls[k]
    BY DEF RInv, RTypeOK
  <1>2. r.phase = "looking" /\ CallOK(r) /\ ~Awaits(k)
    BY <1>1 DEF NothingToSync, RInv, Awaits
  <1> DEFINE z == [r EXCEPT !.phase = "settled", !.code = 0]
  <1>3. /\ z \in CallRecord /\ z.phase = "settled" /\ z.op = r.op /\ z.made = r.made
    BY DEF CallRecord, Phases
  <1>4. calls' = [calls EXCEPT ![k] = z]
    BY <1>1 DEF NothingToSync, RInv, RTypeOK
  <1>5. CallOK(z)
    BY <1>2, <1>3 DEF CallOK, CheckInOps
  <1>6. QED
    BY <1>2, <1>3, <1>4, <1>5, QuietKeeps DEF NothingToSync, pageVars, RInv, RTypeOK

LEMMA ReplyKeeps ==
  ASSUME RInv, NEW k \in Calls, Reply(k)
  PROVE  RInv'
  <1>1. PICK r \in CallRecord : r = calls[k]
    BY DEF RInv, RTypeOK
  <1>2. r.phase = "settled" /\ CallOK(r) /\ ~Awaits(k)
    BY <1>1 DEF Reply, RInv, Awaits
  <1> DEFINE z == [r EXCEPT !.phase = "over"]
  <1>3. z \in CallRecord /\ z.phase = "over" /\ z.op = r.op /\ z.made = r.made /\ z.code = r.code
    BY DEF CallRecord, Phases
  <1>4. calls' = [calls EXCEPT ![k] = z]
    BY <1>1 DEF Reply, RInv, RTypeOK
  <1>5. CallOK(z)
    BY <1>2, <1>3 DEF CallOK, Pushed
  <1>6. testsPassed' \in BOOLEAN
    BY DEF Reply, RInv, RTypeOK
  <1>7. QED
    BY <1>2, <1>3, <1>4, <1>5, <1>6, QuietKeeps DEF Reply

\* A process closes: its call runs the next command, or reports how the last ended.
LEMMA ClosedKeeps ==
  ASSUME RInv, NEW k \in Calls, Closed(k)
  PROVE  RInv'
  <1>1. PICK r \in CallRecord : r = calls[k]
    BY DEF RInv, RTypeOK
  <1>2. /\ r.phase = "awaiting" /\ CallOK(r) /\ Awaits(k) /\ r.child \in Child
        /\ status[r.child] = "exited"
    BY <1>1 DEF Closed, RInv, OneAwaitsIt, Awaits
  <1> DEFINE c   == r.child
             ok  == code[c] = 0
             cmd == NextCmd(r, ok)
             tab == Freed(c)
             st  == [status EXCEPT ![c] = "closed"]
  <1>3. PICK msgs : msgs = inbox \o <<FALSE>>
    OBVIOUS
  <1>4. msgs \in Seq(BOOLEAN) /\ ~Last(msgs, busy)
    BY <1>3, Appended DEF RInv, RTypeOK, Last
  <1>5. /\ Filed(tab, st)
        /\ \A d \in Child : d # c => st[d] = status[d]
        /\ st[c] = "closed"
    BY <1>2, ClosedIsFiled DEF RInv, IInv, TypeOK
  <1>6. UNCHANGED <<doomed, restarts, code, ver, idx, head, origin, busy, testsPassed>>
    BY DEF Closed, gitVars
  <1>7. InOrder'
    BY <1>6 DEF InOrder, RInv
  <1>8. /\ \A j \in Calls \ {k} : Awaits(j) => /\ calls[j].child \in Child
                                               /\ st[calls[j].child] = status[calls[j].child]
        /\ \A d \in Child : st[d] \in {"running", "exited"} =>
             \E j \in Calls \ {k} : Awaits(j) /\ calls[j].child = d
    BY <1>1, <1>2, <1>5 DEF RInv, OneAwaitsIt, Live
  <1>9. EndedWell(c) <=> ok
    BY <1>2 DEF EndedWell
  <1>10. CASE cmd # "none" /\ Exec(k, r, cmd, tab, st, msgs)
    <2>1. cmd \in Cmds /\ (r.op \in CheckInOps <=> cmd \in GitCmds)
      BY <1>2, <1>10 DEF NextCmd, Cmds, GitCmds, CallOK, CheckInOps, CallRecord
    <2>2. (cmd = "push" => r.cmd = "commit" /\ ok) /\ (cmd = "pr" => r.cmd = "push" /\ ok)
      BY <1>10 DEF NextCmd
    <2>3. Ready(k, r, cmd, st)
      BY <1>2, <1>8, <1>9, <2>1, <2>2 DEF Ready, CallOK
    <2> HIDE DEF cmd, tab, st
    <2>4. /\ IInv' /\ calls' \in [Calls -> CallRecord] /\ inbox' \in Seq(BOOLEAN)
          /\ OneAwaitsIt' /\ \A j \in Calls : CallOK(calls[j])' /\ PendingIsFiled'
      BY <1>4, <1>5, <1>6, <1>10, <2>1, <2>3, ExecKeeps
    <2>5. QED
      BY <1>6, <1>7, <2>4 DEF RInv, RTypeOK
  <1>11. CASE /\ cmd = "none" /\ slots' = tab /\ status' = st
              /\ calls' = [calls EXCEPT ![k].phase = "settled", ![k].child = NoChild,
                                        ![k].code = IF ok THEN 0 ELSE 1]
              /\ inbox' = msgs /\ UNCHANGED <<spawned, keyOf, killed, timers>>
    <2>1. PICK z \in CallRecord :
            /\ z = [r EXCEPT !.phase = "settled", !.child = NoChild, !.code = IF ok THEN 0 ELSE 1]
            /\ z.phase = "settled" /\ z.op = r.op /\ z.made = r.made
            /\ z.code = IF ok THEN 0 ELSE 1
      <3> DEFINE y == [r EXCEPT !.phase = "settled", !.child = NoChild, !.code = IF ok THEN 0 ELSE 1]
      <3>1. /\ y \in CallRecord /\ y.phase = "settled" /\ y.op = r.op /\ y.made = r.made
            /\ y.code = IF ok THEN 0 ELSE 1
        BY DEF CallRecord, Phases
      <3>2. QED
        BY <3>1
    <2>2. calls' = [calls EXCEPT ![k] = z]
      BY <1>1, <1>11, <2>1 DEF RInv, RTypeOK
    <2>3. restarts' \in Nat
      BY <1>6 DEF RInv, IInv, TypeOK
    <2>4. IInv'
      BY <1>5, <1>6, <1>11, <2>3, FiledStep DEF RInv
    <2>5. CallMoves(k, z)
      BY <1>6, <1>8, <1>11, <2>1, <2>2, StandsStill DEF CallMoves, RInv
    <2>6. z.code = 0 /\ z.op \in CheckInOps => Pushed(r)
      <3>1. ASSUME ok, r.op \in CheckInOps PROVE r.cmd \in {"push", "pr"}
        BY <1>2, <1>11, <3>1 DEF NextCmd, CallOK, GitCmds
      <3>2. QED
        BY <1>2, <1>9, <2>1, <3>1 DEF CallOK
    <2>7. Pushed(z)' <=> Pushed(r)
      BY <1>6, <2>1 DEF Pushed
    <2>8. \A a \in DOMAIN z.made : a \in Areas /\ z.made[a] \in Nat /\ z.made[a] <= head'[a]
      BY <1>2, <1>6, <2>1 DEF CallOK
    <2>9. CallOK(z)'
      BY ONLY <2>1, <2>6, <2>7, <2>8 DEF CallOK
    <2>10. inbox' \in Seq(BOOLEAN) /\ PendingIsFiled'
      BY <1>4, <1>6, <1>11 DEF PendingIsFiled, Pending, Last
    <2>11. /\ calls' \in [Calls -> CallRecord] /\ OneAwaitsIt'
           /\ \A j \in Calls : CallOK(calls[j])'
      BY <2>1, <2>5, <2>9, MoveKeepsCalls
    <2>12. QED
      BY <1>6, <1>7, <2>4, <2>10, <2>11 DEF RInv, RTypeOK
  <1>12. QED
    BY <1>1, <1>3, <1>10, <1>11 DEF Closed

\* A button: the call runs its first command, or asks the registry or for a bump.
LEMMA ClickKeeps ==
  ASSUME RInv, NEW k \in Calls, NEW op \in Ops, Click(k, op)
  PROVE  RInv'
  <1> DEFINE r == [NewCall EXCEPT !.op = op]
  <1>1. /\ r \in CallRecord /\ r.op = op /\ DOMAIN r.made = {}
    <2>1. DOMAIN << >> = {}
      OBVIOUS
    <2>2. r \in CallRecord /\ r.op = op /\ r.made = << >>
      BY NewCallIsRecord DEF NewCall, CallRecord
    <2>3. QED
      BY <2>1, <2>2
  <1>2. ~Awaits(k)
    BY DEF Click, Awaits
  <1>3. UNCHANGED <<doomed, restarts, code, ver, idx, head, origin, busy>>
    BY DEF Click, gitVars
  <1>4. testsPassed' \in BOOLEAN /\ InOrder'
    BY <1>3 DEF Click, RInv, RTypeOK, InOrder
  <1>5. CASE op \in {"pull", "reinstall", "test"} /\ Exec(k, r, FirstCmd(op), slots, status, inbox)
    <2>1. FirstCmd(op) \in Cmds \ GitCmds /\ op \notin CheckInOps
      BY <1>5 DEF FirstCmd, Cmds, GitCmds, CheckInOps
    <2>2. Ready(k, r, FirstCmd(op), status)
      BY <1>1, <1>2, <2>1, OthersAwait DEF Ready, GitCmds
    <2> HIDE DEF r
    <2>3. /\ IInv' /\ calls' \in [Calls -> CallRecord] /\ inbox' \in Seq(BOOLEAN)
          /\ OneAwaitsIt' /\ \A j \in Calls : CallOK(calls[j])' /\ PendingIsFiled'
      BY <1>1, <1>2, <1>3, <1>5, <2>1, <2>2, OthersAwait, ExecKeeps
    <2>4. QED
      BY <1>3, <1>4, <2>3 DEF RInv, RTypeOK
  <1>6. CASE op = "update" /\ calls' = [calls EXCEPT ![k] = [r EXCEPT !.phase = "looking"]]
    <2> DEFINE z == [r EXCEPT !.phase = "looking"]
    <2>1. z \in CallRecord /\ z.phase = "looking" /\ z.op = op /\ DOMAIN z.made = {}
      BY <1>1 DEF CallRecord, Phases
    <2>2. CallOK(z)
      BY <1>6, <2>1 DEF CallOK
    <2>3. UNCHANGED <<slotVars, code, gitVars, inbox, busy>>
      BY <1>3, <1>6 DEF Click, slotVars, gitVars
    <2> HIDE DEF z
    <2>4. QED
      BY <1>2, <1>4, <1>6, <2>1, <2>2, <2>3, QuietKeeps DEF z
  <1>7. ASSUME op \in CheckInOps, NEW checked \in SUBSET Areas,
               calls' = [calls EXCEPT ![k] = [r EXCEPT !.phase = "bumping", !.paths = checked]]
        PROVE  RInv'
    <2> DEFINE z == [r EXCEPT !.phase = "bumping", !.paths = checked]
    <2>1. z \in CallRecord /\ z.phase = "bumping" /\ z.op = op /\ DOMAIN z.made = {}
      BY <1>1 DEF CallRecord, Phases
    <2>2. CallOK(z)
      BY <1>7, <2>1 DEF CallOK
    <2>3. UNCHANGED <<slotVars, code, gitVars, inbox, busy>>
      BY <1>3, <1>7 DEF Click, slotVars, gitVars, CheckInOps
    <2> HIDE DEF z
    <2>4. QED
      BY <1>2, <1>4, <1>7, <2>1, <2>2, <2>3, QuietKeeps DEF z
  <1>8. QED
    BY <1>5, <1>6, <1>7 DEF Click, CheckInOps

-----------------------------------------------------------------------------
(* The commands                                                            *)

\* The process that ends is the one its call awaits, so CHOOSE finds that call.
LEMMA CallerAwaits ==
  ASSUME RInv, NEW c \in Child, status[c] = "running"
  PROVE  Caller(c) \in Calls /\ Awaits(Caller(c)) /\ calls[Caller(c)].child = c
  <1>1. \E k \in Calls : calls[k].child = c /\ calls[k].phase = "awaiting"
    BY DEF RInv, OneAwaitsIt, Live, Awaits
  <1>2. QED
    BY <1>1 DEF Caller, Awaits

\* The four copies after the step are the four copies of a repository.
GitOK == /\ ver' \in [Areas -> Nat] /\ idx' \in [Areas -> Nat] /\ InOrder' /\ GoesForward

\* A command that works leaves the copies in order, and the call that ran it with what
\* a command of its kind has brought about.
LEMMA WorksWell ==
  ASSUME RInv, NEW k \in Calls, NEW r \in CallRecord, r = calls[k], Works(k)
  PROVE  /\ GitOK
         /\ \E m \in Made :
              /\ calls' = [calls EXCEPT ![k] = [r EXCEPT !.made = m]]
              /\ \/ m = r.made /\ r.cmd # "commit"
                 \/ /\ r.cmd = "commit" /\ DOMAIN m # {}
                    /\ \A a \in DOMAIN m : a \in Areas /\ m[a] \in Nat /\ m[a] <= head'[a]
              /\ r.cmd = "push" => origin' = head
  <1>1. /\ ver  \in [Areas -> Nat] /\ idx    \in [Areas -> Nat]
        /\ head \in [Areas -> Nat] /\ origin \in [Areas -> Nat]
        /\ \A a \in Areas : origin[a] <= head[a] /\ head[a] <= idx[a] /\ idx[a] <= ver[a]
    BY DEF RInv, RTypeOK, InOrder
  <1>2. [r EXCEPT !.made = r.made] = r /\ calls = [calls EXCEPT ![k] = r]
    BY DEF CallRecord, RInv, RTypeOK
  <1>3. r.made \in Made
    BY DEF CallRecord
  <1>4. CASE r.cmd = "add" /\ UNCHANGED <<ver, head, origin, calls>>
    <2>1. PICK as \in SUBSET Areas : idx' = [a \in Areas |-> IF a \in as THEN ver[a] ELSE idx[a]]
      <3>1. (IF r.paths = {} THEN Areas ELSE r.paths) \in SUBSET Areas
        BY DEF CallRecord
      <3>2. QED
        BY <1>4, <3>1 DEF Works
    <2>2. ASSUME NEW a \in Areas
          PROVE  idx'[a] \in Nat /\ head[a] <= idx'[a] /\ idx'[a] <= ver[a]
      <3>1. idx'[a] = ver[a] \/ idx'[a] = idx[a]
        BY <2>1
      <3>2. /\ head[a] \in Nat /\ idx[a] \in Nat /\ ver[a] \in Nat
            /\ head[a] <= idx[a] /\ idx[a] <= ver[a]
        BY <1>1
      <3>3. QED
        BY ONLY <3>1, <3>2
    <2>3. idx' \in [Areas -> Nat]
      BY <2>1, <2>2
    <2>4. GitOK
      BY <1>1, <1>4, <2>2, <2>3, StandsStill DEF GitOK, InOrder, RInv
    <2>5. QED
      BY <1>2, <1>3, <1>4, <2>4
  <1>5. CASE r.cmd = "commit" /\ UNCHANGED <<ver, idx, origin>>
    <2> DEFINE new == {b \in Areas : idx[b] # head[b]}
    <2>1. /\ idx # head /\ head' = idx
          /\ calls' = [calls EXCEPT ![k].made = [a \in new |-> idx[a]]]
      BY <1>5 DEF Works
    <2>2. PICK m : m = [a \in new |-> idx[a]]
      OBVIOUS
    <2>3. new # {}
      BY <1>1, <2>1
    <2>4. m \in [new -> Nat] /\ new \in SUBSET Areas
      BY <1>1, <2>2
    <2>5. m \in Made
      BY <2>4 DEF Made
    <2>6. \A a \in DOMAIN m : a \in Areas /\ m[a] \in Nat /\ m[a] <= head'[a]
      BY <1>1, <2>1, <2>2
    <2>7. calls' = [calls EXCEPT ![k] = [r EXCEPT !.made = m]]
      BY <2>1, <2>2
    <2>8. GitOK
      BY <1>1, <1>5, <2>1 DEF GitOK, InOrder, GoesForward
    <2>9. QED
      BY <1>5, <2>2, <2>3, <2>5, <2>6, <2>7, <2>8
  <1>6. CASE r.cmd = "push" /\ origin' = head /\ UNCHANGED <<ver, idx, head, calls>>
    <2>1. GitOK
      BY <1>1, <1>6 DEF GitOK, InOrder, GoesForward
    <2>2. QED
      BY <1>2, <1>3, <1>6, <2>1
  <1>7. ASSUME r.cmd \in {"pull", "rebase"}, UNCHANGED calls, NEW b \in Areas \ Changed,
               ver' = [ver EXCEPT ![b] = @ + 1],
               idx' = [idx EXCEPT ![b] = ver[b] + 1],
               head' = [head EXCEPT ![b] = ver[b] + 1],
               origin' = [origin EXCEPT ![b] = ver[b] + 1]
        PROVE  GitOK
    <2>1. ASSUME NEW a \in Areas
          PROVE  /\ ver'[a] \in Nat /\ idx'[a] \in Nat /\ head'[a] \in Nat /\ origin'[a] \in Nat
                 /\ origin'[a] <= head'[a] /\ head'[a] <= idx'[a] /\ idx'[a] <= ver'[a]
                 /\ head[a] <= head'[a] /\ origin[a] <= origin'[a]
      <3>1. /\ ver[a] \in Nat /\ idx[a] \in Nat /\ head[a] \in Nat /\ origin[a] \in Nat
            /\ origin[a] <= head[a] /\ head[a] <= idx[a] /\ idx[a] <= ver[a]
        BY <1>1
      <3>2. \/ /\ a = b /\ ver'[a] = ver[a] + 1 /\ idx'[a] = ver[a] + 1
               /\ head'[a] = ver[a] + 1 /\ origin'[a] = ver[a] + 1
            \/ ver'[a] = ver[a] /\ idx'[a] = idx[a] /\ head'[a] = head[a] /\ origin'[a] = origin[a]
        BY <1>1, <1>7
      <3>3. QED
        BY ONLY <3>1, <3>2
    <2>2. /\ ver'  \in [Areas -> Nat] /\ idx'    \in [Areas -> Nat]
          /\ head' \in [Areas -> Nat] /\ origin' \in [Areas -> Nat]
      BY <1>1, <1>7
    <2>3. QED
      BY <2>1, <2>2 DEF GitOK, InOrder, GoesForward
  <1>8. CASE r.cmd \in {"pull", "rebase"} /\ UNCHANGED calls /\ GitOK
    BY <1>2, <1>3, <1>8
  <1>9. CASE r.cmd \notin {"add", "commit", "push"} /\ UNCHANGED <<gitVars, calls>>
    <2>1. GitOK
      BY <1>1, <1>9, StandsStill DEF GitOK, InOrder, gitVars, RInv
    <2>2. QED
      BY <1>2, <1>3, <1>9, <2>1
  <1>10. QED
    BY <1>4, <1>5, <1>6, <1>7, <1>8, <1>9 DEF Works

LEMMA CmdEndsKeeps ==
  ASSUME RInv, NEW c \in Child, CmdEnds(c)
  PROVE  RInv'
  <1>1. /\ status[c] = "running" /\ Exit(c)
        /\ UNCHANGED <<slots, spawned, keyOf, killed, doomed, timers, restarts, inbox, busy, testsPassed>>
        /\ status' = [status EXCEPT ![c] = "exited"]
    BY DEF CmdEnds, Exit, pageVars
  <1>2. PICK k \in Calls : k = Caller(c) /\ Awaits(k) /\ calls[k].child = c
    BY <1>1, CallerAwaits
  <1>3. PICK r \in CallRecord : r = calls[k]
    BY DEF RInv, RTypeOK
  <1>4. CallOK(r) /\ r.phase = "awaiting" /\ r.child = c
    BY <1>2, <1>3 DEF RInv, Awaits
  <1>5. IInv'
    BY <1>1, EnvironmentStep DEF Environment, RInv
  <1>6. inbox' \in Seq(BOOLEAN) /\ busy' \in BOOLEAN /\ testsPassed' \in BOOLEAN /\ PendingIsFiled'
    BY <1>1 DEF RInv, RTypeOK, PendingIsFiled, Pending
  <1>7. /\ \A d \in Child : d # c => status'[d] = status[d]
        /\ status'[c] = "exited"
    BY <1>1 DEF RInv, IInv, TypeOK
  <1>8. ASSUME NEW m \in Made, NEW e \in {0, 1}, code' = [code EXCEPT ![c] = e], GitOK,
               calls' = [calls EXCEPT ![k] = [r EXCEPT !.made = m]],
               CallOK([r EXCEPT !.made = m])'
        PROVE  RInv'
    <2>1. PICK z \in CallRecord : z = [r EXCEPT !.made = m] /\ z.phase = "awaiting" /\ z.child = c
      <3>1. /\ [r EXCEPT !.made = m] \in CallRecord /\ [r EXCEPT !.made = m].phase = "awaiting"
            /\ [r EXCEPT !.made = m].child = c
        BY <1>4 DEF CallRecord
      <3>2. QED
        BY <3>1
    <2>2. code' \in [Child -> {0, 1}] /\ \A d \in Child : d # c => code'[d] = code[d]
      BY <1>8 DEF RInv, RTypeOK
    <2>3. \A j \in Calls \ {k} : Awaits(j) => calls[j].child # c /\ calls[j].child \in Child
      BY <1>2 DEF RInv, OneAwaitsIt
    <2>4. \A d \in Child : status'[d] \in {"running", "exited"} =>
            d = c \/ \E j \in Calls \ {k} : Awaits(j) /\ calls[j].child = d
      <3>1. ASSUME NEW d \in Child, status'[d] \in {"running", "exited"}, d # c
            PROVE  \E j \in Calls \ {k} : Awaits(j) /\ calls[j].child = d
        <4>1. Live(d)
          BY <1>7, <3>1 DEF Live
        <4>2. PICK j \in Calls : Awaits(j) /\ calls[j].child = d
          BY <4>1 DEF RInv, OneAwaitsIt
        <4>3. QED
          BY <1>2, <3>1, <4>2
      <3>2. QED
        BY <3>1
    <2>5. CallMoves(k, z)
      BY <1>7, <1>8, <2>1, <2>2, <2>3, <2>4 DEF CallMoves, GitOK
    <2>6. CallOK(z)'
      BY <1>8, <2>1
    <2>7. /\ calls' \in [Calls -> CallRecord] /\ OneAwaitsIt'
          /\ \A j \in Calls : CallOK(calls[j])'
      BY <2>5, <2>6, MoveKeepsCalls
    <2>8. QED
      BY <1>5, <1>6, <1>8, <2>2, <2>7 DEF RInv, RTypeOK, GitOK, GoesForward
  <1>9. CASE Works(Caller(c)) /\ \E e \in {0, 1} : code' = [code EXCEPT ![c] = e]
    <2>1. Works(k)
      BY <1>2, <1>9 DEF Works
    <2>2. /\ GitOK
          /\ \E m \in Made :
               /\ calls' = [calls EXCEPT ![k] = [r EXCEPT !.made = m]]
               /\ \/ m = r.made /\ r.cmd # "commit"
                  \/ /\ r.cmd = "commit" /\ DOMAIN m # {}
                     /\ \A a \in DOMAIN m : a \in Areas /\ m[a] \in Nat /\ m[a] <= head'[a]
               /\ r.cmd = "push" => origin' = head
      BY <1>3, <2>1, WorksWell
    <2>3. PICK m \in Made :
            /\ calls' = [calls EXCEPT ![k] = [r EXCEPT !.made = m]]
            /\ \/ m = r.made /\ r.cmd # "commit"
               \/ /\ r.cmd = "commit" /\ DOMAIN m # {}
                  /\ \A a \in DOMAIN m : a \in Areas /\ m[a] \in Nat /\ m[a] <= head'[a]
            /\ r.cmd = "push" => origin' = head
      BY <2>2
    <2>4. PICK z : z = [r EXCEPT !.made = m]
      OBVIOUS
    <2>5. /\ z.phase = "awaiting" /\ z.op = r.op /\ z.cmd = r.cmd /\ z.made = m
      BY <1>4, <2>4 DEF CallRecord
    <2>6. \A a \in DOMAIN m : a \in Areas /\ m[a] \in Nat /\ m[a] <= head'[a]
      BY <1>4, <2>2, <2>3 DEF CallOK, GitOK, GoesForward, RInv, RTypeOK
    <2>7. r.cmd = "commit" => DOMAIN m # {}
      BY <2>3
    <2>8. r.cmd \in {"push", "pr"} => DOMAIN m # {}
      BY <1>4, <2>3 DEF CallOK, Pushed
    <2>9. ASSUME r.cmd = "push", NEW a \in DOMAIN m PROVE origin'[a] >= m[a]
      <3>1. m = r.made /\ origin' = head
        BY <2>3, <2>9
      <3>2. a \in Areas /\ m[a] \in Nat /\ m[a] <= head[a] /\ head[a] \in Nat
        BY <1>4, <2>9, <3>1 DEF CallOK, RInv, RTypeOK
      <3>3. QED
        BY <3>1, <3>2
    <2>10. ASSUME r.cmd = "pr", NEW a \in DOMAIN m PROVE origin'[a] >= m[a]
      <3>1. m = r.made
        BY <2>3, <2>10
      <3>2. /\ a \in Areas /\ m[a] \in Nat /\ origin[a] >= m[a]
            /\ origin[a] \in Nat /\ origin'[a] \in Nat /\ origin[a] <= origin'[a]
        BY <1>4, <2>2, <2>10, <3>1 DEF CallOK, Pushed, RInv, RTypeOK, GitOK, GoesForward
      <3>3. QED
        BY ONLY <3>2
    <2>11. r.cmd \in {"push", "pr"} => Pushed(z)'
      BY <2>5, <2>8, <2>9, <2>10 DEF Pushed
    <2>12. r.op \in CheckInOps <=> r.cmd \in GitCmds
      BY <1>4 DEF CallOK
    <2>13. CallOK(z)'
      BY ONLY <2>5, <2>6, <2>7, <2>8, <2>11, <2>12 DEF CallOK
    <2>14. CallOK([r EXCEPT !.made = m])'
      BY <2>4, <2>13
    <2>15. QED
      BY <1>8, <1>9, <2>2, <2>3, <2>14
  <1>10. CASE UNCHANGED <<gitVars, calls>> /\ code' = [code EXCEPT ![c] = 1]
    <2>1. [r EXCEPT !.made = r.made] = r /\ r.made \in Made /\ calls = [calls EXCEPT ![k] = r]
      BY <1>3 DEF CallRecord, RInv, RTypeOK
    <2>2. GitOK
      BY <1>10, StandsStill DEF GitOK, InOrder, gitVars, RInv, RTypeOK
    <2>3. ~EndedWell(r.child)'
      BY <1>4, <1>10 DEF EndedWell, RInv, RTypeOK
    <2>4. CallOK(r)'
      BY <1>4, <2>2, <2>3, StaysOK DEF RInv, GitOK
    <2>5. QED
      BY <1>8, <1>10, <2>1, <2>2, <2>4
  <1>11. QED
    BY <1>9, <1>10 DEF CmdEnds

-----------------------------------------------------------------------------
(* The page and the user                                                   *)

\* No call goes on; at most it is forgotten who asked.
LEMMA RestKeeps ==
  ASSUME RInv, UNCHANGED <<slotVars, code, idx, head, origin>>,
         ver' \in [Areas -> Nat], InOrder', inbox' \in Seq(BOOLEAN), busy' \in BOOLEAN,
         testsPassed' \in BOOLEAN, PendingIsFiled',
         \/ UNCHANGED calls
         \/ calls' = [k \in Calls |-> IF calls[k].phase = "new" THEN calls[k]
                                      ELSE [calls[k] EXCEPT !.mine = FALSE]]
  PROVE  RInv'
  <1>1. IInv'
    BY DEF RInv, slotVars, IInv, TypeOK, BornInOrder, TimersAreBorn, SlotsHoldTheNewest,
       TimersFindKilledProcesses, Live
  <1>2. ASSUME NEW k \in Calls
        PROVE  /\ calls'[k] \in CallRecord /\ calls'[k].phase = calls[k].phase
               /\ calls'[k].op = calls[k].op /\ calls'[k].cmd = calls[k].cmd
               /\ calls'[k].child = calls[k].child /\ calls'[k].code = calls[k].code
               /\ calls'[k].made = calls[k].made
    <2>1. PICK r \in CallRecord : r = calls[k]
      BY DEF RInv, RTypeOK
    <2>2. calls'[k] = r \/ calls'[k] = [r EXCEPT !.mine = FALSE]
      BY <2>1
    <2>3. [r EXCEPT !.mine = FALSE] \in CallRecord
      BY DEF CallRecord
    <2>4. QED
      BY <2>1, <2>2, <2>3 DEF CallRecord
  <1>3. calls' \in [Calls -> CallRecord]
    BY <1>2 DEF RInv, RTypeOK
  <1>4. RTypeOK'
    BY <1>3 DEF RInv, RTypeOK
  <1>5. OneAwaitsIt'
    BY <1>2 DEF RInv, OneAwaitsIt, Awaits, Live, slotVars
  <1>6. ASSUME NEW k \in Calls PROVE CallOK(calls[k])'
    BY <1>2 DEF RInv, CallOK, EndedWell, Pushed, slotVars
  <1>7. QED
    BY <1>1, <1>4, <1>5, <1>6 DEF RInv

LEMMA PageKeeps ==
  ASSUME RInv, (\E a \in Areas : Edit(a)) \/ Heard \/ Remount
  PROVE  RInv'
  <1>1. ASSUME NEW a \in Areas, Edit(a) PROVE RInv'
    <2>1. UNCHANGED <<slotVars, calls, code, idx, head, origin, inbox, busy, testsPassed>>
      BY <1>1 DEF Edit, pageVars
    <2>2. SetDepVersions({a})
      BY <1>1 DEF Edit, SetDepVersions, RInv, RTypeOK
    <2>3. ver' \in [Areas -> Nat] /\ InOrder'
      BY <2>1, <2>2, EditsKeepOrder
    <2>4. PendingIsFiled'
      BY <2>1 DEF RInv, PendingIsFiled, Pending, slotVars
    <2>5. QED
      BY <2>1, <2>3, <2>4, RestKeeps DEF RInv, RTypeOK
  <1>2. ASSUME Heard PROVE RInv'
    <2>1. /\ inbox # << >> /\ busy' = Head(inbox) /\ inbox' = Tail(inbox)
          /\ UNCHANGED <<slotVars, calls, code, ver, idx, head, origin, testsPassed>>
      BY <1>2 DEF Heard, gitVars
    <2>2. /\ busy' \in BOOLEAN /\ inbox' \in Seq(BOOLEAN) /\ (Pending' <=> Pending)
      BY <2>1, TailKeepsLast DEF RInv, RTypeOK, Pending
    <2>3. PendingIsFiled' /\ InOrder'
      BY <2>1, <2>2 DEF RInv, PendingIsFiled, InOrder, slotVars
    <2>4. QED
      BY <2>1, <2>2, <2>3, RestKeeps DEF RInv, RTypeOK
  <1>3. ASSUME Remount PROVE RInv'
    <2>1. /\ busy' = FALSE /\ testsPassed' = FALSE
          /\ UNCHANGED <<slotVars, code, ver, idx, head, origin, inbox>>
          /\ calls' = [k \in Calls |-> IF calls[k].phase = "new" THEN calls[k]
                                       ELSE [calls[k] EXCEPT !.mine = FALSE]]
      BY <1>3 DEF Remount, gitVars
    <2>2. PendingIsFiled' /\ InOrder'
      BY <2>1 DEF RInv, PendingIsFiled, Pending, InOrder, slotVars
    <2>3. QED
      BY <2>1, <2>2, RestKeeps DEF RInv, RTypeOK
  <1>4. QED
    BY <1>1, <1>2, <1>3

LEMMA NextRInv == RInv /\ [RNext]_rVars => RInv'
  <1>1. SUFFICES ASSUME RInv, [RNext]_rVars PROVE RInv'
    OBVIOUS
  <1>2. CASE UNCHANGED rVars
    <2>1. UNCHANGED <<slotVars, calls, code, ver, idx, head, origin, inbox, busy, testsPassed>>
      BY <1>2 DEF rVars, repoVars, gitVars, pageVars
    <2>2. PendingIsFiled' /\ InOrder'
      BY <1>1, <2>1 DEF RInv, PendingIsFiled, Pending, InOrder, slotVars
    <2>3. QED
      BY <1>1, <2>1, <2>2, RestKeeps DEF RInv, RTypeOK
  <1>3. ASSUME NEW k \in Calls,
               \/ \E op \in Ops : Click(k, op)
               \/ \E as \in SUBSET Areas : Update(k, as)
               \/ NothingToSync(k) \/ BumpAndAdd(k) \/ Closed(k) \/ Reply(k)
        PROVE  RInv'
    BY <1>1, <1>3, ClickKeeps, UpdateKeeps, SyncKeeps, BumpKeeps, ClosedKeeps, ReplyKeeps
  <1>4. QED
    BY <1>1, <1>2, <1>3, CmdEndsKeeps, PageKeeps DEF RNext

LEMMA RepoAlways == RSpec => []RInv
  BY InitRInv, NextRInv, PTL DEF RSpec

\* A check-in that returns 0, or has got as far as the pull request, made a commit
\* and the origin has it, for any areas and calls and whatever takes its slot.
THEOREM ReportsAreTrue == RSpec => []ReportedIsPushed
  <1>1. RInv => ReportedIsPushed
    BY DEF RInv, CallOK, Pushed, ReportedIsPushed, CheckIns, CheckInOps
  <1>2. QED
    BY <1>1, RepoAlways, PTL

\* Once its messages are read the page is busy only with a command that is filed.
THEOREM BusyIsFiled == RSpec => []BusyMeansFiled
  <1>1. RInv => BusyMeansFiled
    BY DEF RInv, PendingIsFiled, Pending, BusyMeansFiled
  <1>2. QED
    BY <1>1, RepoAlways, PTL

\* No step takes HEAD or the origin back: what a check-in has pushed stays pushed,
\* through every other call and whatever the user does in the working tree.
THEOREM NothingIsTakenBack ==
  RSpec => [][\A a \in Areas : head'[a] >= head[a] /\ origin'[a] >= origin[a]]_rVars
  <1>1. ASSUME RInv, RNext PROVE \A a \in Areas : head'[a] >= head[a] /\ origin'[a] >= origin[a]
    <2>1. ASSUME GoesForward
          PROVE  \A a \in Areas : head'[a] >= head[a] /\ origin'[a] >= origin[a]
      <3>1. ASSUME NEW a \in Areas PROVE head'[a] >= head[a] /\ origin'[a] >= origin[a]
        <4>1. /\ head[a] \in Nat /\ head'[a] \in Nat /\ origin[a] \in Nat /\ origin'[a] \in Nat
              /\ head[a] <= head'[a] /\ origin[a] <= origin'[a]
          BY <1>1, <2>1 DEF GoesForward, RInv, RTypeOK
        <4>2. QED
          BY ONLY <4>1
      <3>2. QED
        BY <3>1
    <2>2. CASE UNCHANGED <<head, origin>>
      BY <1>1, <2>1, <2>2, StandsStill DEF RInv
    <2>3. ASSUME NEW c \in Child, CmdEnds(c) PROVE GoesForward \/ UNCHANGED <<head, origin>>
      <3>1. PICK k \in Calls : k = Caller(c)
        BY <1>1, <2>3, CallerAwaits DEF CmdEnds
      <3>2. Works(k) => GitOK
        BY <1>1, WorksWell DEF RInv, RTypeOK
      <3>3. Works(Caller(c)) => Works(k)
        BY <3>1 DEF Works
      <3>4. QED
        BY <2>3, <3>2, <3>3 DEF CmdEnds, GitOK, gitVars
    <2>4. ASSUME NEW k \in Calls,
                 \/ \E op \in Ops : Click(k, op)
                 \/ \E as \in SUBSET Areas : Update(k, as)
                 \/ NothingToSync(k) \/ BumpAndAdd(k) \/ Closed(k) \/ Reply(k)
          PROVE  UNCHANGED <<head, origin>>
      BY <2>4 DEF Click, Update, NothingToSync, BumpAndAdd, Closed, Reply, gitVars
    <2>5. ASSUME (\E a \in Areas : Edit(a)) \/ Heard \/ Remount PROVE UNCHANGED <<head, origin>>
      BY <2>5 DEF Edit, Heard, Remount, gitVars
    <2>6. QED
      BY <1>1, <2>1, <2>2, <2>3, <2>4, <2>5 DEF RNext
  <1>2. QED
    BY <1>1, RepoAlways, PTL DEF RSpec
=============================================================================
