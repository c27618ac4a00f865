------------------------------ MODULE RepoPage ------------------------------
(***************************************************************************)
(* Check-out and check-in from the console's repository page: the command  *)
(* sequences of tools/console/src/main/repo.ts on top of the process slots *)
(* (all of them run in the one slot of the pseudo-service "repo"), and the *)
(* page that starts them, renderer/components/RepoView.tsx.                *)
(*                                                                         *)
(* Of git there is what the page's promises are about: per area of the     *)
(* repository a version in the working tree, in the index, in HEAD and at  *)
(* the origin.  Everything between two awaits is one step, as in Pipeline. *)
(* The hard-stop timers are left to ProcessSlots: they never hit anything  *)
(* there (TimersFindKilledProcesses), so here they do not go off.          *)
(***************************************************************************)
EXTENDS ProcessSlots, Sequences

CONSTANTS Repo,        \* REPO_ID
          Areas,       \* the areas git status groups changes by
          MaxCalls,    \* bound on the operations the page asks for
          MaxVersion   \* bound on the versions of an area

ASSUME RepoAssumption ==
  /\ Repo \in Services /\ Repo # WebProxy
  /\ MaxCalls \in Nat /\ MaxVersion \in Nat

RepoKey == <<Repo, "runtime">>
Calls   == 1..MaxCalls

VARIABLES
  calls,     \* what the closure of each call holds, in the page and in main
  code,      \* of each process: its exit code, 0 or 1
  ver, idx, head, origin,   \* the versions of the areas
  inbox,     \* proc messages under way to the page: running or not
  busy, testsPassed         \* the page: its flags

gitVars  == <<ver, idx, head, origin>>
pageVars == <<inbox, busy, testsPassed>>
repoVars == <<calls, code, gitVars, pageVars>>
rVars    == <<slotVars, repoVars>>

\* mine: the page that asked is still mounted; made: the areas its commit changed,
\* each with the version committed.
Ops == {"pull", "reinstall", "update", "test", "commitPush", "createPR"}
NewCall == [phase |-> "new", op |-> "pull", paths |-> {}, cmd |-> "pull",
            child |-> NoChild, code |-> 1, made |-> << >>, mine |-> TRUE]

\* Some files are changed, and the page has run its tests.
RInit ==
  /\ Init
  /\ calls = [k \in Calls |-> NewCall]
  /\ code = [c \in Child |-> 1]
  /\ ver = [a \in Areas |-> 1]
  /\ idx = [a \in Areas |-> 0] /\ head = idx /\ origin = idx
  /\ inbox = << >> /\ busy = FALSE /\ testsPassed = TRUE

Changed == {a \in Areas : ver[a] # idx[a] \/ idx[a] # head[a]}

-----------------------------------------------------------------------------
(* main/repo.ts                                                            *)

\* The command a call runs first, after none; the page has it bump or scan before.
FirstCmd(op) ==
  CASE op = "pull" -> "pull" [] op \in {"reinstall", "update"} -> "install"
    [] op = "test" -> "test" [] OTHER -> "add"

\* Variant: a failed commit does not keep the push from running.
PushAnyway(r, ok) ==
  CASE r.cmd = "pull"    -> IF ok THEN "none" ELSE "rebase"
    [] r.cmd = "install" -> IF ok THEN "build" ELSE "none"
    [] r.cmd = "add"     -> "commit"
    [] r.cmd = "commit"  -> "push"
    [] r.cmd = "push"    -> IF ok /\ r.op = "createPR" THEN "pr" ELSE "none"
    [] OTHER             -> "none"

\* The command that follows one that ended well or not.
NextCmd(r, ok) ==
  CASE r.cmd = "pull"    -> IF ok THEN "none" ELSE "rebase"
    [] r.cmd = "install" -> IF ok THEN "build" ELSE "none"
    [] r.cmd = "add"     -> IF ok THEN "commit" ELSE "none"
    [] r.cmd = "commit"  -> IF ok THEN "push" ELSE "none"
    [] r.cmd = "push"    -> IF ok /\ r.op = "createPR" THEN "pr" ELSE "none"
    [] OTHER             -> "none"

\* run() in the slot of the page, from the table and statuses given: the call
\* awaits the process, or its promise is rejected by the spawn that threw.
Exec(k, r, cmd, tab, st, msgs) ==
  /\ Stop(tab, {RepoKey})
  /\ \/ /\ Spawn(tab, st, RepoKey)
        /\ calls' = [calls EXCEPT ![k] =
             [r EXCEPT !.phase = "awaiting", !.cmd = cmd, !.child = spawned']]
        /\ inbox' = msgs \o <<TRUE>>
     \/ /\ SpawnThrows(tab, st)
        /\ calls' = [calls EXCEPT ![k] = [r EXCEPT !.phase = "rejected", !.cmd = cmd, !.child = NoChild]]
        /\ inbox' = msgs

\* A dependency is set to another version in some package.json files.
SetDepVersions(as) == ver' = [a \in Areas |-> IF a \in as THEN ver[a] + 1 ELSE ver[a]]
CanEdit(as) == \A a \in as : ver[a] < MaxVersion

\* updateDeps() has its answer from the registry, syncVersions() its scan: the
\* files are written, then reinstall().  A scan that finds nothing ends the call.
Update(k, as) ==
  /\ calls[k].phase = "looking" /\ CanEdit(as)
  /\ SetDepVersions(as)
  /\ Exec(k, calls[k], "install", slots, status, inbox)
  /\ UNCHANGED <<doomed, restarts, code, idx, head, origin, busy, testsPassed>>
NothingToSync(k) ==
  /\ calls[k].phase = "looking"
  /\ calls' = [calls EXCEPT ![k].phase = "settled", ![k].code = 0]
  /\ UNCHANGED <<slotVars, code, gitVars, pageVars>>

\* bumpVersion() of every selected area, one request after the other, and then
\* the check-in itself.
BumpAndAdd(k) ==
  LET r == calls[k]
  IN /\ r.phase = "bumping" /\ CanEdit(r.paths)
     /\ SetDepVersions(r.paths)
     /\ Exec(k, r, "add", slots, status, inbox)
     /\ UNCHANGED <<doomed, restarts, code, idx, head, origin, busy, testsPassed>>

\* The awaited process closes: the slot is emptied, the page told, and the rest
\* of the sequence runs up to its next await or its end.
Closed(k) ==
  LET r   == calls[k]
      c   == r.child
      ok  == code[c] = 0
      cmd == NextCmd(r, ok)
      st  == [status EXCEPT ![c] = "closed"]
  IN /\ r.phase = "awaiting" /\ status[c] = "exited"
     /\ \/ /\ cmd # "none"
           /\ Exec(k, r, cmd, Freed(c), st, inbox \o <<FALSE>>)
        \/ /\ cmd = "none"
           /\ slots' = Freed(c) /\ status' = st
           /\ calls' = [calls EXCEPT ![k].phase = "settled", ![k].child = NoChild,
                                     ![k].code = IF ok THEN 0 ELSE 1]
           /\ inbox' = inbox \o <<FALSE>>
           /\ UNCHANGED <<spawned, keyOf, killed, timers>>
     /\ UNCHANGED <<doomed, restarts, code, gitVars, busy, testsPassed>>

-----------------------------------------------------------------------------
(* The commands (git, npm, gh: external)                                   *)

Caller(c) == CHOOSE k \in Calls : calls[k].child = c /\ calls[k].phase = "awaiting"

\* What a command does when it works: `add' takes the selected paths, or all of
\* them if none is named; `commit' makes the index HEAD, and fails if it is HEAD
\* already; `push' brings the origin to HEAD; a pull may bring a new version of an
\* area without changes of its own.
Works(k) ==
  LET r  == calls[k]
      as == IF r.paths = {} THEN Areas ELSE r.paths
  IN \/ /\ r.cmd = "add"
        /\ idx' = [a \in Areas |-> IF a \in as THEN ver[a] ELSE idx[a]]
        /\ UNCHANGED <<ver, head, origin, calls>>
     \/ /\ r.cmd = "commit" /\ idx # head
        /\ head' = idx
        /\ calls' = [calls EXCEPT ![k].made =
             [a \in {b \in Areas : idx[b] # head[b]} |-> idx[a]]]
        /\ UNCHANGED <<ver, idx, origin>>
     \/ /\ r.cmd = "push"
        /\ origin' = head
        /\ UNCHANGED <<ver, idx, head, calls>>
     \/ /\ r.cmd \in {"pull", "rebase"}
        /\ \E a \in Areas \ Changed :
             /\ ver[a] < MaxVersion
             /\ ver' = [ver EXCEPT ![a] = @ + 1]
             /\ idx' = [idx EXCEPT ![a] = ver[a] + 1]
             /\ head' = [head EXCEPT ![a] = ver[a] + 1]
             /\ origin' = [origin EXCEPT ![a] = ver[a] + 1]
        /\ UNCHANGED calls
     \/ r.cmd \notin {"add", "commit", "push"} /\ UNCHANGED <<gitVars, calls>>

\* A command ends: it worked, or failed; one that was signalled may have worked
\* and yet be reported as terminated.
CmdEnds(c) ==
  /\ status[c] = "running"
  /\ Exit(c)
  /\ \/ Works(Caller(c)) /\ code' = [code EXCEPT ![c] = 0]
     \/ killed[c] /\ Works(Caller(c)) /\ code' = [code EXCEPT ![c] = 1]
     \/ UNCHANGED <<gitVars, calls>> /\ code' = [code EXCEPT ![c] = 1]
  /\ UNCHANGED pageVars

\* The user, an editor or Claude changes a file.
Edit(a) ==
  /\ CanEdit({a})
  /\ ver' = [ver EXCEPT ![a] = @ + 1]
  /\ UNCHANGED <<slotVars, calls, code, idx, head, origin, pageVars>>

-----------------------------------------------------------------------------
(* renderer/components/RepoView.tsx                                        *)

CanCommit == testsPassed /\ ~busy

\* A button of the page, none of which works while it is busy.  A check-in takes
\* the areas the user has left checked; the list they are on is as old as the last
\* refresh, so that any of them may be on it.
Click(k, op) ==
  /\ calls[k].phase = "new" /\ \A j \in Calls : j < k => calls[j].phase # "new"
  /\ ~busy
  /\ LET r == [NewCall EXCEPT !.op = op]
     IN \/ /\ op \in {"pull", "reinstall"}
           /\ Exec(k, r, FirstCmd(op), slots, status, inbox)
           /\ UNCHANGED testsPassed
        \/ /\ op = "test"
           /\ testsPassed' = FALSE
           /\ Exec(k, r, FirstCmd(op), slots, status, inbox)
        \/ /\ op = "update"
           /\ calls' = [calls EXCEPT ![k] = [r EXCEPT !.phase = "looking"]]
           /\ UNCHANGED <<slots, spawned, keyOf, status, killed, timers, inbox, testsPassed>>
        \/ /\ op \in {"commitPush", "createPR"} /\ CanCommit
           /\ \E checked \in SUBSET Areas :
                calls' = [calls EXCEPT ![k] = [r EXCEPT !.phase = "bumping", !.paths = checked]]
           /\ UNCHANGED <<slots, spawned, keyOf, status, killed, timers, inbox, testsPassed>>
  /\ UNCHANGED <<doomed, restarts, code, gitVars, busy>>

\* The page hears of the end of a call: the outcome of the tests is kept, unless
\* the page that asked is no longer there.
Reply(k) ==
  LET r == calls[k]
  IN /\ r.phase = "settled"
     /\ calls' = [calls EXCEPT ![k].phase = "over"]
     /\ testsPassed' = IF r.mine /\ r.op = "test" THEN r.code = 0 ELSE testsPassed
     /\ UNCHANGED <<slotVars, code, gitVars, inbox, busy>>

\* Variant: only the start of a command is heard.
HeardStarting ==
  /\ inbox # << >>
  /\ busy' = (busy \/ Head(inbox)) /\ inbox' = Tail(inbox)
  /\ UNCHANGED <<slotVars, calls, code, gitVars, testsPassed>>

\* A proc message: the newest one is what the page shows.
Heard ==
  /\ inbox # << >>
  /\ busy' = Head(inbox) /\ inbox' = Tail(inbox)
  /\ UNCHANGED <<slotVars, calls, code, gitVars, testsPassed>>

\* The tab is left and opened again: a page that has just been mounted takes the
\* slot for idle until the next message.
Remount ==
  /\ busy' = FALSE /\ testsPassed' = FALSE
  /\ calls' = [k \in Calls |-> IF calls[k].phase = "new" THEN calls[k] ELSE [calls[k] EXCEPT !.mine = FALSE]]
  /\ UNCHANGED <<slotVars, code, gitVars, inbox>>

RNext ==
  \/ \E k \in Calls : \/ \E op \in Ops : Click(k, op)
                      \/ \E as \in SUBSET Areas : Update(k, as)
                      \/ NothingToSync(k) \/ BumpAndAdd(k) \/ Closed(k) \/ Reply(k)
  \/ \E c \in Child : CmdEnds(c)
  \/ \E a \in Areas : Edit(a)
  \/ Heard \/ Remount

RSpec == RInit /\ [][RNext]_rVars

-----------------------------------------------------------------------------
(* Properties                                                              *)

CheckIns == {k \in Calls : calls[k].op \in {"commitPush", "createPR"}}

\* What a check-in reports is so, whatever other calls take over its slot, kill
\* its commands or outlive them: one that returns 0, or that has got as far as
\* opening the pull request, made a commit and the origin has it.
ReportedIsPushed ==
  \A k \in CheckIns :
    \/ calls[k].phase \in {"settled", "over"} /\ calls[k].code = 0
    \/ calls[k].phase = "awaiting" /\ calls[k].cmd = "pr"
    => /\ DOMAIN calls[k].made # {}
       /\ \A a \in DOMAIN calls[k].made : origin[a] >= calls[k].made[a]

\* The page does not stay busy: once its messages are read it shows a command only
\* while one is filed in the slot, however many have replaced each other there.
BusyMeansFiled == busy /\ inbox = << >> => slots[RepoKey] # NoChild

\* `Stage ONLY the selected area paths (so the commit is scoped to what was
\* checked)' (repo.ts:321): with areas selected, no other is committed.
CommitIsScoped ==
  \A k \in CheckIns : calls[k].paths # {} => DOMAIN calls[k].made \subseteq calls[k].paths
=============================================================================
