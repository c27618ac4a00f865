---------------------------- MODULE StagedRun -----------------------------
(***************************************************************************)
(* What the console promises of the staged pipeline of one service (its    *)
(* README, "Staged pipeline"): a run executes the selected stages in order *)
(* and halts at the first failure; a resume keeps the stages that already  *)
(* passed.  There are no processes here, no slots and no other requests:   *)
(* nothing but the statuses the window shows.                              *)
(***************************************************************************)
EXTENDS Naturals

VARIABLES shown,    \* the status of each stage
          sel,      \* the stages of the run in progress
          active    \* whether a run is in progress

vars == <<shown, sel, active>>

Stage  == {"build", "image", "deploy"}
Before == [build |-> {}, image |-> {"build"}, deploy |-> {"build", "image"}]

Init == /\ shown = [g \in Stage |-> "idle"]
        /\ sel = {}
        /\ active = FALSE

Undone(s, S) == {g \in S : s[g] # "success"}

\* From the statuses s of a run of S to the statuses t, and on says whether the
\* run is then in progress: it is complete, or it goes on with the first stage that
\* has not passed, or it cannot and halts there.
Proceeds(s, S, t, on) ==
  \/ Undone(s, S) = {} /\ t = s /\ on = FALSE
  \/ \E g \in Undone(s, S) :
       /\ Before[g] \cap Undone(s, S) = {}
       /\ \/ t = [s EXCEPT ![g] = "running"] /\ on \in BOOLEAN
          \/ /\ t = [h \in Stage |-> IF h = g THEN "failed"
                      ELSE IF h \in S /\ g \in Before[h] THEN "skipped" ELSE s[h]]
             /\ on = FALSE

Begin(S, keep) ==
  /\ ~active
  /\ sel' = S
  /\ Proceeds([g \in Stage |-> IF g \in S /\ ~(keep /\ shown[g] = "success")
                               THEN "idle" ELSE shown[g]], S, shown', active')

\* The stage that is running passes, and the run proceeds; or it fails.
Pass(g) ==
  /\ active /\ shown[g] = "running" /\ sel' = sel
  /\ Proceeds([shown EXCEPT ![g] = "success"], sel, shown', active')

Fail(g) ==
  /\ active /\ shown[g] = "running"
  /\ shown' = [h \in Stage |-> IF h = g THEN "failed"
                 ELSE IF h \in sel /\ g \in Before[h] THEN "skipped" ELSE shown[h]]
  /\ active' = FALSE /\ sel' = sel

Next == \/ \E S \in (SUBSET Stage) \ {{}}, keep \in BOOLEAN : Begin(S, keep)
        \/ \E g \in Stage : Pass(g) \/ Fail(g)

Spec == Init /\ [][Next]_vars
=============================================================================
