--------------------------- MODULE MCClaudeAgent ---------------------------
(* Small instances of ClaudeAgent for TLC: two services that share the one *)
(* map of approvals, or one service whose sessions overlap.               *)
EXTENDS ClaudeAgent, TLC

CONSTANTS app, docs

mcTwo == {app, docs}
mcOne == {app}
mcModes == {"off", "ondemand", "realtime", "fix"}
mcFix   == {"fix"}
mcGates == {"off", "fix"}
Symmetry == Permutations(mcTwo)
=============================================================================
