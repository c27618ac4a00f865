-------------------------- MODULE MCProcessSlots --------------------------
(* Small instances of ProcessSlots for TLC.                                *)
EXTENDS ProcessSlots

\* Of all slots, those of one service with a compose file and of the edge are
\* enough to make every operation meet an occupied and an empty slot.
mcServices == {"app", "webproxy"}
mcCompose  == {"app"}
===========================================================================
