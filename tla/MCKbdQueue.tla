---------------------------- MODULE MCKbdQueue ------------------------------
(* Two readers and idle.                                                   *)
EXTENDS KbdQueue

CONSTANTS r1, r2, idle

MCTask == {r1, r2, idle}
MCPrio == [t \in MCTask |-> 0]
MCInitReady == <<r2, idle>>
=============================================================================
