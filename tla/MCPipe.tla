------------------------------- MODULE MCPipe -------------------------------
(* Two writers and a reader, as after a shell has forked both sides.       *)
EXTENDS Pipe

CONSTANTS w1, w2, r1, idle

MCTask == {w1, w2, r1, idle}
MCPrio == [t \in MCTask |-> 0]
MCInitReady == <<w2, r1, idle>>
=============================================================================
