------------------------------- MODULE MCIde --------------------------------
(* The boot thread and a process on one channel.                           *)
EXTENDS Ide

CONSTANTS main, p1, idle

MCTask == {main, p1, idle}
MCPrio == [t \in MCTask |-> 0]
MCInitReady == <<p1, idle>>
=============================================================================
