------------------------------- MODULE MCSync -------------------------------
(* The boot thread and two processes contend for a lock, with idle.  A     *)
(* slice of zero makes every tick a preemption.                            *)
EXTENDS Sync

CONSTANTS main, p1, p2, idle

MCTask == {main, p1, p2, idle}
MCPrio == [t \in MCTask |-> IF t = p1 THEN 1 ELSE 0]
MCInitReady == <<p1, p2, idle>>
=============================================================================
