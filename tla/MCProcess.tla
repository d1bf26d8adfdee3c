----------------------------- MODULE MCProcess ------------------------------
(* The boot tasks and room for two more processes, so that init can have   *)
(* two children, or a child and a grandchild, and PCBs and pids are reused.*)
EXTENDS Process

CONSTANTS init, main, idle, u1, u2

MCTask == {init, main, idle, u1, u2}
MCPrio == [t \in MCTask |-> 0]
=============================================================================
