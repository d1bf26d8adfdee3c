------------------------------ MODULE MCMemory ------------------------------
(* One process that may fork; an arena of class c has c + 1 blocks.        *)
EXTENDS Memory, TLC

CONSTANTS p1, p2

Arenas == [c \in Class |-> c + 1]
=============================================================================
