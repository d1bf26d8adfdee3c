---------------------------- MODULE MCFileBlocks ----------------------------
(* Two processes and two names; files of a few small blocks that grow into *)
(* their indirect table, on a disk that fills up.                          *)
EXTENDS FileBlocks, TLC

CONSTANTS p1, p2

Symmetry == Permutations({p1, p2})
=============================================================================
