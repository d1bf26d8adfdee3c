---------------------------- MODULE MCFileTable -----------------------------
(* Two processes.  Once an entry was picked twice or a file shared, only   *)
(* behaviours without pipes are followed: the counts of the two kinds of   *)
(* entry are then mixed up in very many ways.                              *)
EXTENDS FileTable, TLC

CONSTANTS p1, p2

Symmetry == Permutations({p1, p2})
ApartOrNoPipes == apart \/ \A s \in Slot : files.table[s].flag # "PIPE_FLAG"
=============================================================================
