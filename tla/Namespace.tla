------------------------------ MODULE Namespace ------------------------------
(***************************************************************************)
(* What the file system promises about names: a tree of directories and    *)
(* regular files that calls change one leaf at a time.                     *)
(***************************************************************************)
EXTENDS Naturals, Sequences

VARIABLE tree   \* the objects below "/", as [path, type]

Parent(p) == SubSeq(p, 1, Len(p) - 1)
IsDir(p) == p = <<>> \/ [path |-> p, type |-> "dir"] \in tree
Exists(p) == p = <<>> \/ \E n \in tree : n.path = p

Init == tree = {}

(* mkdir, and open with O_CREAT: into a directory, under a new name.       *)
Add(n) ==
  /\ ~Exists(n.path) /\ IsDir(Parent(n.path))
  /\ tree' = tree \cup {n}

(* unlink, and rmdir of an empty directory.                                *)
Remove(n) ==
  /\ \A m \in tree : Parent(m.path) # n.path
  /\ tree' = tree \ {n}

Next ==
  \/ \E n \in tree' \ tree : Add(n)
  \/ \E n \in tree \ tree' : Remove(n)

Spec == Init /\ [][Next]_tree
==============================================================================
