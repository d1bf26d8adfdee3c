----------------------------- MODULE MCDirectory -----------------------------
(* Three names, so that a directory outgrows its direct blocks and gets a  *)
(* hole between two blocks.  Names n2 and n3 are interchangeable.          *)
EXTENDS Directory

CONSTANTS n1, n2, n3

Abs(words) == [abs |-> TRUE, words |-> words]
Rel(words) == [abs |-> FALSE, words |-> words]

MCName == {n1, n2, n3}
MCArg == {Abs(p) : p \in {<<>>, <<n1>>, <<n2>>, <<n3>>, <<n1, n1>>}}
         \cup {Rel(p) : p \in {<<"..">>, <<"..", ".", n1>>}}

Perms == Permutations({n2, n3})
==============================================================================
