-------------------------------- MODULE List --------------------------------
(***************************************************************************)
(* The doubly linked lists of list.c at the level of their pointers.  A    *)
(* list is two sentinel elements, head and tail; elements live inside PCBs *)
(* (general_tag, all_list_tag), inodes and memory blocks and are moved     *)
(* between lists.  Variable seq is what the other modules take a list to   *)
(* be, a sequence; it is changed as they change it, and the properties say *)
(* that the pointers follow.                                               *)
(*                                                                         *)
(* The callers keep the discipline the code relies on: an element is put   *)
(* on a list only while it is on none (module Sync proves that for the     *)
(* general_tag of a task, TagInOneList), taken off only while it is on     *)
(* one, and a list is popped only when it is not empty.  list_push and     *)
(* list_pop read head.next before list_insert_before and list_remove turn  *)
(* interrupts off; every caller has them off or holds a lock already.      *)
(***************************************************************************)
EXTENDS Integers, Sequences, FiniteSets

CONSTANTS
  List, Elem, NULL,
  MaxWalk    \* bound on the rounds of a loop that are looked at

Hd(l) == <<l, "head">>
Tl(l) == <<l, "tail">>

Sentinel == List \X {"head", "tail"}
Node == Elem \cup Sentinel

ASSUME ListAssumption ==
  /\ Elem \cap Sentinel = {}
  /\ NULL \notin Node
  /\ IsFiniteSet(Elem)
  /\ MaxWalk \in Nat /\ Cardinality(Elem) <= MaxWalk

VARIABLES
  next, prev,   \* struct list_elem
  seq           \* the sequences the lists stand for

vars == <<next, prev, seq>>

(* list_init of every list; an element's pointers start as they are.       *)
Init ==
  /\ next = [x \in Node |-> IF \E l \in List : x = Hd(l)
                              THEN Tl(CHOOSE l \in List : x = Hd(l)) ELSE NULL]
  /\ prev = [x \in Node |-> IF \E l \in List : x = Tl(l)
                              THEN Hd(CHOOSE l \in List : x = Tl(l)) ELSE NULL]
  /\ seq = [l \in List |-> <<>>]

-----------------------------------------------------------------------------
On(e, l) == \E i \in 1 .. Len(seq[l]) : seq[l][i] = e
OnSome(e) == \E l \in List : On(e, l)

(* Faulty variant: before->prev = elem is missing.                         *)
InsertOneWay(before, e) ==
  /\ next' = [next EXCEPT ![prev[before]] = e, ![e] = before]
  /\ prev' = [prev EXCEPT ![e] = prev[before]]

(* The four assignments in their order; before->prev is not changed until  *)
(* the last.                                                               *)
list_insert_before(before, e) ==
  /\ next' = [next EXCEPT ![prev[before]] = e, ![e] = before]
  /\ prev' = [prev EXCEPT ![e] = prev[before], ![before] = e]

(* Faulty variant: pelem->prev->next still points to the element.          *)
RemoveOneWay(e) ==
  /\ prev' = [prev EXCEPT ![next[e]] = prev[e]]
  /\ UNCHANGED next

(* The element keeps its own stale pointers.                               *)
list_remove(e) ==
  /\ next' = [next EXCEPT ![prev[e]] = next[e]]
  /\ prev' = [prev EXCEPT ![next[e]] = prev[e]]

list_push(l, e) ==
  /\ ~OnSome(e)
  /\ list_insert_before(next[Hd(l)], e)
  /\ seq' = [seq EXCEPT ![l] = <<e>> \o seq[l]]

list_append(l, e) ==
  /\ ~OnSome(e)
  /\ list_insert_before(Tl(l), e)
  /\ seq' = [seq EXCEPT ![l] = Append(seq[l], e)]

Without(s, i) == [j \in 1 .. Len(s) - 1 |-> IF j < i THEN s[j] ELSE s[j + 1]]

Unlink(l, i) ==
  /\ list_remove(seq[l][i])
  /\ seq' = [seq EXCEPT ![l] = Without(seq[l], i)]

list_pop(l) ==
  /\ seq[l] # <<>>
  /\ list_remove(next[Hd(l)])
  /\ seq' = [seq EXCEPT ![l] = Tail(seq[l])]

Next ==
  \E l \in List :
    \/ \E e \in Elem : list_push(l, e) \/ list_append(l, e)
    \/ \E i \in 1 .. Len(seq[l]) : Unlink(l, i)
    \/ list_pop(l)

Spec == Init /\ [][Next]_vars

-----------------------------------------------------------------------------
(* The loops of list.c follow next from head.next until they meet tail.    *)

list_empty(l) == next[Hd(l)] = Tl(l)

(* Where the loop's elem is after n rounds.                                *)
Walk(l) ==
  LET elem[n \in Nat] ==
        IF n = 0 THEN next[Hd(l)]
        ELSE IF elem[n - 1] = Tl(l) THEN Tl(l) ELSE next[elem[n - 1]]
  IN  elem

list_len(l) ==
  CHOOSE n \in 0 .. MaxWalk :
    /\ Walk(l)[n] = Tl(l)
    /\ \A m \in 0 .. n - 1 : Walk(l)[m] # Tl(l)

elem_find(l, e) ==
  \E n \in 0 .. MaxWalk : /\ Walk(l)[n] = e
                          /\ \A m \in 0 .. n - 1 : Walk(l)[m] # Tl(l)

-----------------------------------------------------------------------------
(* The i-th element of the list, counting head as the 0th.                 *)
Nth(l, i) ==
  IF i = 0 THEN Hd(l) ELSE IF i = Len(seq[l]) + 1 THEN Tl(l) ELSE seq[l][i]

TypeOK ==
  /\ next \in [Node -> Node \cup {NULL}]
  /\ prev \in [Node -> Node \cup {NULL}]
  /\ seq \in [List -> Seq(Elem)]

(* Forwards and backwards, the pointers visit the elements of seq in its   *)
(* order, whatever was pushed, appended, popped or unlinked in the middle. *)
Linked ==
  \A l \in List : \A i \in 0 .. Len(seq[l]) :
    /\ next[Nth(l, i)] = Nth(l, i + 1)
    /\ prev[Nth(l, i + 1)] = Nth(l, i)

(* No element is on two lists or twice on one, so no insertion or removal  *)
(* on one list changes another.                                            *)
Disjoint ==
  \A l, m \in List :
    \A i \in 1 .. Len(seq[l]), j \in 1 .. Len(seq[m]) :
      seq[l][i] = seq[m][j] => l = m /\ i = j

ListInv == TypeOK /\ Linked /\ Disjoint

(* The loops end at tail, and find and count what is there.                *)
LoopsAgree ==
  \A l \in List :
    /\ list_empty(l) <=> seq[l] = <<>>
    /\ list_len(l) = Len(seq[l])
    /\ \A e \in Elem : elem_find(l, e) <=> On(e, l)
=============================================================================
