-------------------------- MODULE StructureProofs ---------------------------
(***************************************************************************)
(* Proofs about the lists, the bitmaps, the frames of the heap and what    *)
(* the file system keeps on the disk.                                      *)
(*                                                                         *)
(* For any number of lists and elements, list.c keeps its pointers in step *)
(* with the sequences the other modules reason about.  Both kinds of       *)
(* update are proved once, at an arbitrary place of a list: Insert puts an *)
(* element after the k-th, Without takes the k-th out; the functions of    *)
(* list.c are instances of them.                                           *)
(*                                                                         *)
(* bitmap_scan hands out the lowest run of free bits, for bitmaps of any   *)
(* size.  Its count is a recursive function: a closed form satisfies the   *)
(* same equation, and the least bit at which the two could differ shows    *)
(* that they do not.                                                       *)
(*                                                                         *)
(* The memory of processes neither leaks nor shares a frame, whatever the  *)
(* free lists hold: the steps that change links, counts and lists keep the *)
(* frames as they are, and what is left takes a frame or gives one back.   *)
(*                                                                         *)
(* What a file system call changed is on the disk when it returns, for any *)
(* number of processes, files and blocks and any inode numbers, unless a   *)
(* mishap has come before.  The invariant says for every bit and inode     *)
(* that memory and disk have differently which call is about to write it,  *)
(* and for every call that creates or deletes a file that no other call    *)
(* has a part in that file.  A step changes one inode; the lemmas below    *)
(* show that all others keep what the invariant says of them.              *)
(***************************************************************************)
EXTENDS Bitmap, FileBlocks, List, Memory, FiniteSetTheorems, WellFoundedInduction, TLAPS

Insert(s, k, e) ==
  [j \in 1 .. Len(s) + 1 |->
     IF j <= k THEN s[j] ELSE IF j = k + 1 THEN e ELSE s[j - 1]]

(* The sentinels of the lists and the elements are different nodes.        *)
LEMMA SentinelsDiffer ==
  ASSUME NEW l \in List, NEW m \in List
  PROVE  /\ Hd(l) \in Node /\ Tl(l) \in Node
         /\ Hd(l) \notin Elem /\ Tl(l) \notin Elem
         /\ Hd(l) # Tl(m)
         /\ Hd(l) = Hd(m) => l = m
         /\ Tl(l) = Tl(m) => l = m
BY ListAssumption DEF Hd, Tl, Node, Sentinel

(* The nodes of the lists are pairwise different.                          *)
LEMMA NodesDiffer ==
  ASSUME TypeOK, Disjoint, NEW l \in List, NEW m \in List,
         NEW i \in 0 .. Len(seq[l]) + 1, NEW j \in 0 .. Len(seq[m]) + 1,
         Nth(l, i) = Nth(m, j)
  PROVE  l = m /\ i = j
<1>1. Len(seq[l]) \in Nat /\ Len(seq[m]) \in Nat
  BY DEF TypeOK
<1>2. i \in 1 .. Len(seq[l]) => seq[l][i] \in Elem
  BY DEF TypeOK
<1>3. j \in 1 .. Len(seq[m]) => seq[m][j] \in Elem
  BY DEF TypeOK
<1>4. CASE i \in 1 .. Len(seq[l]) /\ j \in 1 .. Len(seq[m])
  BY <1>1, <1>4 DEF Nth, Disjoint
<1>5. CASE ~(i \in 1 .. Len(seq[l]) /\ j \in 1 .. Len(seq[m]))
  BY <1>1, <1>2, <1>3, <1>5, SentinelsDiffer DEF Nth
<1>. QED BY <1>4, <1>5

(* Every node of a list is in Node.                                        *)
LEMMA NodesType ==
  ASSUME TypeOK, NEW l \in List, NEW i \in 0 .. Len(seq[l]) + 1
  PROVE  Nth(l, i) \in Node
<1>1. Len(seq[l]) \in Nat
  BY DEF TypeOK
<1>2. i \in 1 .. Len(seq[l]) => seq[l][i] \in Elem
  BY DEF TypeOK
<1>. QED BY <1>1, <1>2, SentinelsDiffer DEF Nth, Node

(* list_insert_before between the k-th node and the next.                  *)
LEMMA InsertKeepsInv ==
  ASSUME ListInv, NEW l \in List, NEW e \in Elem, ~OnSome(e),
         NEW k \in 0 .. Len(seq[l]),
         list_insert_before(Nth(l, k + 1), e),
         seq' = [seq EXCEPT ![l] = Insert(seq[l], k, e)]
  PROVE  ListInv'
<1>. DEFINE s == seq[l]
            t == Insert(s, k, e)
<1>1. s \in Seq(Elem) /\ Len(s) \in Nat
  BY DEF ListInv, TypeOK
<1>2. t \in Seq(Elem) /\ Len(t) = Len(s) + 1
  BY <1>1 DEF Insert
<1>3. seq'[l] = t /\ \A m \in List \ {l} : seq'[m] = seq[m]
  BY DEF ListInv, TypeOK
<1>4. Nth(l, k) \in Node /\ Nth(l, k + 1) \in Node /\ e \in Node
  BY <1>1, NodesType DEF ListInv, Node
<1>5. /\ prev[Nth(l, k + 1)] = Nth(l, k)
      /\ next' = [next EXCEPT ![Nth(l, k)] = e, ![e] = Nth(l, k + 1)]
      /\ prev' = [prev EXCEPT ![e] = Nth(l, k), ![Nth(l, k + 1)] = e]
  BY <1>1 DEF ListInv, Linked, list_insert_before
<1>6. TypeOK'
  <2>1. seq' \in [List -> Seq(Elem)]
    BY <1>2 DEF ListInv, TypeOK
  <2>. QED BY <2>1, <1>4, <1>5 DEF ListInv, TypeOK
<1>7. Disjoint'
  <2>. SUFFICES ASSUME NEW m \in List, NEW n \in List,
                       NEW i \in 1 .. Len(seq'[m]), NEW j \in 1 .. Len(seq'[n]),
                       seq'[m][i] = seq'[n][j]
                PROVE  m = n /\ i = j
    BY DEF Disjoint
  <2>1. \A a \in 1 .. Len(t) :
          \/ a <= k /\ a \in 1 .. Len(s) /\ t[a] = s[a]
          \/ a = k + 1 /\ t[a] = e
          \/ a > k + 1 /\ a - 1 \in 1 .. Len(s) /\ t[a] = s[a - 1]
    BY <1>1, <1>2 DEF Insert
  <2>2. \A o \in List : \A a \in 1 .. Len(seq[o]) : seq[o][a] # e
    BY DEF OnSome, On
  <2>3. Len(seq[m]) \in Nat /\ Len(seq[n]) \in Nat
    BY DEF ListInv, TypeOK
  <2>4. CASE m = l /\ n = l
    <3>1. \A a, b \in 1 .. Len(s) : s[a] = s[b] => a = b
      BY DEF ListInv, Disjoint
    <3>2. i \in 1 .. Len(t) /\ j \in 1 .. Len(t) /\ t[i] = t[j]
      BY <1>3, <2>4
    <3>3. \A a \in 1 .. Len(s) : s[a] # e
      BY <2>2
    <3>4. i \in Nat /\ j \in Nat /\ k \in Nat
      BY <1>1, <1>2, <3>2
    <3>. HIDE DEF s, t
    <3>5. CASE i = k + 1
      BY <2>1, <2>4, <3>2, <3>3, <3>4, <3>5
    <3>6. CASE i # k + 1
      <4>. PICK a \in 1 .. Len(s) : t[i] = s[a] /\ (a = IF i <= k THEN i ELSE i - 1)
        BY <2>1, <3>2, <3>4, <3>6
      <4>1. j # k + 1
        BY <2>1, <3>2, <3>3, <3>4
      <4>. PICK b \in 1 .. Len(s) : t[j] = s[b] /\ (b = IF j <= k THEN j ELSE j - 1)
        BY <2>1, <3>2, <3>4, <4>1
      <4>2. a = b
        BY <3>1, <3>2
      <4>. QED BY <1>1, <2>4, <3>4, <3>6, <4>1, <4>2
    <3>. QED BY <2>4, <3>5, <3>6
  <2>5. CASE m = l /\ n # l
    <3>1. \A a \in 1 .. Len(s), b \in 1 .. Len(seq[n]) : s[a] # seq[n][b]
      BY <2>5 DEF ListInv, Disjoint
    <3>2. i \in 1 .. Len(t) /\ j \in 1 .. Len(seq[n]) /\ t[i] = seq[n][j]
      BY <1>3, <2>5
    <3>. QED BY <1>1, <2>1, <2>2, <3>1, <3>2
  <2>6. CASE m # l /\ n = l
    <3>1. \A a \in 1 .. Len(s), b \in 1 .. Len(seq[m]) : s[a] # seq[m][b]
      BY <2>6 DEF ListInv, Disjoint
    <3>2. j \in 1 .. Len(t) /\ i \in 1 .. Len(seq[m]) /\ t[j] = seq[m][i]
      BY <1>3, <2>6
    <3>. QED BY <1>1, <2>1, <2>2, <3>1, <3>2
  <2>7. CASE m # l /\ n # l
    BY <1>3, <2>7 DEF ListInv, Disjoint
  <2>. QED BY <2>4, <2>5, <2>6, <2>7
<1>8. \A m \in List : \A i \in 0 .. Len(seq[m]) + 1 : Nth(m, i) # e
  <2>. SUFFICES ASSUME NEW m \in List, NEW i \in 0 .. Len(seq[m]) + 1
                PROVE  Nth(m, i) # e
    OBVIOUS
  <2>1. Len(seq[m]) \in Nat
    BY DEF ListInv, TypeOK
  <2>2. \A a \in 1 .. Len(seq[m]) : seq[m][a] # e
    BY DEF OnSome, On
  <2>. QED BY <2>1, <2>2, SentinelsDiffer DEF Nth
<1>9. Linked'
  <2>. SUFFICES ASSUME NEW m \in List, NEW i \in 0 .. Len(seq'[m])
                PROVE  /\ next'[Nth(m, i)'] = Nth(m, i + 1)'
                       /\ prev'[Nth(m, i + 1)'] = Nth(m, i)'
    BY DEF Linked
  <2>1. CASE m # l
    <3>1. seq'[m] = seq[m] /\ Len(seq[m]) \in Nat
      BY <1>3, <2>1 DEF ListInv, TypeOK
    <3>2. Nth(m, i)' = Nth(m, i) /\ Nth(m, i + 1)' = Nth(m, i + 1)
      BY <3>1 DEF Nth
    <3>3. i \in 0 .. Len(seq[m]) + 1 /\ i + 1 \in 0 .. Len(seq[m]) + 1
      BY <3>1
    <3>4. k \in 0 .. Len(s) + 1 /\ k + 1 \in 0 .. Len(s) + 1
      BY <1>1
    <3>5. /\ Nth(m, i) # e /\ Nth(m, i) # Nth(l, k)
          /\ Nth(m, i + 1) # e /\ Nth(m, i + 1) # Nth(l, k + 1)
      BY <1>8, <2>1, <3>3, <3>4, NodesDiffer DEF ListInv
    <3>6. Nth(m, i) \in Node /\ Nth(m, i + 1) \in Node
      BY <3>3, NodesType DEF ListInv
    <3>7. next[Nth(m, i)] = Nth(m, i + 1) /\ prev[Nth(m, i + 1)] = Nth(m, i)
      BY <3>1 DEF ListInv, Linked
    <3>. QED BY <1>4, <1>5, <3>2, <3>5, <3>6, <3>7 DEF ListInv, TypeOK
  <2>2. CASE m = l
    <3>1. \A a \in 0 .. Len(t) + 1 :
            Nth(l, a)' = IF a <= k THEN Nth(l, a)
                         ELSE IF a = k + 1 THEN e ELSE Nth(l, a - 1)
      BY <1>1, <1>2, <1>3 DEF Nth, Insert
    <3>2. i \in 0 .. Len(s) + 1
      BY <1>2, <1>3, <2>2
    <3>3. CASE i < k
      <4>1. Nth(m, i)' = Nth(l, i) /\ Nth(m, i + 1)' = Nth(l, i + 1)
        BY <1>1, <1>2, <2>2, <3>1, <3>3
      <4>2. next[Nth(l, i)] = Nth(l, i + 1) /\ prev[Nth(l, i + 1)] = Nth(l, i)
        BY <1>1, <3>3 DEF ListInv, Linked
      <4>3. Nth(l, i) # Nth(l, k) /\ Nth(l, i + 1) # Nth(l, k + 1)
        BY <1>1, <3>3, NodesDiffer DEF ListInv
      <4>4. Nth(l, i) # e /\ Nth(l, i + 1) # e
        BY <1>1, <1>8, <3>3
      <4>5. Nth(l, i) \in Node /\ Nth(l, i + 1) \in Node
        BY <1>1, <3>3, NodesType DEF ListInv
      <4>. QED BY <1>4, <1>5, <4>1, <4>2, <4>3, <4>4, <4>5 DEF ListInv, TypeOK
    <3>4. CASE i = k
      <4>1. Nth(m, i)' = Nth(l, k) /\ Nth(m, i + 1)' = e
        BY <1>1, <1>2, <2>2, <3>1, <3>4
      <4>2. Nth(l, k) # e /\ Nth(l, k + 1) # e
        BY <1>1, <1>8
      <4>. QED BY <1>4, <1>5, <4>1, <4>2 DEF ListInv, TypeOK
    <3>5. CASE i = k + 1
      <4>1. Nth(m, i)' = e /\ Nth(m, i + 1)' = Nth(l, k + 1)
        BY <1>1, <1>2, <1>3, <2>2, <3>1, <3>5
      <4>2. Nth(l, k) # e /\ Nth(l, k + 1) # e
        BY <1>1, <1>8
      <4>. QED BY <1>4, <1>5, <4>1, <4>2 DEF ListInv, TypeOK
    <3>6. CASE i > k + 1
      <4>1. Nth(m, i)' = Nth(l, i - 1) /\ Nth(m, i + 1)' = Nth(l, i)
        BY <1>1, <1>2, <1>3, <2>2, <3>1, <3>6
      <4>2. i - 1 \in 0 .. Len(s) /\ (i - 1) + 1 = i
        BY <1>1, <3>2, <3>6
      <4>3. next[Nth(l, i - 1)] = Nth(l, i) /\ prev[Nth(l, i)] = Nth(l, i - 1)
        BY <4>2 DEF ListInv, Linked
      <4>4. Nth(l, i - 1) # Nth(l, k) /\ Nth(l, i) # Nth(l, k + 1)
        BY <1>1, <3>2, <3>6, NodesDiffer DEF ListInv
      <4>5. Nth(l, i - 1) # e /\ Nth(l, i) # e
        BY <1>1, <1>8, <3>2, <3>6
      <4>6. Nth(l, i - 1) \in Node /\ Nth(l, i) \in Node
        BY <1>1, <3>2, <3>6, NodesType DEF ListInv
      <4>. QED BY <1>4, <1>5, <4>1, <4>3, <4>4, <4>5, <4>6 DEF ListInv, TypeOK
    <3>. QED BY <1>1, <3>2, <3>3, <3>4, <3>5, <3>6
  <2>. QED BY <2>1, <2>2
<1>. QED BY <1>6, <1>7, <1>9 DEF ListInv

(* list_remove of the k-th element.                                        *)
LEMMA RemoveKeepsInv ==
  ASSUME ListInv, NEW l \in List, NEW k \in 1 .. Len(seq[l]),
         list_remove(seq[l][k]),
         seq' = [seq EXCEPT ![l] = Without(seq[l], k)]
  PROVE  ListInv'
<1>. DEFINE s == seq[l]
            t == Without(s, k)
<1>1. s \in Seq(Elem) /\ Len(s) \in Nat /\ k \in Nat
  BY DEF ListInv, TypeOK
<1>2. t \in Seq(Elem) /\ Len(t) = Len(s) - 1
  BY <1>1 DEF Without
<1>3. seq'[l] = t /\ \A m \in List \ {l} : seq'[m] = seq[m]
  BY DEF ListInv, TypeOK
<1>4. /\ Nth(l, k - 1) \in Node /\ Nth(l, k) \in Node /\ Nth(l, k + 1) \in Node
      /\ Nth(l, k) = s[k]
  BY <1>1, NodesType DEF ListInv, Nth
<1>5. /\ k - 1 \in 0 .. Len(s) /\ k \in 0 .. Len(s) /\ (k - 1) + 1 = k
      /\ k - 1 \in 0 .. Len(s) + 1 /\ k + 1 \in 0 .. Len(s) + 1
  BY <1>1
<1>6. prev[s[k]] = Nth(l, k - 1) /\ next[s[k]] = Nth(l, k + 1)
  BY <1>4, <1>5 DEF ListInv, Linked
<1>7. /\ next' = [next EXCEPT ![Nth(l, k - 1)] = Nth(l, k + 1)]
      /\ prev' = [prev EXCEPT ![Nth(l, k + 1)] = Nth(l, k - 1)]
  BY <1>6 DEF list_remove
<1>8. TypeOK'
  <2>1. seq' \in [List -> Seq(Elem)]
    BY <1>2 DEF ListInv, TypeOK
  <2>. QED BY <2>1, <1>4, <1>7 DEF ListInv, TypeOK
<1>9. \A m \in List : \A i \in 1 .. Len(seq'[m]) :
        \E a \in 1 .. Len(seq[m]) :
          /\ seq'[m][i] = seq[m][a]
          /\ a = IF m = l /\ i >= k THEN i + 1 ELSE i
  <2>. SUFFICES ASSUME NEW m \in List, NEW i \in 1 .. Len(seq'[m])
                PROVE  \E a \in 1 .. Len(seq[m]) :
                         /\ seq'[m][i] = seq[m][a]
                         /\ a = IF m = l /\ i >= k THEN i + 1 ELSE i
    OBVIOUS
  <2>1. CASE m = l
    <3>1. i \in 1 .. Len(s) - 1 /\ t[i] = IF i < k THEN s[i] ELSE s[i + 1]
      BY <1>1, <1>2, <1>3, <2>1 DEF Without
    <3>. QED BY <1>1, <1>3, <2>1, <3>1
  <2>2. CASE m # l
    <3>1. Len(seq[m]) \in Nat
      BY DEF ListInv, TypeOK
    <3>. QED BY <1>3, <2>2, <3>1
  <2>. QED BY <2>1, <2>2
<1>10. Disjoint'
  <2>. SUFFICES ASSUME NEW m \in List, NEW n \in List,
                       NEW i \in 1 .. Len(seq'[m]), NEW j \in 1 .. Len(seq'[n]),
                       seq'[m][i] = seq'[n][j]
                PROVE  m = n /\ i = j
    BY DEF Disjoint
  <2>1. PICK a \in 1 .. Len(seq[m]) :
          /\ seq'[m][i] = seq[m][a]
          /\ a = IF m = l /\ i >= k THEN i + 1 ELSE i
    BY <1>9
  <2>2. PICK b \in 1 .. Len(seq[n]) :
          /\ seq'[n][j] = seq[n][b]
          /\ b = IF n = l /\ j >= k THEN j + 1 ELSE j
    BY <1>9
  <2>3. m = n /\ a = b
    BY <2>1, <2>2 DEF ListInv, Disjoint
  <2>4. i \in Int /\ j \in Int
    OBVIOUS
  <2>. QED BY <1>1, <2>1, <2>2, <2>3, <2>4
<1>11. Linked'
  <2>. SUFFICES ASSUME NEW m \in List, NEW i \in 0 .. Len(seq'[m])
                PROVE  /\ next'[Nth(m, i)'] = Nth(m, i + 1)'
                       /\ prev'[Nth(m, i + 1)'] = Nth(m, i)'
    BY DEF Linked
  <2>1. CASE m # l
    <3>1. seq'[m] = seq[m] /\ Len(seq[m]) \in Nat
      BY <1>3, <2>1 DEF ListInv, TypeOK
    <3>2. Nth(m, i)' = Nth(m, i) /\ Nth(m, i + 1)' = Nth(m, i + 1)
      BY <3>1 DEF Nth
    <3>3. i \in 0 .. Len(seq[m]) + 1 /\ i + 1 \in 0 .. Len(seq[m]) + 1
      BY <3>1
    <3>4. Nth(m, i) # Nth(l, k - 1) /\ Nth(m, i + 1) # Nth(l, k + 1)
      BY <1>5, <2>1, <3>3, NodesDiffer DEF ListInv
    <3>5. Nth(m, i) \in Node /\ Nth(m, i + 1) \in Node
      BY <3>3, NodesType DEF ListInv
    <3>6. next[Nth(m, i)] = Nth(m, i + 1) /\ prev[Nth(m, i + 1)] = Nth(m, i)
      BY <3>1 DEF ListInv, Linked
    <3>. QED BY <1>4, <1>7, <3>2, <3>4, <3>5, <3>6 DEF ListInv, TypeOK
  <2>2. CASE m = l
    <3>1. \A a \in 0 .. Len(s) :
            Nth(l, a)' = IF a < k THEN Nth(l, a) ELSE Nth(l, a + 1)
      BY <1>1, <1>2, <1>3 DEF Nth, Without
    <3>2. i \in 0 .. Len(s) - 1
      BY <1>2, <1>3, <2>2
    <3>3. CASE i < k - 1
      <4>1. Nth(m, i)' = Nth(l, i) /\ Nth(m, i + 1)' = Nth(l, i + 1)
        BY <1>1, <2>2, <3>1, <3>2, <3>3
      <4>2. next[Nth(l, i)] = Nth(l, i + 1) /\ prev[Nth(l, i + 1)] = Nth(l, i)
        BY <1>1, <3>2 DEF ListInv, Linked
      <4>3. Nth(l, i) # Nth(l, k - 1) /\ Nth(l, i + 1) # Nth(l, k + 1)
        BY <1>1, <1>5, <3>2, <3>3, NodesDiffer DEF ListInv
      <4>4. Nth(l, i) \in Node /\ Nth(l, i + 1) \in Node
        BY <1>1, <3>2, NodesType DEF ListInv
      <4>. QED BY <1>4, <1>7, <4>1, <4>2, <4>3, <4>4 DEF ListInv, TypeOK
    <3>4. CASE i = k - 1
      <4>1. Nth(m, i)' = Nth(l, k - 1) /\ Nth(m, i + 1)' = Nth(l, k + 1)
        BY <1>1, <1>5, <2>2, <3>1, <3>2, <3>4
      <4>. QED BY <1>4, <1>7, <4>1 DEF ListInv, TypeOK
    <3>5. CASE i >= k
      <4>1. Nth(m, i)' = Nth(l, i + 1) /\ Nth(m, i + 1)' = Nth(l, i + 2)
        BY <1>1, <2>2, <3>1, <3>2, <3>5
      <4>2. i + 1 \in 0 .. Len(s) /\ (i + 1) + 1 = i + 2
        BY <1>1, <3>2
      <4>3. /\ next[Nth(l, i + 1)] = Nth(l, i + 2)
            /\ prev[Nth(l, i + 2)] = Nth(l, i + 1)
        BY <4>2 DEF ListInv, Linked
      <4>4. Nth(l, i + 1) # Nth(l, k - 1) /\ Nth(l, i + 2) # Nth(l, k + 1)
        BY <1>1, <1>5, <3>2, <3>5, NodesDiffer DEF ListInv
      <4>5. Nth(l, i + 1) \in Node /\ Nth(l, i + 2) \in Node
        BY <1>1, <3>2, NodesType DEF ListInv
      <4>. QED BY <1>4, <1>7, <4>1, <4>3, <4>4, <4>5 DEF ListInv, TypeOK
    <3>. QED BY <1>1, <3>2, <3>3, <3>4, <3>5
  <2>. QED BY <2>1, <2>2
<1>. QED BY <1>8, <1>10, <1>11 DEF ListInv

(* list_init leaves empty lists.                                           *)
LEMMA InitEstablishes == Init => ListInv
<1>. SUFFICES ASSUME Init PROVE ListInv
  OBVIOUS
<1>1. \A l \in List : next[Hd(l)] = Tl(l) /\ prev[Tl(l)] = Hd(l)
  <2>. SUFFICES ASSUME NEW l \in List
                PROVE  next[Hd(l)] = Tl(l) /\ prev[Tl(l)] = Hd(l)
    OBVIOUS
  <2>1. (CHOOSE m \in List : Hd(l) = Hd(m)) = l
    BY SentinelsDiffer
  <2>2. (CHOOSE m \in List : Tl(l) = Tl(m)) = l
    BY SentinelsDiffer
  <2>. QED BY <2>1, <2>2, SentinelsDiffer DEF Init
<1>2. TypeOK
  <2>1. seq \in [List -> Seq(Elem)]
    <3>1. <<>> \in Seq(Elem)
      OBVIOUS
    <3>. QED BY <3>1 DEF Init
  <2>2. \A x \in Node : next[x] \in Node \cup {NULL}
    <3>. SUFFICES ASSUME NEW x \in Node PROVE next[x] \in Node \cup {NULL}
      OBVIOUS
    <3>1. CASE \E l \in List : x = Hd(l)
      BY <1>1, <3>1, SentinelsDiffer
    <3>2. CASE ~ \E l \in List : x = Hd(l)
      BY <3>2 DEF Init
    <3>. QED BY <3>1, <3>2
  <2>3. \A x \in Node : prev[x] \in Node \cup {NULL}
    <3>. SUFFICES ASSUME NEW x \in Node PROVE prev[x] \in Node \cup {NULL}
      OBVIOUS
    <3>1. CASE \E l \in List : x = Tl(l)
      BY <1>1, <3>1, SentinelsDiffer
    <3>2. CASE ~ \E l \in List : x = Tl(l)
      BY <3>2 DEF Init
    <3>. QED BY <3>1, <3>2
  <2>4. /\ next = [x \in Node |-> next[x]]
        /\ prev = [x \in Node |-> prev[x]]
    BY DEF Init
  <2>. QED BY <2>1, <2>2, <2>3, <2>4 DEF TypeOK
<1>3. \A l \in List : Len(seq[l]) = 0
  BY DEF Init
<1>4. Linked
  BY <1>1, <1>3 DEF Linked, Nth
<1>5. Disjoint
  BY <1>3 DEF Disjoint
<1>. QED BY <1>2, <1>4, <1>5 DEF ListInv

(* Every operation of list.c is an insertion or a removal at some place.   *)
LEMMA NextKeepsInv == ListInv /\ [Next]_vars => ListInv'
<1>. SUFFICES ASSUME ListInv, [Next]_vars PROVE ListInv'
  OBVIOUS
<1>0. \A l \in List : seq[l] \in Seq(Elem) /\ Len(seq[l]) \in Nat
  BY DEF ListInv, TypeOK
<1>1. ASSUME NEW l \in List, NEW e \in Elem, list_push(l, e) PROVE ListInv'
  <2>1. Nth(l, 0) = Hd(l) /\ next[Nth(l, 0)] = Nth(l, 0 + 1)
    BY <1>0 DEF ListInv, Linked, Nth
  <2>2. <<e>> \o seq[l] = Insert(seq[l], 0, e)
    BY <1>0 DEF Insert
  <2>3. list_insert_before(Nth(l, 0 + 1), e)
    BY <1>1, <2>1 DEF list_push, list_insert_before
  <2>4. seq' = [seq EXCEPT ![l] = Insert(seq[l], 0, e)] /\ ~OnSome(e)
    BY <1>1, <2>2 DEF list_push
  <2>5. 0 \in 0 .. Len(seq[l])
    BY <1>0
  <2>. QED BY <2>3, <2>4, <2>5, InsertKeepsInv
<1>2. ASSUME NEW l \in List, NEW e \in Elem, list_append(l, e) PROVE ListInv'
  <2>1. Nth(l, Len(seq[l]) + 1) = Tl(l)
    BY <1>0 DEF Nth
  <2>2. Append(seq[l], e) = Insert(seq[l], Len(seq[l]), e)
    BY <1>0 DEF Insert
  <2>3. list_insert_before(Nth(l, Len(seq[l]) + 1), e)
    BY <1>2, <2>1 DEF list_append, list_insert_before
  <2>4. seq' = [seq EXCEPT ![l] = Insert(seq[l], Len(seq[l]), e)] /\ ~OnSome(e)
    BY <1>2, <2>2 DEF list_append
  <2>5. Len(seq[l]) \in 0 .. Len(seq[l])
    BY <1>0
  <2>. QED BY <2>3, <2>4, <2>5, InsertKeepsInv
<1>3. ASSUME NEW l \in List, NEW i \in 1 .. Len(seq[l]), Unlink(l, i)
      PROVE  ListInv'
  BY <1>3, RemoveKeepsInv DEF Unlink
<1>4. ASSUME NEW l \in List, list_pop(l) PROVE ListInv'
  <2>1. Len(seq[l]) > 0
    BY <1>0, <1>4 DEF list_pop
  <2>2. next[Hd(l)] = seq[l][1]
    <3>1. next[Nth(l, 0)] = Nth(l, 0 + 1)
      BY <1>0 DEF ListInv, Linked
    <3>. QED BY <1>0, <2>1, <3>1 DEF Nth
  <2>3. Tail(seq[l]) = Without(seq[l], 1)
    BY <1>0, <2>1 DEF Without
  <2>4. 1 \in 1 .. Len(seq[l])
    BY <1>0, <2>1
  <2>. QED BY <1>4, <2>2, <2>3, <2>4, RemoveKeepsInv DEF list_pop
<1>5. CASE UNCHANGED vars
  BY <1>5 DEF vars, ListInv, TypeOK, Linked, Disjoint, Nth
<1>. QED BY <1>1, <1>2, <1>3, <1>4, <1>5 DEF Next

(* The pointers of every list always visit, forwards and backwards, the    *)
(* elements of the sequence it stands for, and the lists share none.       *)
THEOREM ListsAreSequences == Spec => []ListInv
BY InitEstablishes, NextKeepsInv, PTL DEF Spec

-----------------------------------------------------------------------------
(* The loops.                                                              *)

(* A set of naturals that is not empty has a least element.                *)
LEMMA LeastNat ==
  ASSUME NEW S \in SUBSET Nat, S # {}
  PROVE  \E m \in S : \A n \in S : m <= n
<1> DEFINE T == {0 .. n : n \in S}
<1>1. T \subseteq FiniteSubsetsOf(Nat) /\ T # {}
  <2>1. \A n \in S : 0 .. n \in FiniteSubsetsOf(Nat)
    BY FS_Interval DEF FiniteSubsetsOf
  <2>2. QED
    BY <2>1
<1>2. IsWellFoundedOn(StrictSubsetOrdering(Nat), FiniteSubsetsOf(Nat))
  BY FS_StrictSubsetOrderingWellFounded
<1>3. PICK x \in T : \A y \in T : ~(<<y, x>> \in StrictSubsetOrdering(Nat))
  <2> HIDE DEF T
  <2>1. QED
    BY <1>1, <1>2, WFMin
<1>4. PICK m \in S : x = 0 .. m
  BY <1>3
<1>5. ASSUME NEW n \in S, n < m
      PROVE  FALSE
  <2>1. /\ 0 .. n \subseteq 0 .. m /\ 0 .. n # 0 .. m
        /\ 0 .. n \in SUBSET Nat /\ 0 .. m \in SUBSET Nat
    <3>1. m \in 0 .. m /\ m \notin 0 .. n
      BY <1>5
    <3>2. QED
      BY <1>5, <3>1
  <2>2. <<0 .. n, 0 .. m>> \in StrictSubsetOrdering(Nat)
    BY <2>1 DEF StrictSubsetOrdering
  <2>3. QED
    BY <1>3, <1>4, <2>2
<1>6. QED
  BY <1>5


(* No list is longer than the loops are followed for.                      *)
LEMMA ListsAreShort ==
  ASSUME ListInv, NEW l \in List
  PROVE  Len(seq[l]) \in 0 .. MaxWalk
<1>1. seq[l] \in Seq(Elem) /\ Len(seq[l]) \in Nat
  BY DEF ListInv, TypeOK
<1>2. \A i, j \in 1 .. Len(seq[l]) : seq[l][i] = seq[l][j] => i = j
  BY DEF ListInv, Disjoint
<1> DEFINE f == [i \in 1 .. Len(seq[l]) |-> seq[l][i]]
<1>3. f \in [1 .. Len(seq[l]) -> Elem]
  BY <1>1
<1>4. IsInjective(f)
  BY <1>2 DEF IsInjective
<1> HIDE DEF f
<1>5. f \in Injection(1 .. Len(seq[l]), Elem)
  BY <1>3, <1>4 DEF Injection
<1>6. Cardinality(1 .. Len(seq[l])) <= Cardinality(Elem)
  BY <1>5, ListAssumption, FS_Injection
<1>7. Cardinality(1 .. Len(seq[l])) = Len(seq[l])
  BY <1>1, FS_Interval
<1>8. Cardinality(Elem) \in Nat
  BY ListAssumption, FS_CardinalityType
<1>9. QED
  BY <1>1, <1>6, <1>7, <1>8, ListAssumption

(* What the loop's assignments make of elem, round by round.               *)
Walks(w, l) ==
  w = [n \in Nat |-> IF n = 0 THEN next[Hd(l)]
                     ELSE IF w[n - 1] = Tl(l) THEN Tl(l) ELSE next[w[n - 1]]]

(* After n rounds elem is the element after the n-th, or tail.             *)
Stop(l, n) == Nth(l, IF n < Len(seq[l]) THEN n + 1 ELSE Len(seq[l]) + 1)

(* Stop satisfies the equation of the loop.                                *)
LEMMA StopNext ==
  ASSUME ListInv, NEW l \in List, NEW n \in Nat
  PROVE  /\ Stop(l, n) = Tl(l) <=> n >= Len(seq[l])
         /\ n < Len(seq[l]) => Stop(l, n) = seq[l][n + 1]
         /\ Stop(l, n) = IF n = 0 THEN next[Hd(l)]
                         ELSE IF Stop(l, n - 1) = Tl(l) THEN Tl(l) ELSE next[Stop(l, n - 1)]
<1> DEFINE len == Len(seq[l])
<1>1. len \in Nat /\ seq[l] \in Seq(Elem)
  BY DEF ListInv, TypeOK
<1>2. Tl(l) \notin Elem
  BY SentinelsDiffer
<1>3. ASSUME NEW k \in Nat
      PROVE  /\ k < len => Stop(l, k) = seq[l][k + 1] /\ Stop(l, k) # Tl(l)
             /\ k >= len => Stop(l, k) = Tl(l)
  <2>1. CASE k < len
    <3>1. k + 1 \in 1 .. len /\ k + 1 # 0 /\ k + 1 # len + 1
      BY <1>1, <2>1
    <3>2. Stop(l, k) = seq[l][k + 1]
      BY <2>1, <3>1 DEF Stop, Nth
    <3>3. seq[l][k + 1] \in Elem
      BY <1>1, <3>1
    <3>4. QED
      BY <1>1, <1>2, <2>1, <3>2, <3>3
  <2>2. CASE ~(k < len)
    <3>1. Stop(l, k) = Tl(l)
      BY <1>1, <2>2 DEF Stop, Nth
    <3>2. QED
      BY <2>2, <3>1
  <2>3. QED
    BY <2>1, <2>2
<1>4. \A i \in 0 .. len : next[Nth(l, i)] = Nth(l, i + 1)
  BY DEF ListInv, Linked
<1>5. ASSUME n = 0
      PROVE  Stop(l, n) = next[Hd(l)]
  <2>1. next[Nth(l, 0)] = Nth(l, 0 + 1) /\ Nth(l, 0) = Hd(l)
    BY <1>1, <1>4 DEF Nth
  <2>2. Stop(l, n) = Nth(l, 1)
    BY <1>1, <1>5 DEF Stop
  <2>3. QED
    BY <2>1, <2>2
<1>6. ASSUME n # 0
      PROVE  Stop(l, n) = IF Stop(l, n - 1) = Tl(l) THEN Tl(l) ELSE next[Stop(l, n - 1)]
  <2>1. n - 1 \in Nat
    BY <1>6
  <2>2. CASE n - 1 >= len
    <3>1. n >= len
      BY <1>1, <2>2
    <3>2. QED
      BY <1>3, <2>1, <2>2, <3>1
  <2>3. CASE n - 1 < len
    <3>1. Stop(l, n - 1) # Tl(l)
      BY <1>3, <2>1, <2>3
    <3>2. n \in 0 .. len /\ (n - 1) + 1 = n
      BY <1>1, <2>3
    <3>3. Stop(l, n - 1) = Nth(l, n)
      BY <2>3, <3>2 DEF Stop
    <3>4. Stop(l, n) = Nth(l, n + 1)
      BY <1>1, <3>2 DEF Stop
    <3>5. QED
      BY <1>4, <3>1, <3>2, <3>3, <3>4
  <2>4. QED
    BY <1>1, <2>1, <2>2, <2>3
<1>7. QED
  BY <1>1, <1>3, <1>5, <1>6

(* The loop visits the elements in their order and then stays at tail.     *)
LEMMA WalkIs ==
  ASSUME ListInv, NEW l \in List, NEW n \in Nat
  PROVE  Walk(l)[n] = Stop(l, n)
<1> DEFINE w == Walk(l)
           s == [i \in Nat |-> Stop(l, i)]
<1>1. w = CHOOSE v : Walks(v, l)
  BY DEF Walk, Walks
<1> HIDE DEF w
<1>2. ASSUME NEW i \in Nat
      PROVE  Stop(l, i) = IF i = 0 THEN next[Hd(l)]
                          ELSE IF Stop(l, i - 1) = Tl(l) THEN Tl(l) ELSE next[Stop(l, i - 1)]
  BY StopNext
<1>3. Walks(s, l)
  <2>1. \A i \in Nat : i # 0 => s[i - 1] = Stop(l, i - 1)
    OBVIOUS
  <2>2. s = [i \in Nat |-> IF i = 0 THEN next[Hd(l)]
                           ELSE IF s[i - 1] = Tl(l) THEN Tl(l) ELSE next[s[i - 1]]]
    BY <1>2, <2>1
  <2> HIDE DEF s
  <2>3. QED
    BY <2>2 DEF Walks
<1>4. Walks(w, l)
  BY <1>1, <1>3
<1>5. \A i \in Nat : w[i] = IF i = 0 THEN next[Hd(l)]
                            ELSE IF w[i - 1] = Tl(l) THEN Tl(l) ELSE next[w[i - 1]]
  BY <1>4 DEF Walks
<1> DEFINE S == {i \in Nat : w[i] # Stop(l, i)}
<1>6. ASSUME S # {}
      PROVE  FALSE
  <2>1. PICK m \in S : \A i \in S : m <= i
    BY <1>6, LeastNat
  <2>2. m \in Nat /\ w[m] # Stop(l, m)
    BY <2>1
  <2>3. m # 0 => m - 1 \in Nat /\ m - 1 \notin S
    BY <2>1, <2>2
  <2>4. m # 0 => w[m - 1] = Stop(l, m - 1)
    BY <2>3
  <2> HIDE DEF S
  <2>5. QED
    BY <1>2, <1>5, <2>2, <2>4
<1>7. w[n] = Stop(l, n)
  BY <1>6
<1>8. QED
  BY <1>7 DEF w

(* Every loop over a list ends at tail, counts the elements and finds      *)
(* exactly those that are on it (list.c list_len, elem_find, list_empty).  *)
THEOREM LoopsFindAll == Spec => []LoopsAgree
<1>1. ListInv => LoopsAgree
  <2> SUFFICES ASSUME ListInv, NEW l \in List
               PROVE  /\ list_empty(l) <=> seq[l] = <<>>
                      /\ list_len(l) = Len(seq[l])
                      /\ \A e \in Elem : elem_find(l, e) <=> On(e, l)
    BY DEF LoopsAgree
  <2> DEFINE len == Len(seq[l])
             w == Walk(l)
  <2>1. len \in Nat /\ seq[l] \in Seq(Elem) /\ len \in 0 .. MaxWalk /\ MaxWalk \in Nat
    BY ListsAreShort, ListAssumption DEF ListInv, TypeOK
  <2>2. ASSUME NEW n \in Nat
        PROVE  /\ w[n] = Tl(l) <=> n >= len
               /\ n < len => w[n] = seq[l][n + 1]
    BY WalkIs, StopNext
  <2>3. list_empty(l) <=> seq[l] = <<>>
    <3>1. Stop(l, 0) = next[Hd(l)] /\ (Stop(l, 0) = Tl(l) <=> 0 >= len)
      BY StopNext
    <3>2. list_empty(l) <=> 0 >= len
      BY <3>1 DEF list_empty
    <3>3. QED
      BY <2>1, <3>2
  <2>4. list_len(l) = len
    <3> HIDE DEF w
    <3>1. \A n \in 0 .. MaxWalk :
            (w[n] = Tl(l) /\ \A m \in 0 .. n - 1 : w[m] # Tl(l)) <=> n = len
      <4>1. ASSUME NEW n \in 0 .. MaxWalk, w[n] = Tl(l), \A m \in 0 .. n - 1 : w[m] # Tl(l)
            PROVE  n = len
        <5>1. n \in Nat /\ n >= len
          BY <2>1, <2>2, <4>1
        <5>2. ~(len \in 0 .. n - 1)
          BY <2>1, <2>2, <4>1
        <5>3. QED
          BY <2>1, <5>1, <5>2
      <4>2. w[len] = Tl(l) /\ \A m \in 0 .. len - 1 : w[m] # Tl(l)
        BY <2>1, <2>2
      <4>3. QED
        BY <4>1, <4>2
    <3>2. list_len(l) = CHOOSE n \in 0 .. MaxWalk :
                          w[n] = Tl(l) /\ \A m \in 0 .. n - 1 : w[m] # Tl(l)
      BY DEF list_len, w
    <3>3. QED
      BY <2>1, <3>1, <3>2
  <2>5. ASSUME NEW e \in Elem
        PROVE  elem_find(l, e) <=> On(e, l)
    <3> HIDE DEF w
    <3>1. ASSUME NEW n \in 0 .. MaxWalk, w[n] = e
          PROVE  On(e, l)
      <4>1. e # Tl(l)
        BY SentinelsDiffer
      <4>2. n \in Nat /\ n < len
        BY <2>1, <2>2, <3>1, <4>1
      <4>3. seq[l][n + 1] = e /\ n + 1 \in 1 .. len
        BY <2>1, <2>2, <3>1, <4>2
      <4>4. QED
        BY <4>3 DEF On
    <3>2. ASSUME NEW i \in 1 .. len, seq[l][i] = e
          PROVE  elem_find(l, e)
      <4>1. i - 1 \in 0 .. MaxWalk /\ i - 1 \in Nat /\ i - 1 < len /\ (i - 1) + 1 = i
        BY <2>1
      <4>2. w[i - 1] = e
        BY <2>2, <3>2, <4>1
      <4>3. \A m \in 0 .. (i - 1) - 1 : w[m] # Tl(l)
        BY <2>1, <2>2, <4>1
      <4>4. QED
        BY <4>1, <4>2, <4>3 DEF elem_find, w
    <3>3. QED
      BY <3>1, <3>2 DEF elem_find, On, w
  <2>6. QED
    BY <2>3, <2>4, <2>5
<1>2. QED
  BY <1>1, ListsAreSequences, PTL

-----------------------------------------------------------------------------
(* Min of a set of naturals is its least element ...                       *)
LEMMA MinIs ==
  ASSUME NEW S \in SUBSET Nat, S # {}
  PROVE  Min(S) \in S /\ \A n \in S : Min(S) <= n
<1>1. \E m \in S : \A n \in S : m <= n
  BY LeastNat
<1>2. QED
  BY <1>1 DEF Min

(* ... and there is only one.                                              *)
LEMMA MinUnique ==
  ASSUME NEW S \in SUBSET Nat, NEW m \in S, \A n \in S : m <= n
  PROVE  Min(S) = m
<1>1. Min(S) \in S /\ \A n \in S : Min(S) <= n
  BY MinIs
<1>2. Min(S) <= m /\ m <= Min(S) /\ m \in Nat /\ Min(S) \in Nat
  BY <1>1
<1>3. QED
  BY <1>2

-----------------------------------------------------------------------------
(* The bits of the bytes are the bits 0 to Size - 1, in the same order.    *)

(* A bitmap has at least one bit.                                          *)
LEMMA SizeIs == Size \in Nat \ {0} /\ Bytes \in Nat \ {0} /\ ByteBits \in Nat \ {0}
<1>1. Bytes \in Nat \ {0} /\ ByteBits \in Nat \ {0}
  BY BitmapAssumption
<1>2. \A a, b \in Nat \ {0} : a * b \in Nat \ {0}
  OBVIOUS
<1>3. QED
  BY <1>1, <1>2 DEF Size

(* The bits of a lower byte come first.                                    *)
LEMMA BitOrder ==
  ASSUME NEW a \in Nat, NEW b \in Nat, a < b,
         NEW i \in 0 .. ByteBits - 1, NEW k \in 0 .. ByteBits - 1
  PROVE  a * ByteBits + i < b * ByteBits + k
<1>1. ByteBits \in Nat /\ a * ByteBits \in Int /\ b * ByteBits \in Int
  BY SizeIs
<1>2. PICK d \in Nat : b = a + 1 + d
  <2>1. b - a - 1 \in Nat /\ b = a + 1 + (b - a - 1)
    OBVIOUS
  <2>2. QED
    BY <2>1
<1>3. d * ByteBits \in Nat
  BY <1>1
<1>4. b * ByteBits = a * ByteBits + ByteBits + d * ByteBits
  BY <1>1, <1>2
<1>5. QED
  BY <1>1, <1>3, <1>4

(* Every bit of a byte is a bit of the bitmap ...                          *)
LEMMA BitInside ==
  ASSUME NEW b \in 0 .. Bytes - 1, NEW k \in 0 .. ByteBits - 1
  PROVE  b * ByteBits + k \in 0 .. Size - 1
<1>1. 0 \in 0 .. ByteBits - 1 /\ b \in Nat /\ Bytes \in Nat /\ b < Bytes /\ ByteBits \in Nat
  BY SizeIs
<1>2. b * ByteBits + k < Bytes * ByteBits + 0
  BY <1>1, BitOrder
<1>3. b * ByteBits \in Nat
  BY <1>1
<1>4. QED
  BY <1>1, <1>2, <1>3, SizeIs DEF Size

(* ... and every bit of the bitmap is a bit of a byte.                     *)
LEMMA BitPlace ==
  ASSUME NEW i \in 0 .. Size - 1
  PROVE  \E b \in 0 .. Bytes - 1, k \in 0 .. ByteBits - 1 : i = b * ByteBits + k
<1> DEFINE S == {b \in Nat : i < (b + 1) * ByteBits}
<1>1. i \in Nat /\ i < Size /\ ByteBits \in Nat \ {0} /\ Bytes \in Nat \ {0}
  BY SizeIs
<1>2. Bytes - 1 \in S
  BY <1>1 DEF Size
<1>3. PICK m \in S : \A n \in S : m <= n
  BY <1>2, LeastNat
<1>4. /\ m \in Nat /\ m <= Bytes - 1 /\ i < (m + 1) * ByteBits
  BY <1>2, <1>3
<1>5. m * ByteBits <= i
  <2>1. CASE m = 0
    BY <1>1, <2>1
  <2>2. CASE m # 0
    <3>1. m - 1 \in Nat /\ m - 1 \notin S /\ (m - 1) + 1 = m
      BY <1>3, <1>4, <2>2
    <3>2. ~(i < m * ByteBits)
      BY <3>1
    <3>3. m * ByteBits \in Int
      BY <1>1, <1>4
    <3>4. QED
      BY <1>1, <3>2, <3>3
  <2>3. QED
    BY <2>1, <2>2
<1>6. (m + 1) * ByteBits = m * ByteBits + ByteBits /\ m * ByteBits \in Int
  BY <1>1, <1>4
<1>7. i - m * ByteBits \in 0 .. ByteBits - 1 /\ i = m * ByteBits + (i - m * ByteBits)
  BY <1>1, <1>4, <1>5, <1>6
<1>8. m \in 0 .. Bytes - 1
  BY <1>1, <1>4
<1>9. QED
  BY <1>7, <1>8

FreeBits == {i \in 0 .. Size - 1 : ~bits[i]}

(* The search by bytes and then by bits finds the first free bit.          *)
LEMMA FirstFree ==
  /\ FreeBytes = {} <=> FreeBits = {}
  /\ FreeBits # {} => first_free \in FreeBits /\ \A i \in FreeBits : first_free <= i
<1>1. ASSUME NEW i \in FreeBits
      PROVE  \E b \in FreeBytes, k \in 0 .. ByteBits - 1 :
               i = b * ByteBits + k /\ ~bits[b * ByteBits + k]
  <2>1. i \in 0 .. Size - 1 /\ ~bits[i]
    BY DEF FreeBits
  <2>2. PICK b \in 0 .. Bytes - 1, k \in 0 .. ByteBits - 1 : i = b * ByteBits + k
    BY <2>1, BitPlace
  <2>3. ~bits[b * ByteBits + k]
    BY <2>1, <2>2
  <2>4. b \in FreeBytes
    BY <2>3 DEF FreeBytes
  <2>5. QED
    BY <2>2, <2>3, <2>4
<1>2. ASSUME NEW b \in 0 .. Bytes - 1, NEW k \in 0 .. ByteBits - 1, ~bits[b * ByteBits + k]
      PROVE  b * ByteBits + k \in FreeBits
  BY <1>2, BitInside DEF FreeBits
<1>3. FreeBytes = {} <=> FreeBits = {}
  BY <1>1, <1>2 DEF FreeBytes
<1>4. ASSUME FreeBits # {}
      PROVE  first_free \in FreeBits /\ \A i \in FreeBits : first_free <= i
  <2> DEFINE b == Min(FreeBytes)
             K(a) == {k \in 0 .. ByteBits - 1 : ~bits[a * ByteBits + k]}
             k == Min(K(b))
  <2>1. FreeBytes \in SUBSET Nat /\ FreeBytes # {}
    BY <1>3, <1>4, SizeIs DEF FreeBytes
  <2>2. b \in FreeBytes /\ \A a \in FreeBytes : b <= a
    BY <2>1, MinIs
  <2>3. first_free = b * ByteBits + k
    BY DEF first_free
  <2> HIDE DEF b
  <2>4. b \in 0 .. Bytes - 1 /\ b \in Nat /\ K(b) # {}
    <3>1. b \in 0 .. Bytes - 1
      BY <2>2 DEF FreeBytes
    <3>2. \E i \in 0 .. ByteBits - 1 : ~bits[b * ByteBits + i]
      BY <2>2 DEF FreeBytes
    <3>3. K(b) # {}
      BY <3>2
    <3>4. b \in Nat
      BY <3>1, SizeIs
    <3>5. QED
      BY <3>1, <3>3, <3>4
  <2>5. K(b) \in SUBSET Nat
    BY SizeIs
  <2>6. k \in K(b) /\ \A j \in K(b) : k <= j
    <3> HIDE DEF K
    <3>1. QED
      BY <2>4, <2>5, MinIs
  <2> HIDE DEF k
  <2>7. k \in 0 .. ByteBits - 1 /\ ~bits[b * ByteBits + k]
    BY <2>6
  <2>8. first_free \in FreeBits
    BY <1>2, <2>4, <2>3, <2>7
  <2>9. ASSUME NEW i \in FreeBits
        PROVE  first_free <= i
    <3>1. PICK a \in FreeBytes, j \in 0 .. ByteBits - 1 :
            i = a * ByteBits + j /\ ~bits[a * ByteBits + j]
      BY <1>1
    <3>2. a \in Nat /\ b <= a /\ i \in Int /\ first_free \in Int
      BY <2>1, <2>2, <2>8, SizeIs DEF FreeBits
    <3>3. CASE a = b
      <4>1. j \in K(b)
        BY <3>1, <3>3
      <4>2. k <= j /\ b * ByteBits \in Int
        BY <2>4, <2>6, <4>1, SizeIs
      <4>3. QED
        BY <2>3, <2>7, <3>1, <3>3, <4>2, SizeIs
    <3>4. CASE a # b
      <4>1. b < a
        BY <2>4, <3>2, <3>4
      <4>2. b * ByteBits + k < a * ByteBits + j
        BY <2>4, <2>7, <3>2, <4>1, BitOrder
      <4>3. QED
        BY <2>3, <3>1, <3>2, <4>2
    <3>5. QED
      BY <3>3, <3>4
  <2>10. QED
    BY <2>8, <2>9
<1>5. QED
  BY <1>3, <1>4

-----------------------------------------------------------------------------
(* The loop's count.                                                       *)

Counts(c, first) ==
  c = [n \in first .. Size |-> IF n = first THEN 1 ELSE IF bits[n] THEN 0 ELSE c[n - 1] + 1]

(* How far back from n a taken bit is, or the start of the count.          *)
Stops(first, n) == {k \in 0 .. n - first + 1 : k = n - first + 1 \/ bits[n - k]}

(* The closed form satisfies the equation of the count.                    *)
LEMMA StopsNext ==
  ASSUME NEW first \in 0 .. Size - 1, ~bits[first], NEW n \in first .. Size
  PROVE  /\ Stops(first, n) \in SUBSET Nat /\ Stops(first, n) # {}
         /\ n = first => Min(Stops(first, n)) = 1
         /\ n # first /\ bits[n] => Min(Stops(first, n)) = 0
         /\ n # first /\ ~bits[n] => Min(Stops(first, n)) = Min(Stops(first, n - 1)) + 1
<1>1. /\ first \in Nat /\ n \in Nat /\ first <= n /\ Size \in Nat
  BY SizeIs
<1>2. ASSUME NEW j \in first .. Size
      PROVE  /\ Stops(first, j) \in SUBSET Nat /\ Stops(first, j) # {}
             /\ j - first + 1 \in Stops(first, j)
  <2>1. j - first + 1 \in 0 .. j - first + 1 /\ j - first + 1 \in Nat
    BY <1>1
  <2>2. 0 .. j - first + 1 \subseteq Nat
    BY <2>1
  <2>3. Stops(first, j) \in SUBSET Nat
    BY <2>2 DEF Stops
  <2>4. j - first + 1 \in Stops(first, j)
    BY <2>1 DEF Stops
  <2>5. QED
    BY <2>3, <2>4
<1>3. ASSUME n = first
      PROVE  Min(Stops(first, n)) = 1
  <2>1. 1 \in Stops(first, n)
    BY <1>1, <1>3 DEF Stops
  <2>2. 0 \notin Stops(first, n)
    BY <1>1, <1>3 DEF Stops
  <2>3. \A k \in Stops(first, n) : 1 <= k
    BY <1>2, <2>2
  <2>4. QED
    BY <1>2, <2>1, <2>3, MinUnique
<1>4. ASSUME n # first, bits[n]
      PROVE  Min(Stops(first, n)) = 0
  <2>1. 0 \in Stops(first, n)
    BY <1>1, <1>4 DEF Stops
  <2>2. \A k \in Stops(first, n) : 0 <= k
    BY <1>2
  <2>3. QED
    BY <1>2, <2>1, <2>2, MinUnique
<1>5. ASSUME n # first, ~bits[n]
      PROVE  Min(Stops(first, n)) = Min(Stops(first, n - 1)) + 1
  <2> DEFINE m == Min(Stops(first, n - 1))
  <2>1. n - 1 \in first .. Size
    BY <1>1, <1>5
  <2>2. m \in Stops(first, n - 1) /\ \A k \in Stops(first, n - 1) : m <= k
    BY <1>2, <2>1, MinIs
  <2> HIDE DEF m
  <2>3. m \in Nat
    BY <1>2, <2>1, <2>2
  <2>4. m + 1 \in Stops(first, n)
    <3>1. m \in 0 .. (n - 1) - first + 1
      BY <2>2 DEF Stops
    <3>2. m = (n - 1) - first + 1 \/ bits[(n - 1) - m]
      BY <2>2 DEF Stops
    <3>3. (n - 1) - m = n - (m + 1)
      BY <1>1, <2>3
    <3>4. m + 1 \in 0 .. n - first + 1 /\ (m = (n - 1) - first + 1 => m + 1 = n - first + 1)
      BY <1>1, <2>3, <3>1
    <3>5. QED
      BY <3>2, <3>3, <3>4 DEF Stops
  <2>5. ASSUME NEW k \in Stops(first, n)
        PROVE  m + 1 <= k
    <3>1. k \in 0 .. n - first + 1 /\ (k = n - first + 1 \/ bits[n - k])
      BY DEF Stops
    <3>2. k # 0
      BY <1>1, <1>5, <3>1
    <3>3. /\ k - 1 \in 0 .. (n - 1) - first + 1 /\ (n - 1) - (k - 1) = n - k
          /\ k = n - first + 1 => k - 1 = (n - 1) - first + 1
      BY <1>1, <3>1, <3>2
    <3>4. k - 1 \in Stops(first, n - 1)
      BY <3>1, <3>3 DEF Stops
    <3>5. m <= k - 1
      BY <2>2, <3>4
    <3>6. QED
      BY <1>1, <2>3, <3>1, <3>3, <3>5
  <2>6. Min(Stops(first, n)) = m + 1
    <3>1. Stops(first, n) \in SUBSET Nat
      BY <1>2
    <3>2. QED
      BY <2>4, <2>5, <3>1, MinUnique
  <2>7. QED
    BY <2>6 DEF m
<1>6. QED
  BY <1>2, <1>3, <1>4, <1>5

(* The count when next_bit is n.                                           *)
LEMMA CountIs ==
  ASSUME FreeBits # {}, NEW n \in first_free .. Size
  PROVE  counted[n] = Min(Stops(first_free, n))
<1> DEFINE f == first_free
           w == [i \in f .. Size |-> Min(Stops(f, i))]
<1>1. f \in 0 .. Size - 1 /\ ~bits[f] /\ Size \in Nat /\ n \in f .. Size
  BY FirstFree, SizeIs DEF FreeBits
<1>2. counted = CHOOSE c : Counts(c, f)
  BY DEF counted, Counts
<1> HIDE DEF f
<1>3. ASSUME NEW i \in f .. Size
      PROVE  Min(Stops(f, i)) = IF i = f THEN 1 ELSE IF bits[i] THEN 0
                                ELSE Min(Stops(f, i - 1)) + 1
  BY <1>1, StopsNext
<1>4. Counts(w, f)
  <2>1. ASSUME NEW i \in f .. Size, i # f
        PROVE  w[i - 1] = Min(Stops(f, i - 1))
    <3>1. i - 1 \in f .. Size
      BY <1>1, <2>1
    <3>2. QED
      BY <3>1
  <2>2. w = [i \in f .. Size |-> IF i = f THEN 1 ELSE IF bits[i] THEN 0 ELSE w[i - 1] + 1]
    BY <1>3, <2>1
  <2> HIDE DEF w
  <2>3. QED
    BY <2>2 DEF Counts
<1>5. Counts(counted, f)
  BY <1>2, <1>4
<1>6. ASSUME NEW i \in f .. Size
      PROVE  counted[i] = IF i = f THEN 1 ELSE IF bits[i] THEN 0 ELSE counted[i - 1] + 1
  BY <1>5 DEF Counts
<1> DEFINE S == {i \in f .. Size : counted[i] # Min(Stops(f, i))}
<1>7. ASSUME S # {}
      PROVE  FALSE
  <2>1. S \in SUBSET Nat
    BY <1>1
  <2>2. PICK m \in S : \A i \in S : m <= i
    BY <1>7, <2>1, LeastNat
  <2>3. m \in f .. Size /\ counted[m] # Min(Stops(f, m))
    BY <2>2
  <2>4. m # f => m - 1 \in f .. Size /\ m - 1 \notin S
    BY <1>1, <2>2, <2>3
  <2>5. m # f => counted[m - 1] = Min(Stops(f, m - 1))
    BY <2>4
  <2> HIDE DEF S
  <2>6. QED
    BY <1>3, <1>6, <2>3, <2>5
<1>8. counted[n] = Min(Stops(f, n))
  BY <1>1, <1>7
<1>9. QED
  BY <1>8 DEF f

(* It is the number of free bits that end at n, counted from first_free.   *)
CountFacts(f, n, k) ==
  /\ k \in 0 .. n - f + 1
  /\ \A j \in n - k + 1 .. n : ~bits[j]
  /\ k = n - f + 1 \/ bits[n - k]

(* The count has these three properties, and no other number has them.     *)
LEMMA CountRun ==
  ASSUME FreeBits # {}, NEW n \in first_free .. Size
  PROVE  /\ CountFacts(first_free, n, counted[n])
         /\ \A k : CountFacts(first_free, n, k) => counted[n] = k
<1> DEFINE f == first_free
           c == counted[n]
<1>1. f \in 0 .. Size - 1 /\ ~bits[f] /\ Size \in Nat /\ n \in f .. Size /\ f \in Nat /\ n \in Nat
  BY FirstFree, SizeIs DEF FreeBits
<1>2. c = Min(Stops(f, n))
  BY CountIs
<1> HIDE DEF f, c
<1>3. Stops(f, n) \in SUBSET Nat /\ Stops(f, n) # {}
  BY <1>1, StopsNext
<1>4. c \in Stops(f, n) /\ \A k \in Stops(f, n) : c <= k
  BY <1>2, <1>3, MinIs
<1>5. c \in 0 .. n - f + 1 /\ (c = n - f + 1 \/ bits[n - c])
  BY <1>4 DEF Stops
<1>6. ASSUME NEW j \in n - c + 1 .. n, bits[j]
      PROVE  FALSE
  <2>1. j \in Int /\ n - j \in 0 .. n - f + 1 /\ n - (n - j) = j /\ ~(c <= n - j)
    BY <1>1, <1>5
  <2>2. n - j \in Stops(f, n)
    BY <1>6, <2>1 DEF Stops
  <2>3. QED
    BY <1>4, <2>1, <2>2
<1>7. ASSUME NEW k, CountFacts(f, n, k)
      PROVE  c = k
  <2>1. k \in 0 .. n - f + 1 /\ (k = n - f + 1 \/ bits[n - k]) /\ \A j \in n - k + 1 .. n : ~bits[j]
    BY <1>7 DEF CountFacts
  <2>2. k \in Stops(f, n)
    BY <2>1 DEF Stops
  <2>3. c <= k
    BY <1>4, <2>2
  <2>4. CASE c < k
    <3>1. n - c \in n - k + 1 .. n /\ c # n - f + 1
      BY <1>1, <1>5, <2>1, <2>4
    <3>2. QED
      BY <1>5, <2>1, <3>1
  <2>5. QED
    BY <1>1, <1>5, <2>1, <2>3, <2>4
<1>8. CountFacts(f, n, c)
  BY <1>5, <1>6 DEF CountFacts
<1>9. QED
  BY <1>7, <1>8 DEF f, c

(* Where the loop stops, cnt free bits end.                                *)
LEMMA HitIsFree ==
  ASSUME FreeBits # {}, NEW cnt \in Nat, cnt > 1, NEW n \in Hits(cnt)
  PROVE  /\ n \in 1 .. Size /\ n - cnt + 1 \in 0 .. Size - 1 /\ first_free <= n - cnt + 1
         /\ \A j \in n - cnt + 1 .. n : ~bits[j]
<1> DEFINE f == first_free
<1>1. f \in 0 .. Size - 1 /\ Size \in Nat /\ f \in Nat
  BY FirstFree, SizeIs DEF FreeBits
<1>2. n \in f + 1 .. Size /\ counted[n] = cnt
  BY DEF Hits
<1>3. n \in f .. Size
  BY <1>1, <1>2
<1>4. CountFacts(f, n, cnt)
  BY <1>2, <1>3, CountRun
<1> HIDE DEF f
<1>5. cnt <= n - f + 1 /\ \A j \in n - cnt + 1 .. n : ~bits[j]
  BY <1>1, <1>3, <1>4 DEF CountFacts
<1>6. n \in 1 .. Size /\ n - cnt + 1 \in 0 .. Size - 1 /\ f <= n - cnt + 1
  BY <1>1, <1>2, <1>5
<1>7. QED
  BY <1>5, <1>6 DEF f

(* The loop stops at the end of the lowest place.                          *)
LEMMA PlaceIsHit ==
  ASSUME FreeBits # {}, NEW cnt \in Nat, cnt > 1, NEW i \in Places(cnt),
         \A j \in Places(cnt) : i <= j
  PROVE  i + cnt - 1 \in Hits(cnt)
<1> DEFINE f == first_free
           n == i + cnt - 1
<1>1. /\ f \in 0 .. Size - 1 /\ Size \in Nat /\ f \in Nat
      /\ \A j \in FreeBits : f <= j
  BY FirstFree, SizeIs DEF FreeBits
<1>2. i \in 0 .. Size - cnt /\ \A j \in i .. i + cnt - 1 : ~bits[j]
  BY DEF Places
<1>3. i \in 0 .. Size - 1 /\ i \in i .. i + cnt - 1 /\ n \in Nat /\ i \in Nat
  BY <1>1, <1>2
<1>4. i \in FreeBits
  BY <1>2, <1>3 DEF FreeBits
<1> HIDE DEF f
<1>5. f <= i
  BY <1>1, <1>4
<1>6. n \in f + 1 .. Size /\ n \in f .. Size /\ n <= Size - 1
  BY <1>1, <1>2, <1>3, <1>5
<1>7. i = f \/ bits[i - 1]
  <2>1. ASSUME i # f, ~bits[i - 1]
        PROVE  FALSE
    <3>1. i - 1 \in 0 .. Size - cnt
      BY <1>1, <1>2, <1>3, <1>5, <2>1
    <3>2. \A j \in i - 1 .. (i - 1) + cnt - 1 : j = i - 1 \/ j \in i .. i + cnt - 1
      BY <1>3
    <3>3. i - 1 \in Places(cnt)
      BY <1>2, <2>1, <3>1, <3>2 DEF Places
    <3>4. QED
      BY <1>3, <3>3
  <2>2. QED
    BY <2>1
<1>8. CountFacts(f, n, cnt)
  <2>1. n - cnt + 1 = i /\ n - cnt = i - 1
    BY <1>3
  <2>2. cnt \in 0 .. n - f + 1 /\ (i = f => cnt = n - f + 1)
    BY <1>1, <1>3, <1>5
  <2>3. QED
    BY <1>2, <1>7, <2>1, <2>2 DEF CountFacts
<1>9. counted[n] = cnt
  <2> HIDE DEF n
  <2>1. QED
    BY <1>6, <1>8, CountRun DEF f
<1>10. QED
  BY <1>6, <1>9 DEF Hits, f

(* What bitmap_scan hands out is free, and reaches at most one bit beyond  *)
(* the bitmap.                                                             *)
LEMMA ScanIsFree ==
  ASSUME NEW cnt \in 1 .. MaxRun, bitmap_scan(cnt) >= 0
  PROVE  /\ bitmap_scan(cnt) \in 0 .. Size - 1
         /\ bitmap_scan(cnt) + cnt - 1 <= Size
         /\ \A j \in bitmap_scan(cnt) .. bitmap_scan(cnt) + cnt - 1 : ~bits[j]
<1> DEFINE i == bitmap_scan(cnt)
<1>1. cnt \in Nat /\ Size \in Nat
  BY BitmapAssumption, SizeIs
<1>2. FreeBytes # {}
  <2>1. ASSUME FreeBytes = {}
        PROVE  FALSE
    <3>1. bitmap_scan(cnt) = -2
      BY <2>1 DEF bitmap_scan, Fails
    <3>2. QED
      BY <3>1
  <2>2. QED
    BY <2>1
<1>3. FreeBits # {}
  BY <1>2, FirstFree
<1>4. first_free \in 0 .. Size - 1 /\ ~bits[first_free]
  BY <1>3, FirstFree DEF FreeBits
<1>5. CASE cnt = 1
  <2>1. i = first_free
    BY <1>2, <1>5 DEF bitmap_scan
  <2>2. QED
    BY <1>1, <1>4, <1>5, <2>1
<1>6. CASE cnt # 1
  <2>1. Hits(cnt) # {}
    <3>1. ASSUME Hits(cnt) = {}
          PROVE  FALSE
      <4>1. bitmap_scan(cnt) = -1
        BY <1>2, <1>6, <3>1 DEF bitmap_scan
      <4>2. QED
        BY <4>1
    <3>2. QED
      BY <3>1
  <2> DEFINE n == Min(Hits(cnt))
  <2>2. i = n - cnt + 1
    BY <1>2, <1>6, <2>1 DEF bitmap_scan
  <2>3. Hits(cnt) \in SUBSET Nat
    BY <1>1, <1>4 DEF Hits
  <2>4. n \in Hits(cnt)
    BY <2>1, <2>3, MinIs
  <2> HIDE DEF n, i
  <2>5. cnt > 1
    BY <1>1, <1>6
  <2>6. /\ n \in 1 .. Size /\ n - cnt + 1 \in 0 .. Size - 1
        /\ \A j \in n - cnt + 1 .. n : ~bits[j]
    BY <1>1, <1>3, <2>4, <2>5, HitIsFree
  <2>7. i + cnt - 1 = n
    BY <1>1, <2>2, <2>6
  <2>8. i \in 0 .. Size - 1 /\ i + cnt - 1 <= Size /\ \A j \in i .. i + cnt - 1 : ~bits[j]
    BY <1>1, <2>2, <2>6, <2>7
  <2>9. QED
    BY <2>8 DEF i
<1>7. QED
  BY <1>5, <1>6

(* bitmap_scan finds the lowest place.                                     *)
LEMMA ScanIsFirst ==
  ASSUME NEW cnt \in 1 .. MaxRun, Places(cnt) # {}
  PROVE  bitmap_scan(cnt) = Min(Places(cnt))
<1> DEFINE i == Min(Places(cnt))
<1>1. cnt \in Nat /\ cnt >= 1 /\ Size \in Nat
  BY BitmapAssumption, SizeIs
<1>2. Places(cnt) \in SUBSET Nat
  BY <1>1 DEF Places
<1>3. i \in Places(cnt) /\ \A j \in Places(cnt) : i <= j
  BY <1>2, MinIs
<1> HIDE DEF i
<1>4. i \in 0 .. Size - cnt /\ \A j \in i .. i + cnt - 1 : ~bits[j]
  BY <1>3 DEF Places
<1>5. i \in 0 .. Size - 1 /\ i \in i .. i + cnt - 1 /\ i \in FreeBits
  <2>1. i \in 0 .. Size - 1 /\ i \in i .. i + cnt - 1
    BY <1>1, <1>4
  <2>2. QED
    BY <1>4, <2>1 DEF FreeBits
<1>6. FreeBits # {} /\ FreeBytes # {}
  BY <1>5, FirstFree
<1>7. CASE cnt = 1
  <2>1. bitmap_scan(cnt) = first_free
    BY <1>6, <1>7 DEF bitmap_scan
  <2>2. first_free \in FreeBits /\ first_free <= i
    BY <1>5, <1>6, FirstFree
  <2>3. first_free \in 0 .. Size - 1 /\ ~bits[first_free]
    BY <2>2 DEF FreeBits
  <2>4. first_free \in Places(cnt)
    <3>1. first_free \in 0 .. Size - cnt
      BY <1>1, <1>7, <2>3
    <3>2. \A j \in first_free .. first_free + cnt - 1 : j = first_free
      BY <1>7, <2>3
    <3>3. QED
      BY <2>3, <3>1, <3>2 DEF Places
  <2>5. i <= first_free
    BY <1>3, <2>4
  <2>6. bitmap_scan(cnt) = i
    BY <1>5, <2>1, <2>2, <2>3, <2>5
  <2>7. QED
    BY <2>6 DEF i
<1>8. CASE cnt # 1
  <2>1. cnt > 1
    BY <1>1, <1>8
  <2>2. i + cnt - 1 \in Hits(cnt)
    BY <1>1, <1>3, <1>6, <2>1, PlaceIsHit
  <2>3. Hits(cnt) \in SUBSET Nat
    <3>1. first_free \in 0 .. Size - 1
      BY <1>6, FirstFree DEF FreeBits
    <3>2. QED
      BY <1>1, <3>1 DEF Hits
  <2>4. ASSUME NEW n \in Hits(cnt)
        PROVE  i + cnt - 1 <= n
    <3>1. /\ n \in 1 .. Size /\ n - cnt + 1 \in 0 .. Size - 1
          /\ \A j \in n - cnt + 1 .. n : ~bits[j]
      BY <1>1, <1>6, <2>1, HitIsFree
    <3>2. CASE n = Size
      BY <1>1, <1>4, <3>2
    <3>3. CASE n # Size
      <4>1. n - cnt + 1 \in 0 .. Size - cnt /\ (n - cnt + 1) + cnt - 1 = n
        BY <1>1, <3>1, <3>3
      <4>2. n - cnt + 1 \in Places(cnt)
        BY <3>1, <4>1 DEF Places
      <4>3. i <= n - cnt + 1
        BY <1>3, <4>2
      <4>4. QED
        BY <1>1, <1>5, <3>1, <4>3
    <3>4. QED
      BY <3>2, <3>3
  <2>5. Min(Hits(cnt)) = i + cnt - 1
    BY <2>2, <2>3, <2>4, MinUnique
  <2>6. bitmap_scan(cnt) = Min(Hits(cnt)) - cnt + 1
    BY <1>6, <1>8, <2>2 DEF bitmap_scan
  <2>7. bitmap_scan(cnt) = i
    BY <1>1, <1>5, <2>5, <2>6
  <2>8. QED
    BY <2>7 DEF i
<1>9. QED
  BY <1>7, <1>8

(* Without a place, and with the bit beyond taken, it fails.               *)
LEMMA ScanFails ==
  ASSUME NEW cnt \in 1 .. MaxRun, Places(cnt) = {}, bits[Size]
  PROVE  bitmap_scan(cnt) < 0
<1> DEFINE i == bitmap_scan(cnt)
<1>1. cnt \in Nat /\ cnt >= 1 /\ Size \in Nat
  BY BitmapAssumption, SizeIs
<1>2. ASSUME i >= 0
      PROVE  FALSE
  <2>1. i \in 0 .. Size - 1 /\ i + cnt - 1 <= Size /\ \A j \in i .. i + cnt - 1 : ~bits[j]
    BY <1>2, ScanIsFree
  <2> HIDE DEF i
  <2>2. CASE i + cnt - 1 = Size
    <3>1. Size \in i .. i + cnt - 1
      BY <1>1, <2>1, <2>2
    <3>2. QED
      BY <2>1, <3>1
  <2>3. CASE i + cnt - 1 # Size
    <3>1. i \in 0 .. Size - cnt
      BY <1>1, <2>1, <2>3
    <3>2. i \in Places(cnt)
      BY <2>1, <3>1 DEF Places
    <3>3. QED
      BY <3>2
  <2>4. QED
    BY <2>2, <2>3
<1>3. i \in Int
  <2>1. CASE FreeBytes = {}
    BY <2>1 DEF bitmap_scan, Fails
  <2>2. CASE FreeBytes # {}
    <3>1. first_free \in 0 .. Size - 1
      BY <2>2, FirstFree DEF FreeBits
    <3>2. Hits(cnt) \in SUBSET Nat
      BY <1>1, <3>1 DEF Hits
    <3>3. Hits(cnt) # {} => Min(Hits(cnt)) \in Nat
      BY <3>2, MinIs
    <3>4. QED
      BY <1>1, <2>2, <3>1, <3>3 DEF bitmap_scan
  <2>3. QED
    BY <2>1, <2>2
<1>4. QED
  BY <1>2, <1>3

-----------------------------------------------------------------------------
(* The runs are disjoint and mark exactly the bits that are taken; a run   *)
(* that bitmap_scan found at the bitmap's end may hold the bit beyond.     *)
BitmapInv ==
  /\ BitmapTypeOK
  /\ \A r, q \in runs : r # q => Span(r) \cap Span(q) = {}
  /\ \A r \in runs : \A i \in Span(r) : i \in 0 .. Size /\ bits[i]
  /\ \A i \in 0 .. Size - 1 : bits[i] => \E r \in runs : i \in Span(r)

(* An empty bitmap has no runs.                                            *)
LEMMA BitmapInitInv == BitmapInit => BitmapInv
<1> SUFFICES ASSUME BitmapInit PROVE BitmapInv
  OBVIOUS
<1>1. PICK b \in Beyond : bits = [i \in 0 .. Size |-> IF i = Size THEN b ELSE FALSE]
  BY DEF BitmapInit
<1>2. b \in BOOLEAN /\ Size \in Nat
  BY BitmapAssumption, SizeIs
<1>3. bits \in [0 .. Size -> BOOLEAN] /\ \A i \in 0 .. Size - 1 : ~bits[i]
  <2>1. bits \in [0 .. Size -> BOOLEAN]
    BY <1>1, <1>2
  <2>2. ASSUME NEW i \in 0 .. Size - 1
        PROVE  ~bits[i]
    <3>1. i \in 0 .. Size /\ i # Size
      BY <1>2
    <3>2. QED
      BY <1>1, <3>1
  <2>3. QED
    BY <2>1, <2>2
<1>4. runs = {} /\ panic = FALSE
  BY DEF BitmapInit
<1>5. BitmapTypeOK
  BY <1>3, <1>4 DEF BitmapTypeOK
<1>6. QED
  BY <1>3, <1>4, <1>5 DEF BitmapInv

(* A run is handed out: its bits were free, so it meets no other run.      *)
LEMMA AllocateInv ==
  ASSUME BitmapInv, NEW cnt \in 1 .. MaxRun, Allocate(cnt)
  PROVE  BitmapInv'
<1> DEFINE i == bitmap_scan(cnt)
           new == [start |-> i, cnt |-> cnt]
<1>1. /\ bits \in [0 .. Size -> BOOLEAN] /\ Size \in Nat /\ cnt \in Nat
      /\ runs \subseteq [start : 0 .. Size - 1, cnt : 1 .. MaxRun] /\ panic \in BOOLEAN
  BY SizeIs, BitmapAssumption DEF BitmapInv, BitmapTypeOK
<1>2. CASE i >= 0 /\ bitmap_set(i, cnt, TRUE) /\ runs' = runs \cup {new} /\ UNCHANGED panic
  <2>1. i \in 0 .. Size - 1 /\ i + cnt - 1 <= Size /\ \A j \in i .. i + cnt - 1 : ~bits[j]
    BY <1>2, ScanIsFree
  <2> HIDE DEF i
  <2>2. new \in [start : 0 .. Size - 1, cnt : 1 .. MaxRun] /\ Span(new) = i .. i + cnt - 1
    BY <2>1 DEF Span
  <2>3. bits' = [j \in 0 .. Size |-> IF j \in Span(new) THEN TRUE ELSE bits[j]]
    BY <1>2, <2>2 DEF bitmap_set
  <2>4. Span(new) \subseteq 0 .. Size /\ \A j \in Span(new) : ~bits[j]
    BY <1>1, <2>1, <2>2
  <2> HIDE DEF new
  <2>5. BitmapTypeOK'
    <3>1. bits' \in [0 .. Size -> BOOLEAN]
      BY <1>1, <2>3
    <3>2. QED
      BY <1>1, <1>2, <2>2, <3>1 DEF BitmapTypeOK
  <2>6. \A r \in runs : Span(r) \cap Span(new) = {}
    BY <2>4 DEF BitmapInv
  <2>7. ASSUME NEW r \in runs', NEW q \in runs', r # q
        PROVE  Span(r) \cap Span(q) = {}
    BY <1>2, <2>6, <2>7 DEF BitmapInv
  <2>8. ASSUME NEW r \in runs', NEW j \in Span(r)
        PROVE  j \in 0 .. Size /\ bits'[j]
    <3>1. CASE r = new
      BY <2>3, <2>4, <2>8, <3>1
    <3>2. CASE r \in runs
      BY <2>3, <2>8, <3>2 DEF BitmapInv
    <3>3. QED
      BY <1>2, <3>1, <3>2
  <2>9. ASSUME NEW j \in 0 .. Size - 1, bits'[j]
        PROVE  \E r \in runs' : j \in Span(r)
    <3>1. j \in Span(new) \/ bits[j]
      BY <1>1, <2>3, <2>9
    <3>2. bits[j] => \E r \in runs : j \in Span(r)
      BY DEF BitmapInv
    <3>3. QED
      BY <1>2, <3>1, <3>2
  <2>10. QED
    BY <2>5, <2>7, <2>8, <2>9 DEF BitmapInv, Span
<1>3. CASE UNCHANGED <<bits, runs>> /\ panic' = (i = Fails)
  <2>1. panic' \in BOOLEAN
    BY <1>3
  <2>2. BitmapTypeOK'
    BY <1>1, <1>3, <2>1 DEF BitmapTypeOK
  <2>3. QED
    BY <1>3, <2>2 DEF BitmapInv, Span
<1>4. QED
  BY <1>2, <1>3 DEF Allocate

(* A run is taken back: the other runs keep their bits.                    *)
LEMMA FreeInv ==
  ASSUME BitmapInv, NEW r \in runs, Free(r)
  PROVE  BitmapInv'
<1>1. /\ bits \in [0 .. Size -> BOOLEAN] /\ Size \in Nat
      /\ runs \subseteq [start : 0 .. Size - 1, cnt : 1 .. MaxRun] /\ panic \in BOOLEAN
  BY SizeIs DEF BitmapInv, BitmapTypeOK
<1>2. /\ bits' = [j \in 0 .. Size |-> IF j \in Span(r) THEN FALSE ELSE bits[j]]
      /\ runs' = runs \ {r} /\ panic' = panic
  BY DEF Free, bitmap_set, Span
<1>3. BitmapTypeOK'
  <2>1. bits' \in [0 .. Size -> BOOLEAN]
    BY <1>1, <1>2
  <2>2. QED
    BY <1>1, <1>2, <2>1 DEF BitmapTypeOK
<1>4. ASSUME NEW p \in runs', NEW q \in runs', p # q
      PROVE  Span(p) \cap Span(q) = {}
  BY <1>2, <1>4 DEF BitmapInv
<1>5. ASSUME NEW q \in runs', NEW j \in Span(q)
      PROVE  j \in 0 .. Size /\ bits'[j]
  <2>1. q \in runs /\ q # r
    BY <1>2
  <2>2. j \in 0 .. Size /\ bits[j] /\ Span(r) \cap Span(q) = {}
    BY <2>1 DEF BitmapInv
  <2>3. QED
    BY <1>2, <1>5, <2>2
<1>6. ASSUME NEW j \in 0 .. Size - 1, bits'[j]
      PROVE  \E q \in runs' : j \in Span(q)
  <2>1. j \in 0 .. Size
    BY <1>1
  <2>2. j \notin Span(r) /\ bits[j]
    BY <1>2, <1>6, <2>1
  <2>3. PICK q \in runs : j \in Span(q)
    BY <2>2 DEF BitmapInv
  <2>4. QED
    BY <1>2, <2>2, <2>3
<1>7. QED
  BY <1>3, <1>4, <1>5, <1>6 DEF BitmapInv, Span

(* Every step keeps the bits and the runs in agreement.                    *)
LEMMA BitmapNextInv == BitmapInv /\ [BitmapNext]_bitmap_vars => BitmapInv'
<1> SUFFICES ASSUME BitmapInv, [BitmapNext]_bitmap_vars PROVE BitmapInv'
  OBVIOUS
<1>1. CASE UNCHANGED bitmap_vars
  BY <1>1 DEF bitmap_vars, BitmapInv, BitmapTypeOK, Span
<1>2. CASE BitmapNext
  BY <1>2, AllocateInv, FreeInv DEF BitmapNext
<1>3. QED
  BY <1>1, <1>2

(* The bits and the runs of a bitmap agree in every state (bitmap.c        *)
(* bitmap_set).                                                            *)
THEOREM BitmapInvariant == BitmapSpec => []BitmapInv
BY BitmapInitInv, BitmapNextInv, PTL DEF BitmapSpec

(* For a bitmap of any size nothing is handed out twice, and bitmap_scan,  *)
(* byte by byte, bit by bit and with its count, finds the lowest run of    *)
(* cnt free bits there is (bitmap.c bitmap_scan).                          *)
THEOREM ScanIsFirstFit == BitmapSpec => []FirstFit
<1>1. BitmapInv => FirstFit
  <2> SUFFICES ASSUME BitmapInv PROVE FirstFit
    OBVIOUS
  <2>1. \A cnt \in 1 .. MaxRun :
          /\ Places(cnt) # {} => bitmap_scan(cnt) = Min(Places(cnt))
          /\ Places(cnt) = {} /\ bits[Size] => bitmap_scan(cnt) < 0
    BY ScanIsFirst, ScanFails
  <2>2. {i \in 0 .. Size - 1 : bits[i]} = (UNION {Span(r) : r \in runs}) \ {Size}
    <3>1. ASSUME NEW i \in 0 .. Size - 1, bits[i]
          PROVE  i \in (UNION {Span(r) : r \in runs}) \ {Size}
      <4>1. PICK r \in runs : i \in Span(r)
        BY <3>1 DEF BitmapInv
      <4>2. i # Size
        BY SizeIs
      <4>3. QED
        BY <4>1, <4>2
    <3>2. ASSUME NEW i \in (UNION {Span(r) : r \in runs}) \ {Size}
          PROVE  i \in 0 .. Size - 1 /\ bits[i]
      <4>1. PICK r \in runs : i \in Span(r)
        OBVIOUS
      <4>2. i \in 0 .. Size /\ bits[i] /\ i # Size
        BY <4>1 DEF BitmapInv
      <4>3. QED
        BY <4>2, SizeIs
    <3>3. QED
      BY <3>1, <3>2
  <2>3. QED
    BY <2>1, <2>2 DEF BitmapInv, FirstFit
<1>2. QED
  BY <1>1, BitmapInvariant, PTL

-----------------------------------------------------------------------------
(* What the memory is made of.  The links of the lists are left out: free  *)
(* and used frames depend on none of them.                                 *)
ArenaPage(e) == "desc" \in DOMAIN e /\ e.desc \in {NoDesc} \cup (Proc \X Class)

IsMem(m) ==
  /\ m = [pool |-> m.pool, bits |-> m.bits, pte |-> m.pte, page |-> m.page,
          descs |-> m.descs, bad |-> m.bad]
  /\ m.pool \subseteq Frame /\ m.bits \in [Proc -> SUBSET VPage]
  /\ m.pte \in [Proc -> [VPage -> Frame \cup {NoFrame}]]
  /\ DOMAIN m.page = Frame /\ \A f \in Frame : ArenaPage(m.page[f])

(* The pages p maps.                                                       *)
Mapped(m, p) == {v \in VPage : m.pte[p][v] # NoFrame}

(* The pool is what page tables map, each frame once.                      *)
PoolOK(m) ==
  /\ \A f \in Frame : f \in m.pool <=> \E p \in Proc, v \in VPage : m.pte[p][v] = f
  /\ \A p, q \in Proc, v, w \in VPage :
       m.pte[p][v] = m.pte[q][w] /\ m.pte[p][v] # NoFrame => p = q /\ v = w

(* vaddr_bitmap says which pages are mapped.                               *)
BitsOK(m) == \A p \in Proc : Mapped(m, p) = m.bits[p]

(* The inductive invariant; after a panic nothing is claimed.              *)
MemoryInv ==
  /\ IsMem(mem) /\ status \in [Proc -> {"free", "live", "zombie"}]
  /\ mem.bad = "no" =>
       PoolOK(mem) /\ BitsOK(mem) /\ \A p \in Proc \ Live : mem.bits[p] = {}

(* bitmap_scan answers one of the free pages or frames.                    *)
LEMMA LeastIs ==
  ASSUME NEW S \in SUBSET Nat, S # {}
  PROVE  Least(S) \in S
BY LeastNat DEF Least

(* Pages and frames are numbers; 0 is no frame.                            *)
LEMMA PagesAndFrames ==
  /\ VPage \in SUBSET Nat /\ Frame \in SUBSET Nat /\ NoFrame \notin Frame
  /\ VPages \in Nat /\ VPage = 0 .. VPages - 1
BY MemoryAssumption DEF VPage, Frame, NoFrame

(* Updates of the memory, one field at a time.                             *)
LEMMA WithField ==
  ASSUME NEW m, IsMem(m), NEW x
  PROVE  /\ [m EXCEPT !.pool = x] = [pool |-> x, bits |-> m.bits, pte |-> m.pte,
                                     page |-> m.page, descs |-> m.descs, bad |-> m.bad]
         /\ [m EXCEPT !.bits = x] = [pool |-> m.pool, bits |-> x, pte |-> m.pte,
                                     page |-> m.page, descs |-> m.descs, bad |-> m.bad]
         /\ [m EXCEPT !.pte = x] = [pool |-> m.pool, bits |-> m.bits, pte |-> x,
                                     page |-> m.page, descs |-> m.descs, bad |-> m.bad]
         /\ [m EXCEPT !.page = x] = [pool |-> m.pool, bits |-> m.bits, pte |-> m.pte,
                                     page |-> x, descs |-> m.descs, bad |-> m.bad]
         /\ [m EXCEPT !.descs = x] = [pool |-> m.pool, bits |-> m.bits, pte |-> m.pte,
                                     page |-> m.page, descs |-> x, bad |-> m.bad]
         /\ [m EXCEPT !.bad = x] = [pool |-> m.pool, bits |-> m.bits, pte |-> m.pte,
                                     page |-> m.page, descs |-> m.descs, bad |-> x]
<1>1. m = [pool |-> m.pool, bits |-> m.bits, pte |-> m.pte, page |-> m.page,
           descs |-> m.descs, bad |-> m.bad]
  BY DEF IsMem
<1> DEFINE a == m.pool
           b == m.bits
           c == m.pte
           d == m.page
           e == m.descs
           g == m.bad
<1>2. m = [pool |-> a, bits |-> b, pte |-> c, page |-> d, descs |-> e, bad |-> g]
  BY <1>1
<1> HIDE DEF a, b, c, d, e, g
<1>3. /\ [m EXCEPT !.pool = x] = [pool |-> x, bits |-> b, pte |-> c, page |-> d, descs |-> e, bad |-> g]
      /\ [m EXCEPT !.bits = x] = [pool |-> a, bits |-> x, pte |-> c, page |-> d, descs |-> e, bad |-> g]
      /\ [m EXCEPT !.pte = x] = [pool |-> a, bits |-> b, pte |-> x, page |-> d, descs |-> e, bad |-> g]
  BY ONLY <1>2
<1>4. /\ [m EXCEPT !.page = x] = [pool |-> a, bits |-> b, pte |-> c, page |-> x, descs |-> e, bad |-> g]
      /\ [m EXCEPT !.descs = x] = [pool |-> a, bits |-> b, pte |-> c, page |-> d, descs |-> x, bad |-> g]
      /\ [m EXCEPT !.bad = x] = [pool |-> a, bits |-> b, pte |-> c, page |-> d, descs |-> e, bad |-> x]
  BY ONLY <1>2
<1>5. QED
  BY <1>3, <1>4 DEF a, b, c, d, e, g

-----------------------------------------------------------------------------
(* Steps that change links, counts and lists only.                         *)
SameFrames(m, m2) ==
  IsMem(m2) /\ m2.pool = m.pool /\ m2.bits = m.bits /\ m2.pte = m.pte

(* A panic.                                                                *)
LEMMA BadKeeps ==
  ASSUME NEW m, IsMem(m), NEW x
  PROVE  SameFrames(m, [m EXCEPT !.bad = x]) /\ [m EXCEPT !.bad = x].bad = x
BY WithField DEF SameFrames, IsMem

(* A list descriptor in the PCB.                                           *)
LEMMA DescsKeep ==
  ASSUME NEW m, IsMem(m), NEW x
  PROVE  SameFrames(m, [m EXCEPT !.descs = x]) /\ [m EXCEPT !.descs = x].bad = m.bad
BY WithField DEF SameFrames, IsMem

(* A page written, if it is still an arena afterwards.                     *)
LEMMA PageKeeps ==
  ASSUME NEW m, IsMem(m), NEW f, NEW e, f \in Frame => ArenaPage(e)
  PROVE  /\ SameFrames(m, [m EXCEPT !.page = [m.page EXCEPT ![f] = e]])
         /\ [m EXCEPT !.page = [m.page EXCEPT ![f] = e]].bad = m.bad
<1> DEFINE x == [m.page EXCEPT ![f] = e]
<1>1. DOMAIN x = Frame /\ \A g \in Frame : ArenaPage(x[g])
  BY DEF IsMem
<1> HIDE DEF x
<1>2. QED
  BY <1>1, WithField DEF SameFrames, IsMem, x

(* One pointer of a list.                                                  *)
LEMMA SetLinkKeeps ==
  ASSUME NEW m, IsMem(m), NEW p, NEW a, NEW field \in {"next", "prev"}, NEW x
  PROVE  SameFrames(m, SetLink(m, p, a, field, x))
<1>1. CASE m.bad # "no"
  BY <1>1 DEF SetLink, SameFrames
<1>2. CASE m.bad = "no" /\ ~Accessible(m, p, a)
  BY <1>2, BadKeeps DEF SetLink
<1>3. CASE m.bad = "no" /\ Accessible(m, p, a) /\ a[1] = "block"
  <2> DEFINE f == m.pte[p][a[2]]
             e == [m.page[f] EXCEPT ![field] = [m.page[f][field] EXCEPT ![a[3]] = x]]
  <2>1. SetLink(m, p, a, field, x) = [m EXCEPT !.page = [m.page EXCEPT ![f] = e]]
    BY <1>3 DEF SetLink
  <2>2. f \in Frame => ArenaPage(e)
    <3>1. f \in Frame => ArenaPage(m.page[f])
      BY DEF IsMem
    <3>2. QED
      BY <3>1 DEF ArenaPage
  <2> HIDE DEF f, e
  <2>3. QED
    BY <2>1, <2>2, PageKeeps
<1>4. CASE m.bad = "no" /\ Accessible(m, p, a) /\ a[1] # "block"
  <2> DEFINE x2 == [m.descs EXCEPT ![a[2]] = [m.descs[a[2]] EXCEPT ![a[3]] =
                                             [m.descs[a[2]][a[3]] EXCEPT ![field] = x]]]
  <2>1. SetLink(m, p, a, field, x) = [m EXCEPT !.descs = x2]
    BY <1>4 DEF SetLink
  <2> HIDE DEF x2
  <2>2. QED
    BY <2>1, DescsKeep
<1>5. QED
  BY <1>1, <1>2, <1>3, <1>4

(* list_append: four pointers.                                             *)
LEMMA AppendKeeps ==
  ASSUME NEW m, IsMem(m), NEW p, NEW d, NEW b
  PROVE  SameFrames(m, ListAppend(m, p, d, b))
<1> DEFINE last == Link(m, p, TailOf(d), "prev")
           m1 == SetLink(m, p, last, "next", b)
           m2 == SetLink(m1, p, b, "prev", last)
           m3 == SetLink(m2, p, b, "next", TailOf(d))
           m4 == SetLink(m3, p, TailOf(d), "prev", b)
<1>1. ListAppend(m, p, d, b) = m4
  BY DEF ListAppend
<1>2. SameFrames(m, m1)
  BY SetLinkKeeps
<1> HIDE DEF m1
<1>3. SameFrames(m1, m2)
  BY <1>2, SetLinkKeeps DEF SameFrames
<1> HIDE DEF m2
<1>4. SameFrames(m2, m3)
  BY <1>3, SetLinkKeeps DEF SameFrames
<1> HIDE DEF m3
<1>5. SameFrames(m3, m4)
  BY <1>4, SetLinkKeeps DEF SameFrames
<1> HIDE DEF m4
<1>6. QED
  BY <1>1, <1>2, <1>3, <1>4, <1>5 DEF SameFrames

(* list_append changes no arena's a->desc, which sys_free reads again.     *)
SameDescs(m, m2) == \A f \in Frame : m2.page[f].desc = m.page[f].desc

(* A field of an arena other than desc.                                    *)
LEMMA FieldDescs ==
  ASSUME NEW m, IsMem(m), NEW f, NEW field, field # "desc", NEW x
  PROVE  SameDescs(m, [m EXCEPT !.page = [m.page EXCEPT ![f] = [m.page[f] EXCEPT ![field] = x]]])
<1> DEFINE e == [m.page[f] EXCEPT ![field] = x]
           y == [m.page EXCEPT ![f] = e]
<1>1. f \in Frame => e.desc = m.page[f].desc
  BY DEF IsMem, ArenaPage
<1> HIDE DEF e
<1>2. \A g \in Frame : y[g].desc = m.page[g].desc
  BY <1>1 DEF IsMem
<1> HIDE DEF y
<1>3. [m EXCEPT !.page = y].page = y
  BY WithField
<1>4. QED
  BY <1>2, <1>3 DEF SameDescs, y, e

(* One pointer of a list.                                                  *)
LEMMA SetLinkDescs ==
  ASSUME NEW m, IsMem(m), NEW p, NEW a, NEW field \in {"next", "prev"}, NEW x
  PROVE  SameDescs(m, SetLink(m, p, a, field, x))
<1>1. CASE m.bad # "no"
  BY <1>1 DEF SetLink, SameDescs
<1>2. CASE m.bad = "no" /\ ~Accessible(m, p, a)
  <2>1. [m EXCEPT !.bad = "fault"].page = m.page
    BY WithField
  <2>2. QED
    BY <1>2, <2>1 DEF SetLink, SameDescs
<1>3. CASE m.bad = "no" /\ Accessible(m, p, a) /\ a[1] = "block"
  <2> DEFINE f == m.pte[p][a[2]]
             z == [m.page[f][field] EXCEPT ![a[3]] = x]
  <2>1. SetLink(m, p, a, field, x) =
          [m EXCEPT !.page = [m.page EXCEPT ![f] = [m.page[f] EXCEPT ![field] = z]]]
    BY <1>3 DEF SetLink
  <2> HIDE DEF f, z
  <2>2. field # "desc"
    OBVIOUS
  <2>3. SameDescs(m, [m EXCEPT !.page = [m.page EXCEPT ![f] = [m.page[f] EXCEPT ![field] = z]]])
    BY <2>2, FieldDescs
  <2>4. QED
    BY ONLY <2>1, <2>3
<1>4. CASE m.bad = "no" /\ Accessible(m, p, a) /\ a[1] # "block"
  <2> DEFINE x2 == [m.descs EXCEPT ![a[2]] = [m.descs[a[2]] EXCEPT ![a[3]] =
                                             [m.descs[a[2]][a[3]] EXCEPT ![field] = x]]]
  <2>1. SetLink(m, p, a, field, x) = [m EXCEPT !.descs = x2]
    BY <1>4 DEF SetLink
  <2> HIDE DEF x2
  <2>2. [m EXCEPT !.descs = x2].page = m.page
    BY WithField
  <2>3. QED
    BY <2>1, <2>2 DEF SameDescs
<1>5. QED
  BY <1>1, <1>2, <1>3, <1>4

(* list_append: four pointers.                                             *)
LEMMA AppendDescs ==
  ASSUME NEW m, IsMem(m), NEW p, NEW d, NEW b
  PROVE  SameDescs(m, ListAppend(m, p, d, b))
<1> DEFINE last == Link(m, p, TailOf(d), "prev")
           m1 == SetLink(m, p, last, "next", b)
           m2 == SetLink(m1, p, b, "prev", last)
           m3 == SetLink(m2, p, b, "next", TailOf(d))
           m4 == SetLink(m3, p, TailOf(d), "prev", b)
<1>1. ListAppend(m, p, d, b) = m4
  BY DEF ListAppend
<1>2. IsMem(m1) /\ SameDescs(m, m1)
  BY SetLinkKeeps, SetLinkDescs DEF SameFrames
<1> HIDE DEF m1
<1>3. IsMem(m2) /\ SameDescs(m1, m2)
  BY <1>2, SetLinkKeeps, SetLinkDescs DEF SameFrames
<1> HIDE DEF m2
<1>4. IsMem(m3) /\ SameDescs(m2, m3)
  BY <1>3, SetLinkKeeps, SetLinkDescs DEF SameFrames
<1> HIDE DEF m3
<1>5. SameDescs(m3, m4)
  BY <1>4, SetLinkDescs
<1> HIDE DEF m4
<1>6. QED
  BY <1>1, <1>2, <1>3, <1>4, <1>5 DEF SameDescs

(* list_remove: two pointers.                                              *)
LEMMA RemoveKeeps ==
  ASSUME NEW m, IsMem(m), NEW p, NEW b
  PROVE  SameFrames(m, ListRemove(m, p, b))
<1> DEFINE before == Link(m, p, b, "prev")
           after == Link(m, p, b, "next")
           m1 == SetLink(m, p, before, "next", after)
           m2 == SetLink(m1, p, after, "prev", before)
<1>1. ListRemove(m, p, b) = m2
  BY DEF ListRemove
<1>2. SameFrames(m, m1)
  BY SetLinkKeeps
<1> HIDE DEF m1
<1>3. SameFrames(m1, m2)
  BY <1>2, SetLinkKeeps DEF SameFrames
<1> HIDE DEF m2
<1>4. QED
  BY <1>1, <1>2, <1>3 DEF SameFrames

(* ASSERT of what elem_find answers writes nothing but the panic.          *)
LEMMA AssertKeeps ==
  ASSUME NEW m, IsMem(m), NEW p, NEW d, NEW b, NEW answer
  PROVE  SameFrames(m, AssertFound(m, p, d, b, answer))
<1>1. SameFrames(m, m)
  BY DEF SameFrames
<1>2. \A x : SameFrames(m, [m EXCEPT !.bad = x])
  BY BadKeeps
<1>3. QED
  BY <1>1, <1>2 DEF AssertFound

(* A block of an empty arena off its list.                                 *)
LEMMA DropKeeps ==
  ASSUME NEW m, IsMem(m), NEW p, NEW d, NEW b
  PROVE  SameFrames(m, DropBlock(m, p, d, b))
<1> DEFINE found == AssertFound(m, p, d, b, "found")
<1>1. SameFrames(m, found)
  BY AssertKeeps
<1> HIDE DEF found
<1>2. SameFrames(found, ListRemove(found, p, b))
  BY <1>1, RemoveKeeps DEF SameFrames
<1>3. DropBlock(m, p, d, b) = IF found.bad # "no" THEN found ELSE ListRemove(found, p, b)
  BY DEF DropBlock, found
<1>4. QED
  BY <1>1, <1>2, <1>3 DEF SameFrames

(* A field of an arena other than desc.                                    *)
LEMMA FieldKeeps ==
  ASSUME NEW m, IsMem(m), NEW f, NEW field, field # "desc", NEW x
  PROVE  /\ SameFrames(m, [m EXCEPT !.page = [m.page EXCEPT ![f] = [m.page[f] EXCEPT ![field] = x]]])
         /\ [m EXCEPT !.page = [m.page EXCEPT ![f] = [m.page[f] EXCEPT ![field] = x]]].bad = m.bad
<1> DEFINE e == [m.page[f] EXCEPT ![field] = x]
<1>1. f \in Frame => ArenaPage(e)
  BY DEF IsMem, ArenaPage
<1> HIDE DEF e
<1>2. QED
  BY <1>1, PageKeeps DEF e

(* list_pop, clearing the block and counting it.                           *)
LEMMA TakeKeeps ==
  ASSUME NEW m, IsMem(m), NEW p, NEW c
  PROVE  SameFrames(m, TakeBlock(m, p, c))
<1> DEFINE b == Link(m, p, HeadOf(<<p, c>>), "next")
           popped == ListRemove(m, p, b)
           f == m.pte[p][b[2]]
           Set(r, field, x) == [r EXCEPT !.page = [r.page EXCEPT ![f] = [r.page[f] EXCEPT ![field] = x]]]
           x1 == [popped.page[f].next EXCEPT ![b[3]] = Null]
           t1 == Set(popped, "next", x1)
           x2 == [t1.page[f].prev EXCEPT ![b[3]] = Null]
           t2 == Set(t1, "prev", x2)
           n == popped.page[f].cnt - 1
           t3 == Set(t2, "cnt", n)
<1>1. TakeBlock(m, p, c) = IF popped.bad # "no" \/ b[1] # "block" THEN [popped EXCEPT !.bad = "fault"]
                           ELSE t3
  BY DEF TakeBlock
<1>2. SameFrames(m, popped)
  BY RemoveKeeps
<1> HIDE DEF popped, f, n, x1, x2
<1>3. SameFrames(popped, [popped EXCEPT !.bad = "fault"])
  BY <1>2, BadKeeps DEF SameFrames
<1>4. SameFrames(popped, t1)
  <2>1. IsMem(popped) /\ "next" # "desc"
    BY <1>2 DEF SameFrames
  <2>2. QED
    BY <2>1, FieldKeeps
<1> HIDE DEF t1
<1>5. SameFrames(t1, t2)
  <2>1. IsMem(t1) /\ "prev" # "desc"
    BY <1>4 DEF SameFrames
  <2>2. QED
    BY <2>1, FieldKeeps
<1> HIDE DEF t2
<1>6. SameFrames(t2, t3)
  <2>1. IsMem(t2) /\ "cnt" # "desc"
    BY <1>5 DEF SameFrames
  <2>2. QED
    BY <2>1, FieldKeeps
<1> HIDE DEF t3
<1>7. QED
  BY <1>1, <1>2, <1>3, <1>4, <1>5, <1>6 DEF SameFrames

-----------------------------------------------------------------------------
(* The loops of memory.c and fork.c are recursive functions of the round;  *)
(* a loop with any number of rounds exists as a function: the shortest one *)
(* that did not could be extended from the one before it.                  *)
Round(loop, k, m) ==
  CASE loop.does = "back" ->
         IF m.bad # "no" THEN m ELSE palloc(m, loop.p, loop.v + k - 1)
    [] loop.does = "add" ->
         ListAppend(AssertFound(m, loop.p, <<loop.p, loop.c>>, arena2block(loop.v, k), "absent"),
                    loop.p, <<loop.p, loop.c>>, arena2block(loop.v, k))
    [] loop.does = "drop" -> DropBlock(m, loop.p, loop.d, arena2block(loop.v, k))
    [] loop.does = "copy" ->
         IF k - 1 \in mem.bits[loop.p] THEN CopyPage(m, loop.p, loop.c, k - 1) ELSE m

(* The function of a loop's rounds, from base.                             *)
IsLoop(f, base, loop, n) ==
  f = [k \in 0 .. n |-> IF k = 0 THEN base ELSE Round(loop, k, f[k - 1])]

(* A loop of any number of rounds.                                         *)
LEMMA LoopExists ==
  ASSUME NEW base, NEW loop, NEW hi \in Nat
  PROVE  \E f : IsLoop(f, base, loop, hi)
<1> DEFINE Loop(f, n) == f = [k \in 0 .. n |-> IF k = 0 THEN base ELSE Round(loop, k, f[k - 1])]
           S == {n \in 0 .. hi : ~\E f : Loop(f, n)}
<1>1. ASSUME S # {}
      PROVE  FALSE
  <2>1. S \in SUBSET Nat
    OBVIOUS
  <2>2. PICK n \in S : \A k \in S : n <= k
    BY <1>1, <2>1, LeastNat
  <2>3. n \in 0 .. hi /\ ~\E f : Loop(f, n)
    BY <2>2
  <2>4. n # 0
    <3>1. Loop([k \in 0 .. 0 |-> base], 0)
      OBVIOUS
    <3>2. QED
      BY <2>3, <3>1
  <2>5. n - 1 \in 0 .. hi /\ n - 1 < n /\ n \in Nat
    BY <2>3, <2>4
  <2>6. PICK f : Loop(f, n - 1)
    <3>1. n - 1 \notin S
      <4> HIDE DEF S
      <4>1. QED
        BY <2>2, <2>5
    <3> HIDE DEF Loop
    <3>2. QED
      BY <2>5, <3>1
  <2> DEFINE g == [k \in 0 .. n |-> IF k = n THEN Round(loop, n, f[n - 1]) ELSE f[k]]
  <2>7. Loop(g, n)
    <3>1. ASSUME NEW k \in 0 .. n
          PROVE  g[k] = IF k = 0 THEN base ELSE Round(loop, k, g[k - 1])
      <4>1. k # n => k \in 0 .. n - 1 /\ g[k] = f[k]
        BY <2>5, <3>1
      <4>2. k # 0 => k - 1 \in 0 .. n /\ k - 1 # n /\ g[k - 1] = f[k - 1]
        BY <2>5, <3>1
      <4>3. k # n => f[k] = IF k = 0 THEN base ELSE Round(loop, k, f[k - 1])
        BY <2>6, <4>1
      <4>4. k = n => k # 0 /\ g[k] = Round(loop, k, f[k - 1])
        BY <2>4, <3>1
      <4>5. QED
        BY <4>1, <4>2, <4>3, <4>4
    <3>2. g = [k \in 0 .. n |-> g[k]]
      OBVIOUS
    <3> HIDE DEF g
    <3>3. QED
      BY <3>1, <3>2
  <2> HIDE DEF g, Loop
  <2>8. QED
    BY <2>3, <2>7
<1>2. hi \notin S
  <2> HIDE DEF S
  <2>1. QED
    BY <1>1
<1>3. hi \in 0 .. hi
  OBVIOUS
<1>4. \E f : Loop(f, hi)
  BY <1>2, <1>3
<1>5. QED
  BY <1>4 DEF IsLoop

(* malloc_page's rounds.                                                   *)

LEMMA BackedRounds ==
  ASSUME NEW m, NEW p, NEW v, NEW n \in Nat
  PROVE  /\ Backed(m, p, v, n)[0] = Marked(m, p, v, n)
         /\ \A k \in 1 .. n :
              Backed(m, p, v, n)[k] =
                IF Backed(m, p, v, n)[k - 1].bad # "no" THEN Backed(m, p, v, n)[k - 1]
                ELSE palloc(Backed(m, p, v, n)[k - 1], p, v + k - 1)
<1> DEFINE base == Marked(m, p, v, n)
           Is(f) == f = [k \in 0 .. n |-> IF k = 0 THEN base
                                          ELSE IF f[k - 1].bad # "no" THEN f[k - 1]
                                          ELSE palloc(f[k - 1], p, v + k - 1)]
           loop == [does |-> "back", p |-> p, v |-> v]
<1>1. Backed(m, p, v, n) = CHOOSE f : Is(f)
  BY DEF Backed
<1>2. \A k, r : Round(loop, k, r) = IF r.bad # "no" THEN r ELSE palloc(r, p, v + k - 1)
  BY DEF Round
<1> HIDE DEF base, loop
<1>3. PICK f : IsLoop(f, base, loop, n)
  BY LoopExists
<1>4. Is(f)
  BY <1>2, <1>3 DEF IsLoop
<1>5. Is(Backed(m, p, v, n))
  BY <1>1, <1>4
<1> DEFINE g == Backed(m, p, v, n)
<1> HIDE DEF g
<1>6. \A k \in 0 .. n : g[k] = IF k = 0 THEN base ELSE IF g[k - 1].bad # "no" THEN g[k - 1]
                               ELSE palloc(g[k - 1], p, v + k - 1)
  BY <1>5 DEF g
<1>7. QED
  BY <1>6 DEF g, base
(* The rounds of sys_malloc's loop over a new arena.                       *)

LEMMA AddedRounds ==
  ASSUME NEW m, NEW p, NEW c \in Class, NEW v
  PROVE  /\ Added(m, p, c, v)[0] = m
         /\ \A i \in 1 .. blocks_per_arena[c] :
              Added(m, p, c, v)[i] =
                ListAppend(AssertFound(Added(m, p, c, v)[i - 1], p, <<p, c>>, arena2block(v, i), "absent"),
                           p, <<p, c>>, arena2block(v, i))
<1> DEFINE n == blocks_per_arena[c]
           Is(f) == f = [i \in 0 .. n |->
                      IF i = 0 THEN m
                      ELSE ListAppend(AssertFound(f[i - 1], p, <<p, c>>, arena2block(v, i), "absent"),
                                      p, <<p, c>>, arena2block(v, i))]
           loop == [does |-> "add", p |-> p, c |-> c, v |-> v]
           g == Added(m, p, c, v)
<1>1. g = CHOOSE f : Is(f)
  BY DEF Added
<1>2. \A i, r : Round(loop, i, r) =
        ListAppend(AssertFound(r, p, <<p, c>>, arena2block(v, i), "absent"),
                   p, <<p, c>>, arena2block(v, i))
  BY DEF Round
<1>3. n \in Nat
  BY MemoryAssumption
<1> HIDE DEF loop, n, g
<1>4. PICK f : IsLoop(f, m, loop, n)
  BY <1>3, LoopExists
<1>5. Is(f)
  BY <1>2, <1>4 DEF IsLoop
<1>6. Is(g)
  BY <1>1, <1>5
<1>7. \A i \in 0 .. n :
        g[i] = IF i = 0 THEN m
               ELSE ListAppend(AssertFound(g[i - 1], p, <<p, c>>, arena2block(v, i), "absent"),
                               p, <<p, c>>, arena2block(v, i))
  BY <1>6
<1>8. QED
  BY <1>3, <1>7 DEF g, n

(* The rounds of sys_free's loop over an empty arena.                      *)
LEMMA DroppedRounds ==
  ASSUME NEW m, NEW p, NEW d, NEW v, NEW n \in Nat
  PROVE  /\ Dropped(m, p, d, v, n)[0] = m
         /\ \A i \in 1 .. n :
              Dropped(m, p, d, v, n)[i] = DropBlock(Dropped(m, p, d, v, n)[i - 1], p, d, arena2block(v, i))
<1> DEFINE Is(f) == f = [i \in 0 .. n |->
                      IF i = 0 THEN m ELSE DropBlock(f[i - 1], p, d, arena2block(v, i))]
           loop == [does |-> "drop", p |-> p, d |-> d, v |-> v]
           g == Dropped(m, p, d, v, n)
<1>1. g = CHOOSE f : Is(f)
  BY DEF Dropped
<1>2. \A i, r : Round(loop, i, r) = DropBlock(r, p, d, arena2block(v, i))
  BY DEF Round
<1> HIDE DEF loop, g
<1>3. PICK f : IsLoop(f, m, loop, n)
  BY LoopExists
<1>4. Is(f)
  BY <1>2, <1>3 DEF IsLoop
<1>5. Is(g)
  BY <1>1, <1>4
<1>6. \A i \in 0 .. n : g[i] = IF i = 0 THEN m ELSE DropBlock(g[i - 1], p, d, arena2block(v, i))
  BY <1>5
<1>7. QED
  BY <1>6 DEF g

(* The rounds of copy_body_stack3.                                         *)
LEMMA CopiedRounds ==
  ASSUME NEW m, NEW p, NEW c
  PROVE  /\ Copied(m, p, c)[0] = m
         /\ \A n \in 1 .. VPages :
              Copied(m, p, c)[n] =
                IF n - 1 \in mem.bits[p] THEN CopyPage(Copied(m, p, c)[n - 1], p, c, n - 1)
                ELSE Copied(m, p, c)[n - 1]
<1> DEFINE Is(f) == f = [n \in 0 .. VPages |->
                      IF n = 0 THEN m
                      ELSE IF n - 1 \in mem.bits[p] THEN CopyPage(f[n - 1], p, c, n - 1) ELSE f[n - 1]]
           loop == [does |-> "copy", p |-> p, c |-> c]
           g == Copied(m, p, c)
<1>1. g = CHOOSE f : Is(f)
  BY DEF Copied
<1>2. \A n, r : Round(loop, n, r) =
        IF n - 1 \in mem.bits[p] THEN CopyPage(r, p, c, n - 1) ELSE r
  BY DEF Round
<1> HIDE DEF loop, g
<1>3. PICK f : IsLoop(f, m, loop, VPages)
  BY PagesAndFrames, LoopExists
<1>4. Is(f)
  BY <1>2, <1>3 DEF IsLoop
<1>5. Is(g)
  BY <1>1, <1>4
<1>6. \A n \in 0 .. VPages :
        g[n] = IF n = 0 THEN m
               ELSE IF n - 1 \in mem.bits[p] THEN CopyPage(g[n - 1], p, c, n - 1) ELSE g[n - 1]
  BY <1>5
<1>7. QED
  BY <1>6, PagesAndFrames DEF g

(* What holds before the first round and is kept by each holds after all.  *)
LEMMA RoundsKeep ==
  ASSUME NEW n \in Nat, NEW K, 0 \in K, \A k \in 1 .. n : k - 1 \in K => k \in K
  PROVE  \A k \in 0 .. n : k \in K
<1> DEFINE S == {k \in 0 .. n : k \notin K}
<1>1. ASSUME S # {}
      PROVE  FALSE
  <2>1. PICK k \in S : \A j \in S : k <= j
    <3>1. S \in SUBSET Nat
      OBVIOUS
    <3> HIDE DEF S
    <3>2. QED
      BY <1>1, <3>1, LeastNat
  <2>2. k # 0 /\ k \in 1 .. n /\ k - 1 \in 0 .. n /\ ~(k <= k - 1)
    BY <2>1
  <2>3. k - 1 \in K
    BY <2>1, <2>2
  <2>4. QED
    BY <2>1, <2>2, <2>3
<1>2. QED
  BY <1>1

(* A new arena put on its list.                                            *)
LEMMA AddedKeeps ==
  ASSUME NEW m, IsMem(m), NEW p, NEW c \in Class, NEW v
  PROVE  SameFrames(m, Added(m, p, c, v)[blocks_per_arena[c]])
<1> DEFINE n == blocks_per_arena[c]
           g == Added(m, p, c, v)
           K == {k \in 0 .. n : SameFrames(m, g[k])}
<1>1. n \in Nat
  BY MemoryAssumption
<1>2. 0 \in K
  <2>1. g[0] = m /\ SameFrames(m, m)
    BY AddedRounds DEF SameFrames
  <2> HIDE DEF g, n
  <2>2. QED
    BY <1>1, <2>1
<1>3. ASSUME NEW k \in 1 .. n, k - 1 \in K
      PROVE  k \in K
  <2> DEFINE b == arena2block(v, k)
             r == g[k - 1]
             a == AssertFound(r, p, <<p, c>>, b, "absent")
  <2>1. g[k] = ListAppend(a, p, <<p, c>>, b)
    BY AddedRounds
  <2>2. SameFrames(m, r)
    BY <1>3
  <2> HIDE DEF r, b, g
  <2>3. SameFrames(r, a)
    BY <2>2, AssertKeeps DEF SameFrames
  <2> HIDE DEF a
  <2>4. SameFrames(a, ListAppend(a, p, <<p, c>>, b))
    BY <2>3, AppendKeeps DEF SameFrames
  <2>5. SameFrames(m, g[k])
    BY <2>1, <2>2, <2>3, <2>4 DEF SameFrames
  <2>6. QED
    BY <1>1, <2>5
<1> HIDE DEF K, n
<1>4. n \in K
  BY <1>1, <1>2, <1>3, RoundsKeep
<1>5. QED
  BY <1>4 DEF K, n

(* An empty arena taken off its list.                                      *)
LEMMA DroppedKeeps ==
  ASSUME NEW m, IsMem(m), NEW p, NEW d, NEW v, NEW n \in Nat
  PROVE  SameFrames(m, Dropped(m, p, d, v, n)[n])
<1> DEFINE g == Dropped(m, p, d, v, n)
           K == {k \in 0 .. n : SameFrames(m, g[k])}
<1>1. 0 \in K
  BY DroppedRounds DEF SameFrames
<1>2. ASSUME NEW k \in 1 .. n, k - 1 \in K
      PROVE  k \in K
  <2> DEFINE b == arena2block(v, k)
             r == g[k - 1]
  <2>1. g[k] = DropBlock(r, p, d, b)
    BY DroppedRounds
  <2>2. SameFrames(m, r)
    BY <1>2
  <2> HIDE DEF r, b, g
  <2>3. SameFrames(r, DropBlock(r, p, d, b))
    BY <2>2, DropKeeps DEF SameFrames
  <2>4. SameFrames(m, g[k])
    BY <2>1, <2>2, <2>3 DEF SameFrames
  <2>5. QED
    BY <2>4
<1> HIDE DEF K
<1>3. n \in K
  BY <1>1, <1>2, RoundsKeep
<1>4. QED
  BY <1>3 DEF K

-----------------------------------------------------------------------------
(* Frames taken and given back.                                            *)
LEMMA Cleared == ArenaPage(ZeroPage)
BY DEF ArenaPage, ZeroPage

(* palloc with no frame left, or on a mapped page.                         *)
LEMMA PallocFails ==
  ASSUME NEW m, IsMem(m), m.bad = "no", NEW p, NEW v, palloc(m, p, v).bad # "no"
  PROVE  SameFrames(m, palloc(m, p, v))
<1> DEFINE f == Least(Frame \ m.pool)
<1>1. CASE m.pool = Frame \/ m.pte[p][v] # NoFrame
  BY <1>1, BadKeeps DEF palloc
<1>2. CASE ~(m.pool = Frame \/ m.pte[p][v] # NoFrame)
  <2>1. palloc(m, p, v) = [m EXCEPT !.pool = m.pool \cup {f}, !.pte[p][v] = f, !.page[f] = ZeroPage]
    BY <1>2 DEF palloc
  <2> HIDE DEF f
  <2>2. palloc(m, p, v).bad = m.bad
    BY <2>1 DEF IsMem
  <2>3. QED
    BY <2>2
<1>3. QED
  BY <1>1, <1>2

(* palloc takes the first free frame and maps it.                          *)
LEMMA PallocGives ==
  ASSUME NEW m, IsMem(m), m.bad = "no", NEW p \in Proc, NEW v \in VPage,
         palloc(m, p, v).bad = "no"
  PROVE  LET r == palloc(m, p, v)
             f == Least(Frame \ m.pool)
         IN  /\ IsMem(r) /\ f \in Frame \ m.pool /\ m.pte[p][v] = NoFrame
             /\ r.pool = m.pool \cup {f} /\ r.bits = m.bits
             /\ r.pte = [m.pte EXCEPT ![p] = [m.pte[p] EXCEPT ![v] = f]]
<1> DEFINE f == Least(Frame \ m.pool)
           a == [m EXCEPT !.pool = m.pool \cup {f}]
           b == [a EXCEPT !.pte = [a.pte EXCEPT ![p] = [a.pte[p] EXCEPT ![v] = f]]]
           r == [b EXCEPT !.page = [b.page EXCEPT ![f] = ZeroPage]]
<1>1. m.pool # Frame /\ m.pte[p][v] = NoFrame
  BY WithField DEF palloc
<1>2. f \in Frame \ m.pool
  <2>1. Frame \ m.pool \in SUBSET Nat /\ Frame \ m.pool # {}
    BY <1>1, PagesAndFrames DEF IsMem
  <2>2. QED
    BY <2>1, LeastIs
<1>3. palloc(m, p, v) = r
  BY <1>1 DEF palloc
<1> HIDE DEF f
<1>4. /\ IsMem(a) /\ a.pool = m.pool \cup {f} /\ a.bits = m.bits /\ a.pte = m.pte
  BY <1>2, WithField DEF IsMem
<1> HIDE DEF a
<1>5. /\ IsMem(b) /\ b.pool = a.pool /\ b.bits = a.bits
      /\ b.pte = [a.pte EXCEPT ![p] = [a.pte[p] EXCEPT ![v] = f]]
  <2> DEFINE x == [a.pte EXCEPT ![p] = [a.pte[p] EXCEPT ![v] = f]]
  <2>1. x \in [Proc -> [VPage -> Frame \cup {NoFrame}]]
    BY <1>2, <1>4 DEF IsMem
  <2>2. b = [a EXCEPT !.pte = x]
    OBVIOUS
  <2> HIDE DEF x, b
  <2>3. b = [pool |-> a.pool, bits |-> a.bits, pte |-> x, page |-> a.page,
             descs |-> a.descs, bad |-> a.bad]
    BY <1>4, <2>2, WithField
  <2>4. QED
    BY <1>4, <2>1, <2>3 DEF IsMem, x
<1> HIDE DEF b
<1>6. SameFrames(b, r)
  BY <1>5, Cleared, PageKeeps
<1> HIDE DEF r
<1>7. QED
  BY <1>1, <1>2, <1>3, <1>4, <1>5, <1>6 DEF SameFrames, f

(* A frame not in use mapped at an unmapped page.                          *)
LEMMA MoreFrames ==
  ASSUME NEW m, IsMem(m), PoolOK(m), NEW p \in Proc, NEW v \in VPage, m.pte[p][v] = NoFrame,
         NEW f \in Frame \ m.pool, NEW r, IsMem(r), r.pool = m.pool \cup {f},
         r.pte = [m.pte EXCEPT ![p] = [m.pte[p] EXCEPT ![v] = f]]
  PROVE  /\ PoolOK(r) /\ Mapped(r, p) = Mapped(m, p) \cup {v}
         /\ \A q \in Proc \ {p} : r.pte[q] = m.pte[q]
<1>1. /\ r.pte[p][v] = f /\ f # NoFrame
      /\ \A q \in Proc, w \in VPage : q # p \/ w # v => r.pte[q][w] = m.pte[q][w]
      /\ \A q \in Proc \ {p} : r.pte[q] = m.pte[q]
  BY PagesAndFrames DEF IsMem
<1>2. \A q \in Proc, w \in VPage : m.pte[q][w] # f
  BY DEF PoolOK
<1>3. \A g \in Frame : g \in r.pool <=> \E q \in Proc, w \in VPage : r.pte[q][w] = g
  <2>1. ASSUME NEW g \in Frame, g \in m.pool
        PROVE  \E q \in Proc, w \in VPage : r.pte[q][w] = g
    <3>1. PICK q \in Proc, w \in VPage : m.pte[q][w] = g
      BY <2>1 DEF PoolOK
    <3>2. q # p \/ w # v
      BY <2>1, <3>1, PagesAndFrames
    <3>3. QED
      BY <1>1, <3>1, <3>2
  <2>2. ASSUME NEW q \in Proc, NEW w \in VPage, r.pte[q][w] \in Frame
        PROVE  r.pte[q][w] \in r.pool
    BY <1>1, <2>2 DEF PoolOK
  <2>3. QED
    BY <1>1, <2>1, <2>2
<1>4. ASSUME NEW q \in Proc, NEW s \in Proc, NEW w \in VPage, NEW x \in VPage,
             r.pte[q][w] = r.pte[s][x], r.pte[q][w] # NoFrame
      PROVE  q = s /\ w = x
  <2>1. CASE q = p /\ w = v
    BY <1>1, <1>2, <1>4, <2>1
  <2>2. CASE s = p /\ x = v
    BY <1>1, <1>2, <1>4, <2>2
  <2>3. CASE (q # p \/ w # v) /\ (s # p \/ x # v)
    BY <1>1, <1>4, <2>3 DEF PoolOK
  <2>4. QED
    BY <2>1, <2>2, <2>3
<1>5. Mapped(r, p) = Mapped(m, p) \cup {v}
  BY <1>1 DEF Mapped
<1>6. QED
  BY <1>1, <1>3, <1>4, <1>5 DEF PoolOK

(* Some of p's pages unmapped and their frames out of use.                 *)
Unmaps(m, p, run, r) ==
  /\ run \subseteq VPage
  /\ \A g \in Frame : g \in r.pool <=> g \in m.pool /\ \A w \in run : m.pte[p][w] # g
  /\ \A w \in run : r.pte[p][w] = NoFrame
  /\ \A w \in VPage \ run : r.pte[p][w] = m.pte[p][w]
  /\ \A q \in Proc \ {p} : r.pte[q] = m.pte[q]

LEMMA FewerFrames ==
  ASSUME NEW m, IsMem(m), PoolOK(m), NEW p \in Proc, NEW run, NEW r, IsMem(r),
         Unmaps(m, p, run, r)
  PROVE  PoolOK(r) /\ Mapped(r, p) = Mapped(m, p) \ run
<1>1. /\ \A w \in run : r.pte[p][w] = NoFrame
      /\ \A q \in Proc, w \in VPage : q # p \/ w \notin run => r.pte[q][w] = m.pte[q][w]
      /\ \A g \in Frame : g \in r.pool <=> g \in m.pool /\ \A w \in run : m.pte[p][w] # g
      /\ run \subseteq VPage
  BY DEF Unmaps
<1>2. \A g \in Frame : g \in r.pool <=> \E q \in Proc, w \in VPage : r.pte[q][w] = g
  <2>1. ASSUME NEW g \in Frame, g \in r.pool
        PROVE  \E q \in Proc, w \in VPage : r.pte[q][w] = g
    <3>1. PICK q \in Proc, w \in VPage : m.pte[q][w] = g
      BY <1>1, <2>1 DEF PoolOK
    <3>2. q # p \/ w \notin run
      BY <1>1, <2>1, <3>1
    <3>3. QED
      BY <1>1, <3>1, <3>2
  <2>2. ASSUME NEW q \in Proc, NEW w \in VPage, r.pte[q][w] \in Frame
        PROVE  r.pte[q][w] \in r.pool
    <3>1. (q # p \/ w \notin run) /\ r.pte[q][w] = m.pte[q][w] /\ m.pte[q][w] # NoFrame
      BY <1>1, <2>2, PagesAndFrames
    <3>2. m.pte[q][w] \in m.pool
      BY <2>2, <3>1 DEF PoolOK
    <3>3. \A x \in run : m.pte[p][x] # m.pte[q][w]
      BY <1>1, <3>1 DEF PoolOK
    <3>4. QED
      BY <1>1, <2>2, <3>1, <3>2, <3>3
  <2>3. QED
    BY <2>1, <2>2
<1>3. ASSUME NEW q \in Proc, NEW s \in Proc, NEW w \in VPage, NEW x \in VPage,
             r.pte[q][w] = r.pte[s][x], r.pte[q][w] # NoFrame
      PROVE  q = s /\ w = x
  BY <1>1, <1>3 DEF PoolOK
<1>4. Mapped(r, p) = Mapped(m, p) \ run
  BY <1>1 DEF Mapped
<1>5. QED
  BY <1>1, <1>2, <1>3, <1>4 DEF PoolOK

-----------------------------------------------------------------------------
(* What malloc_page, mfree_page and fork do to the frames.  The call's own *)
(* process is p; the others' pages stay.                                   *)
FramesOf(m, p, r) ==
  /\ IsMem(r)
  /\ r.bad = "no" => PoolOK(r) /\ BitsOK(r) /\ \A q \in Proc \ {p} : r.bits[q] = m.bits[q]

(* Steps that only change lists and counts, and such a step after another. *)
LEMMA SameFramesOK ==
  ASSUME NEW m, NEW r, NEW p, SameFrames(m, r), PoolOK(m), BitsOK(m)
  PROVE  FramesOf(m, p, r)
BY DEF SameFrames, FramesOf, PoolOK, BitsOK, Mapped

LEMMA SameFramesOf ==
  ASSUME NEW m, NEW r, NEW r2, NEW p, FramesOf(m, p, r), r.bad = "no", SameFrames(r, r2)
  PROVE  FramesOf(m, p, r2)
<1>1. PoolOK(r) /\ BitsOK(r)
  BY DEF FramesOf
<1>2. FramesOf(r, p, r2)
  BY ONLY <1>1, SameFramesOK, SameFrames(r, r2)
<1>3. QED
  BY <1>2 DEF FramesOf

(* malloc_page: after k rounds k pages of the run are mapped, each to a    *)
(* frame that was free; a round that fails leaves a panic.                 *)
LEMMA MallocGives ==
  ASSUME NEW m, IsMem(m), PoolOK(m), BitsOK(m), m.bad = "no", NEW p \in Proc,
         NEW n \in Nat, Fits(m, p, n) # {}
  PROVE  FramesOf(m, p, malloc_page(m, p, n))
<1> DEFINE v == vaddr_get(m, p, n)
           run == v .. v + n - 1
           base == Marked(m, p, v, n)
           g == Backed(m, p, v, n)
           Good(k, r) ==
             /\ IsMem(r)
             /\ r.bad = "no" =>
                  /\ PoolOK(r) /\ r.bits = base.bits
                  /\ Mapped(r, p) = Mapped(m, p) \cup (v .. v + k - 1)
                  /\ \A q \in Proc \ {p} : r.pte[q] = m.pte[q]
           K == {k \in 0 .. n : Good(k, g[k])}
<1>1. v \in VPage /\ v \in Nat /\ v + n <= VPages /\ run \cap m.bits[p] = {}
  <2>1. Fits(m, p, n) \in SUBSET Nat /\ Fits(m, p, n) \in SUBSET VPage
    BY PagesAndFrames DEF Fits
  <2>2. v \in Fits(m, p, n)
    BY <2>1, LeastIs DEF vaddr_get
  <2> HIDE DEF v
  <2>3. QED
    BY <2>1, <2>2 DEF Fits
<1> HIDE DEF v
<1>2. run \in SUBSET VPage /\ \A w \in run : w \in Nat
  BY <1>1, PagesAndFrames
<1>3. /\ IsMem(base) /\ base.pool = m.pool /\ base.pte = m.pte /\ base.bad = "no"
      /\ base.bits = [m.bits EXCEPT ![p] = m.bits[p] \cup run]
  <2> DEFINE x == [m.bits EXCEPT ![p] = m.bits[p] \cup run]
  <2>1. x \in [Proc -> SUBSET VPage]
    BY <1>2 DEF IsMem
  <2>2. base = [m EXCEPT !.bits = x]
    BY DEF Marked
  <2> HIDE DEF x, base
  <2>3. base = [pool |-> m.pool, bits |-> x, pte |-> m.pte, page |-> m.page,
                descs |-> m.descs, bad |-> m.bad]
    BY <2>2, WithField
  <2>4. QED
    BY <2>1, <2>3 DEF IsMem, x
<1>4. /\ g[0] = base
      /\ \A k \in 1 .. n : g[k] = IF g[k - 1].bad # "no" THEN g[k - 1]
                                  ELSE palloc(g[k - 1], p, v + k - 1)
  BY BackedRounds
<1> HIDE DEF base, g
<1>5. Good(0, base)
  <2>1. PoolOK(base) /\ Mapped(base, p) = Mapped(m, p)
    BY <1>3 DEF PoolOK, Mapped
  <2>2. v .. v + 0 - 1 = {}
    BY <1>1
  <2>3. QED
    BY <1>3, <2>1, <2>2
<1>6. ASSUME NEW k \in 1 .. n, Good(k - 1, g[k - 1])
      PROVE  Good(k, g[k])
  <2> DEFINE o == g[k - 1]
             w == v + k - 1
             r == palloc(o, p, w)
             f == Least(Frame \ o.pool)
  <2>1. CASE o.bad # "no"
    BY <1>4, <1>6, <2>1
  <2>2. CASE o.bad = "no" /\ r.bad # "no"
    <3>1. g[k] = r
      BY <1>4, <2>2
    <3>2. SameFrames(o, r)
      BY <1>6, <2>2, PallocFails
    <3> HIDE DEF r, o
    <3>3. QED
      BY <2>2, <3>1, <3>2 DEF SameFrames
  <2>3. CASE o.bad = "no" /\ r.bad = "no"
    <3>1. g[k] = r
      BY <1>4, <2>3
    <3>2. w \in VPage /\ w \in run /\ v .. v + k - 1 = (v .. v + (k - 1) - 1) \cup {w}
      BY <1>1, <1>2
    <3>3. IsMem(o) /\ PoolOK(o)
      BY <1>6, <2>3
    <3> HIDE DEF o, w, run
    <3>4. /\ IsMem(r) /\ f \in Frame \ o.pool /\ o.pte[p][w] = NoFrame
          /\ r.pool = o.pool \cup {f} /\ r.bits = o.bits
          /\ r.pte = [o.pte EXCEPT ![p] = [o.pte[p] EXCEPT ![w] = f]]
      BY <2>3, <3>2, <3>3, PallocGives
    <3> HIDE DEF r, f
    <3>5. /\ PoolOK(r) /\ Mapped(r, p) = Mapped(o, p) \cup {w}
          /\ \A q \in Proc \ {p} : r.pte[q] = o.pte[q]
      BY <3>2, <3>3, <3>4, MoreFrames
    <3>6. QED
      BY <1>6, <2>3, <3>1, <3>2, <3>4, <3>5 DEF o
  <2>4. QED
    BY <2>1, <2>2, <2>3
<1> HIDE DEF Good
<1>7. 0 \in K
  BY <1>4, <1>5
<1>8. \A k \in 1 .. n : k - 1 \in K => k \in K
  BY <1>6
<1> HIDE DEF K
<1>9. n \in K
  BY <1>7, <1>8, RoundsKeep
<1>10. Good(n, g[n])
  BY <1>9 DEF K
<1>11. malloc_page(m, p, n) = g[n]
  BY DEF malloc_page, g, v
<1>12. ASSUME NEW r, Good(n, r)
       PROVE  FramesOf(m, p, r)
  <2>1. IsMem(r)
    BY <1>12 DEF Good
  <2>2. ASSUME r.bad = "no"
        PROVE  PoolOK(r) /\ BitsOK(r) /\ \A q \in Proc \ {p} : r.bits[q] = m.bits[q]
    <3>1. /\ PoolOK(r) /\ r.bits = base.bits /\ Mapped(r, p) = Mapped(m, p) \cup run
          /\ \A q \in Proc \ {p} : r.pte[q] = m.pte[q]
      BY <1>12, <2>2 DEF Good
    <3> HIDE DEF run
    <3>2. /\ r.bits[p] = m.bits[p] \cup run /\ \A q \in Proc \ {p} : r.bits[q] = m.bits[q]
      BY <1>3, <3>1 DEF IsMem
    <3>3. \A q \in Proc \ {p} : Mapped(r, q) = Mapped(m, q)
      BY <3>1 DEF Mapped
    <3>4. QED
      BY <3>1, <3>2, <3>3 DEF BitsOK
  <2>3. QED
    BY <2>1, <2>2 DEF FramesOf
<1>13. QED
  BY <1>10, <1>11, <1>12

(* mfree_page: what the run mapped goes back to the pool.                  *)
LEMMA MfreeGives ==
  ASSUME NEW m, IsMem(m), PoolOK(m), BitsOK(m), NEW p \in Proc, NEW v, NEW n
  PROVE  FramesOf(m, p, mfree_page(m, p, v, n))
<1> DEFINE run == v .. v + n - 1
           x1 == m.pool \ {m.pte[p][w] : w \in run}
           x2 == Forget(m.page, {m.pte[p][w] : w \in run})
           x3 == [m.pte EXCEPT ![p] = [w \in VPage |-> IF w \in run THEN NoFrame ELSE m.pte[p][w]]]
           x4 == [m.bits EXCEPT ![p] = m.bits[p] \ run]
           r == mfree_page(m, p, v, n)
<1>1. CASE \E w \in run : w \notin VPage \/ m.pte[p][w] = NoFrame
  <2>1. r = [m EXCEPT !.bad = "fault"]
    BY <1>1 DEF mfree_page
  <2>2. IsMem(r) /\ r.bad = "fault"
    BY <2>1, BadKeeps DEF SameFrames
  <2>3. QED
    BY <2>2 DEF FramesOf
<1>2. CASE \A w \in run : w \in VPage /\ m.pte[p][w] # NoFrame
  <2>1. r = [m EXCEPT !.pool = x1, !.page = x2, !.pte = x3, !.bits = x4]
    BY <1>2 DEF mfree_page
  <2>2. run \in SUBSET VPage
    BY <1>2
  <2> HIDE DEF run
  <2>3. x1 \subseteq Frame /\ x1 \subseteq m.pool
    BY DEF IsMem
  <2>4. DOMAIN x2 = Frame /\ \A f \in Frame : ArenaPage(x2[f])
    BY Cleared DEF IsMem, Forget
  <2>5. x3 \in [Proc -> [VPage -> Frame \cup {NoFrame}]]
    BY DEF IsMem
  <2>6. x4 \in [Proc -> SUBSET VPage]
    BY DEF IsMem
  <2>7. r = [pool |-> x1, bits |-> x4, pte |-> x3, page |-> x2, descs |-> m.descs, bad |-> m.bad]
    <3>1. m = [pool |-> m.pool, bits |-> m.bits, pte |-> m.pte, page |-> m.page,
               descs |-> m.descs, bad |-> m.bad]
      BY DEF IsMem
    <3> HIDE DEF x1, x2, x3, x4, r
    <3>2. QED
      BY <2>1, <3>1
  <2>8. x4[p] = m.bits[p] \ run /\ \A q \in Proc \ {p} : x4[q] = m.bits[q]
    BY DEF IsMem
  <2>9. r.pool = x1 /\ r.pte = x3 /\ r.bits = x4
    BY <2>7
  <2> HIDE DEF x2, x4, r
  <2>10. IsMem(r)
    BY <2>3, <2>4, <2>5, <2>6, <2>7 DEF IsMem
  <2>11. PoolOK(r) /\ Mapped(r, p) = Mapped(m, p) \ run /\ \A q \in Proc \ {p} : r.pte[q] = m.pte[q]
    <3>1. /\ \A w \in run : r.pte[p][w] = NoFrame
          /\ \A w \in VPage \ run : r.pte[p][w] = m.pte[p][w]
          /\ \A q \in Proc \ {p} : r.pte[q] = m.pte[q]
      BY <2>2, <2>9 DEF IsMem
    <3>2. \A g \in Frame : g \in r.pool <=> g \in m.pool /\ \A w \in run : m.pte[p][w] # g
      BY <2>9
    <3> HIDE DEF x1, x3
    <3>3. Unmaps(m, p, run, r)
      BY <2>2, <3>1, <3>2 DEF Unmaps
    <3>4. QED
      BY <2>10, <3>1, <3>3, FewerFrames
  <2>12. \A q \in Proc \ {p} : Mapped(r, q) = Mapped(m, q)
    BY <2>11 DEF Mapped
  <2>13. FramesOf(m, p, r)
    BY <2>8, <2>9, <2>10, <2>11, <2>12 DEF FramesOf, BitsOK
  <2>14. QED
    BY <2>13 DEF r
<1>3. QED
  BY <1>1, <1>2
(* copy_body_stack3: after k rounds the child maps those of the pages in   *)
(* its bitmap that are below k.                                            *)

LEMMA ForkGives ==
  ASSUME NEW m, IsMem(m), PoolOK(m), m.bad = "no",
         NEW p \in Proc, NEW c \in Proc, p # c,
         mem.bits[p] \in SUBSET VPage, mem.bits[p] = Mapped(m, p), Mapped(m, c) = {}
  PROVE  LET r == Copied(m, p, c)[VPages]
         IN  /\ IsMem(r)
             /\ r.bad = "no" =>
                  /\ PoolOK(r) /\ r.bits = m.bits /\ Mapped(r, c) = mem.bits[p]
                  /\ \A q \in Proc \ {c} : r.pte[q] = m.pte[q]
<1> DEFINE g == Copied(m, p, c)
           old == mem.bits[p]
           Good(k, r) ==
             /\ IsMem(r)
             /\ r.bad = "no" =>
                  /\ PoolOK(r) /\ r.bits = m.bits /\ Mapped(r, c) = {w \in old : w < k}
                  /\ \A q \in Proc \ {c} : r.pte[q] = m.pte[q]
           K == {k \in 0 .. VPages : Good(k, g[k])}
<1>1. /\ g[0] = m
      /\ \A k \in 1 .. VPages :
           g[k] = IF k - 1 \in old THEN CopyPage(g[k - 1], p, c, k - 1) ELSE g[k - 1]
  BY CopiedRounds
<1> HIDE DEF g
<1>2. old \subseteq VPage /\ \A w \in old : w \in Nat /\ w < VPages /\ ~(w < 0)
  BY PagesAndFrames
<1>3. Good(0, m)
  BY <1>2
<1>4. ASSUME NEW k \in 1 .. VPages, Good(k - 1, g[k - 1])
      PROVE  Good(k, g[k])
  <2> DEFINE o == g[k - 1]
             w == k - 1
             got == palloc(o, c, w)
             f == Least(Frame \ o.pool)
             e == got.page[got.pte[p][w]]
             r == [got EXCEPT !.page = [got.page EXCEPT ![got.pte[c][w]] = e]]
  <2>1. \A x \in Nat : x < k <=> x < k - 1 \/ x = k - 1
    BY <1>4, PagesAndFrames
  <2>2. CASE w \notin old
    <3>1. g[k] = o
      BY <1>1, <2>2
    <3>2. {x \in old : x < k} = {x \in old : x < k - 1}
      BY <1>2, <2>1, <2>2
    <3>3. QED
      BY <1>4, <3>1, <3>2
  <2>3. CASE w \in old /\ o.bad # "no"
    <3>1. g[k] = o
      BY <1>1, <2>3 DEF CopyPage
    <3>2. QED
      BY <1>4, <2>3, <3>1
  <2>4. CASE w \in old /\ o.bad = "no" /\ got.bad # "no"
    <3>1. g[k] = got
      BY <1>1, <2>4 DEF CopyPage
    <3>2. SameFrames(o, got)
      BY <1>4, <2>4, PallocFails
    <3> HIDE DEF got, o
    <3>3. QED
      BY <2>4, <3>1, <3>2 DEF SameFrames
  <2>5. CASE w \in old /\ o.bad = "no" /\ got.bad = "no"
    <3>1. g[k] = r
      BY <1>1, <2>5 DEF CopyPage
    <3>2. /\ IsMem(o) /\ PoolOK(o) /\ o.bits = m.bits /\ Mapped(o, c) = {x \in old : x < k - 1}
          /\ \A q \in Proc \ {c} : o.pte[q] = m.pte[q]
      BY <1>4, <2>5
    <3>3. w \in VPage /\ {x \in old : x < k} = {x \in old : x < k - 1} \cup {w}
      BY <1>2, <2>1, <2>5
    <3> HIDE DEF o, w
    <3>4. /\ IsMem(got) /\ f \in Frame \ o.pool /\ o.pte[c][w] = NoFrame
          /\ got.pool = o.pool \cup {f} /\ got.bits = o.bits
          /\ got.pte = [o.pte EXCEPT ![c] = [o.pte[c] EXCEPT ![w] = f]]
      BY <2>5, <3>2, <3>3, PallocGives
    <3> HIDE DEF f, got
    <3>5. /\ PoolOK(got) /\ Mapped(got, c) = Mapped(o, c) \cup {w}
          /\ \A q \in Proc \ {c} : got.pte[q] = o.pte[q]
      BY <3>2, <3>3, <3>4, MoreFrames
    <3>6. ArenaPage(e)
      <4>1. m.pte[p][w] # NoFrame
        BY <2>5 DEF Mapped
      <4>2. got.pte[p][w] = m.pte[p][w]
        BY <3>2, <3>5
      <4>3. got.pte[p][w] \in Frame
        BY <3>3, <3>4, <4>1, <4>2 DEF IsMem
      <4>4. QED
        BY <3>4, <4>3 DEF IsMem
    <3>7. SameFrames(got, r) /\ r.bad = got.bad
      <4> DEFINE x == got.pte[c][w]
      <4>1. x \in Frame => ArenaPage(e)
        BY <3>6
      <4>2. r = [got EXCEPT !.page = [got.page EXCEPT ![x] = e]]
        OBVIOUS
      <4> HIDE DEF e, x, r
      <4>3. IsMem(got)
        BY <3>4
      <4>4. QED
        BY ONLY <4>1, <4>2, <4>3, PageKeeps
    <3> HIDE DEF r
    <3>8. PoolOK(r) /\ Mapped(r, c) = Mapped(got, c) /\ \A q \in Proc \ {c} : r.pte[q] = m.pte[q]
      BY <3>2, <3>5, <3>7 DEF SameFrames, PoolOK, Mapped
    <3>9. IsMem(r) /\ r.bits = m.bits /\ Mapped(r, c) = {x \in old : x < k}
      BY <3>2, <3>3, <3>4, <3>5, <3>7, <3>8 DEF SameFrames
    <3>10. QED
      BY <3>1, <3>8, <3>9
  <2>6. QED
    BY <2>2, <2>3, <2>4, <2>5
<1> HIDE DEF Good
<1>5. 0 \in K
  BY <1>1, <1>3, PagesAndFrames
<1>6. \A k \in 1 .. VPages : k - 1 \in K => k \in K
  BY <1>4
<1> HIDE DEF K
<1>7. VPages \in K
  BY <1>5, <1>6, PagesAndFrames, RoundsKeep
<1>8. Good(VPages, g[VPages])
  BY <1>7 DEF K
<1>9. {w \in old : w < VPages} = mem.bits[p]
  BY <1>2
<1>10. QED
  BY <1>8, <1>9 DEF Good, g

-----------------------------------------------------------------------------
(* The steps.                                                              *)
LEMMA StepKeeps ==
  ASSUME MemoryInv, NEW p \in Proc, status[p] = "live", mem.bad = "no",
         FramesOf(mem, p, mem'), UNCHANGED status
  PROVE  MemoryInv'
<1>1. IsMem(mem') /\ status' \in [Proc -> {"free", "live", "zombie"}]
  BY DEF FramesOf, MemoryInv
<1>2. ASSUME mem'.bad = "no"
      PROVE  PoolOK(mem') /\ BitsOK(mem') /\ \A q \in Proc \ Live' : mem'.bits[q] = {}
  <2>1. p \in Live /\ Live' = Live
    BY DEF Live
  <2>2. QED
    BY <1>2, <2>1 DEF FramesOf, MemoryInv
<1>3. QED
  BY <1>1, <1>2 DEF MemoryInv, IsMem, PoolOK, BitsOK, Mapped

(* Nothing is mapped at the start.                                         *)
LEMMA MemoryStarts == MemoryInit => MemoryInv
<1> SUFFICES ASSUME MemoryInit
             PROVE  MemoryInv
  OBVIOUS
<1>1. /\ mem.pool = {} /\ mem.bits = [p \in Proc |-> {}] /\ mem.bad = "no"
      /\ mem.pte = [p \in Proc |-> [v \in VPage |-> NoFrame]]
      /\ mem.page = [f \in Frame |-> ZeroPage]
      /\ mem = [pool |-> mem.pool, bits |-> mem.bits, pte |-> mem.pte, page |-> mem.page,
                descs |-> mem.descs, bad |-> mem.bad]
  BY DEF MemoryInit
<1>2. IsMem(mem)
  BY <1>1, Cleared DEF IsMem
<1>3. status \in [Proc -> {"free", "live", "zombie"}]
  BY DEF MemoryInit
<1>4. PoolOK(mem) /\ BitsOK(mem)
  BY <1>1, PagesAndFrames DEF PoolOK, BitsOK, Mapped
<1>5. QED
  BY <1>1, <1>2, <1>3, <1>4 DEF MemoryInv

(* sys_malloc of at most 1024 bytes.                                       *)
LEMMA SmallKeeps ==
  ASSUME MemoryInv, NEW p \in Proc, NEW c \in Class, sys_malloc_small(p, c)
  PROVE  MemoryInv'
<1> DEFINE ready == IF ListEmpty(mem, p, <<p, c>>) THEN NewArena(p, c) ELSE mem
           done == IF ready.bad = "no" THEN TakeBlock(ready, p, c) ELSE ready
<1>1. /\ mem.bad = "no" /\ status[p] = "live" /\ UNCHANGED status /\ mem' = done
      /\ ListEmpty(mem, p, <<p, c>>) => Fits(mem, p, 1) # {}
  BY DEF sys_malloc_small, CanCall
<1>2. IsMem(mem) /\ PoolOK(mem) /\ BitsOK(mem)
  BY <1>1 DEF MemoryInv
<1>3. SameFrames(mem, mem)
  BY <1>2 DEF SameFrames
<1>4. FramesOf(mem, p, ready)
  <2>1. CASE ~ListEmpty(mem, p, <<p, c>>)
    BY <1>2, <1>3, <2>1, SameFramesOK
  <2>2. CASE ListEmpty(mem, p, <<p, c>>)
    <3> DEFINE v == vaddr_get(mem, p, 1)
               got == malloc_page(mem, p, 1)
               f == got.pte[p][v]
               a == [got EXCEPT !.page = [got.page EXCEPT ![f] =
                                           [got.page[f] EXCEPT !["desc"] = <<p, c>>]]]
               paged == [a EXCEPT !.page = [a.page EXCEPT ![f] =
                                           [a.page[f] EXCEPT !["cnt"] = blocks_per_arena[c]]]]
    <3>1. NewArena(p, c) = IF got.bad # "no" THEN got ELSE Added(paged, p, c, v)[blocks_per_arena[c]]
      BY DEF NewArena
    <3>2. FramesOf(mem, p, got)
      BY <1>1, <1>2, <2>2, MallocGives
    <3> HIDE DEF got, v
    <3>3. IsMem(got)
      BY <3>2 DEF FramesOf
    <3>4. SameFrames(got, a)
      <4> DEFINE e == [got.page[f] EXCEPT !["desc"] = <<p, c>>]
      <4>1. f \in Frame => ArenaPage(e)
        BY <3>3 DEF IsMem, ArenaPage
      <4> HIDE DEF e, f
      <4>2. QED
        BY <3>3, <4>1, PageKeeps DEF e
    <3> HIDE DEF a, f
    <3>5. SameFrames(a, paged)
      <4>1. IsMem(a) /\ "cnt" # "desc"
        BY <3>4 DEF SameFrames
      <4>2. QED
        BY <4>1, FieldKeeps
    <3> HIDE DEF paged
    <3>6. SameFrames(paged, Added(paged, p, c, v)[blocks_per_arena[c]])
      BY <3>5, AddedKeeps DEF SameFrames
    <3>7. ASSUME got.bad = "no"
          PROVE  FramesOf(mem, p, Added(paged, p, c, v)[blocks_per_arena[c]])
      <4> DEFINE r == Added(paged, p, c, v)[blocks_per_arena[c]]
      <4>1. SameFrames(got, r)
        BY <3>4, <3>5, <3>6 DEF SameFrames
      <4> HIDE DEF r
      <4>2. FramesOf(mem, p, r)
        BY ONLY <3>2, <3>7, <4>1, SameFramesOf
      <4>3. QED
        BY <4>2 DEF r
    <3>8. QED
      BY <2>2, <3>1, <3>2, <3>7
  <2>3. QED
    BY <2>1, <2>2
<1> HIDE DEF ready
<1>5. FramesOf(mem, p, done)
  <2>1. CASE ready.bad # "no"
    BY <1>4, <2>1
  <2>2. CASE ready.bad = "no"
    <3>1. SameFrames(ready, TakeBlock(ready, p, c))
      BY <1>4, TakeKeeps DEF FramesOf
    <3>2. done = TakeBlock(ready, p, c)
      BY <2>2
    <3> HIDE DEF done
    <3>3. QED
      BY ONLY <1>4, <2>2, <3>1, <3>2, SameFramesOf
  <2>3. QED
    BY <2>1, <2>2
<1> HIDE DEF done
<1>6. QED
  BY <1>1, <1>5, StepKeeps

(* sys_malloc of more than 1024 bytes.                                     *)
LEMMA LargeKeeps ==
  ASSUME MemoryInv, NEW p \in Proc, NEW n \in Large, sys_malloc_large(p, n)
  PROVE  MemoryInv'
<1> DEFINE got == malloc_page(mem, p, n)
           f == got.pte[p][vaddr_get(mem, p, n)]
           a == [got EXCEPT !.page = [got.page EXCEPT ![f] = [got.page[f] EXCEPT !["cnt"] = n]]]
           r == [a EXCEPT !.page = [a.page EXCEPT ![f] = [a.page[f] EXCEPT !["large"] = TRUE]]]
<1>1. /\ mem.bad = "no" /\ status[p] = "live" /\ UNCHANGED status /\ Fits(mem, p, n) # {}
      /\ mem' = IF got.bad # "no" THEN got ELSE r
  BY DEF sys_malloc_large, CanCall
<1>2. n \in Nat
  BY MemoryAssumption
<1>3. FramesOf(mem, p, got)
  BY <1>1, <1>2, MallocGives DEF MemoryInv
<1> HIDE DEF got, f
<1>4. SameFrames(got, a)
  <2>1. IsMem(got) /\ "cnt" # "desc"
    BY <1>3 DEF FramesOf
  <2>2. QED
    BY <2>1, FieldKeeps
<1> HIDE DEF a
<1>5. SameFrames(a, r)
  <2>1. IsMem(a) /\ "large" # "desc"
    BY <1>4 DEF SameFrames
  <2>2. QED
    BY <2>1, FieldKeeps
<1> HIDE DEF r
<1>6. SameFrames(got, r)
  BY <1>4, <1>5 DEF SameFrames
<1>7. FramesOf(mem, p, IF got.bad # "no" THEN got ELSE r)
  BY <1>3, <1>6, SameFramesOf
<1>8. QED
  BY <1>1, <1>7, StepKeeps

(* sys_free of a small block.                                              *)
LEMMA FreeBlockGives ==
  ASSUME NEW m, IsMem(m), PoolOK(m), BitsOK(m), m.bad = "no", NEW p \in Proc, NEW v \in VPage,
         m.pte[p][v] # NoFrame, m.page[m.pte[p][v]].desc # NoDesc, NEW i
  PROVE  FramesOf(m, p, FreeBlock(m, p, v, i))
<1> DEFINE f == m.pte[p][v]
           d == m.page[f].desc
           n == blocks_per_arena[d[2]]
           b == arena2block(v, i)
           listed == ListAppend(m, p, d, b)
           x == listed.page[f].cnt + 1
           raised == [listed EXCEPT !.page = [listed.page EXCEPT ![f] =
                                               [listed.page[f] EXCEPT !["cnt"] = x]]]
           d2 == raised.page[raised.pte[p][v]].desc
           n2 == blocks_per_arena[d2[2]]
           unlisted == Dropped(raised, p, d2, v, n2)[n2]
<1>1. FreeBlock(m, p, v, i) = IF listed.bad # "no" THEN listed
                              ELSE IF raised.page[f].cnt = n THEN FreeArena(raised, p, v)
                              ELSE raised
  BY DEF FreeBlock
<1>2. f \in Frame
  BY DEF IsMem
<1> HIDE DEF b
<1>3. SameFrames(m, listed)
  BY AppendKeeps
<1> HIDE DEF listed, d, n, x
<1>4. IsMem(listed) /\ "cnt" # "desc" /\ f = listed.pte[p][v]
  BY <1>3 DEF SameFrames
<1> HIDE DEF f
<1>5. SameFrames(listed, raised) /\ SameDescs(listed, raised)
  BY <1>4, FieldKeeps, FieldDescs
<1>6. IsMem(raised) /\ raised.pte[p][v] = f
  BY <1>4, <1>5 DEF SameFrames
<1> HIDE DEF raised
<1>7. SameFrames(m, raised)
  BY <1>3, <1>5 DEF SameFrames
<1>8. FramesOf(m, p, listed) /\ FramesOf(m, p, raised)
  BY <1>3, <1>7, SameFramesOK
<1>9. n2 \in Nat
  <2>1. d2 = d
    <3>1. SameDescs(m, listed)
      BY AppendDescs DEF listed
    <3>2. QED
      BY <1>2, <1>5, <1>6, <3>1 DEF SameDescs, d
  <2>2. d \in Proc \X Class
    BY <1>2 DEF IsMem, ArenaPage, d, f
  <2> HIDE DEF d2
  <2>3. QED
    BY <2>1, <2>2, MemoryAssumption
<1> HIDE DEF d2, n2
<1>10. SameFrames(raised, unlisted)
  BY <1>6, <1>9, DroppedKeeps
<1>11. FreeArena(raised, p, v) = IF unlisted.bad # "no" THEN unlisted
                                  ELSE mfree_page(unlisted, p, v, 1)
  BY DEF FreeArena, n2, d2
<1> HIDE DEF unlisted
<1>12. SameFrames(m, unlisted)
  BY <1>7, <1>10 DEF SameFrames
<1>13. FramesOf(m, p, unlisted)
  BY <1>12, SameFramesOK
<1>14. unlisted.bad = "no" => FramesOf(m, p, mfree_page(unlisted, p, v, 1))
  <2> SUFFICES ASSUME unlisted.bad = "no"
               PROVE  FramesOf(m, p, mfree_page(unlisted, p, v, 1))
    OBVIOUS
  <2> DEFINE r == mfree_page(unlisted, p, v, 1)
  <2>1. IsMem(unlisted) /\ PoolOK(unlisted) /\ BitsOK(unlisted)
    BY <1>13 DEF FramesOf
  <2>2. FramesOf(unlisted, p, r)
    BY <2>1, MfreeGives
  <2> HIDE DEF r
  <2>3. QED
    BY <1>13, <2>2 DEF FramesOf, r
<1>15. FramesOf(m, p, FreeArena(raised, p, v))
  BY <1>11, <1>13, <1>14
<1>16. QED
  BY <1>1, <1>8, <1>15

(* sys_free.                                                               *)
LEMMA FreeKeeps ==
  ASSUME MemoryInv, NEW p \in Proc, NEW ptr, sys_free(p, ptr)
  PROVE  MemoryInv'
<1> DEFINE v == ptr[1]
           a == mem.page[mem.pte[p][v]]
<1>1. /\ mem.bad = "no" /\ status[p] = "live" /\ UNCHANGED status
      /\ mem' = IF v \notin VPage \/ mem.pte[p][v] = NoFrame THEN [mem EXCEPT !.bad = "fault"]
                ELSE IF a.desc = NoDesc /\ a.large THEN mfree_page(mem, p, v, a.cnt)
                ELSE IF a.desc = NoDesc THEN [mem EXCEPT !.bad = "fault"]
                ELSE FreeBlock(mem, p, v, ptr[2])
  BY DEF sys_free, CanCall
<1>2. IsMem(mem) /\ PoolOK(mem) /\ BitsOK(mem)
  BY <1>1 DEF MemoryInv
<1>3. FramesOf(mem, p, [mem EXCEPT !.bad = "fault"])
  BY <1>2, BadKeeps DEF SameFrames, FramesOf
<1>4. FramesOf(mem, p, mfree_page(mem, p, v, a.cnt))
  BY <1>2, MfreeGives
<1>5. ASSUME v \in VPage, mem.pte[p][v] # NoFrame, a.desc # NoDesc
      PROVE  FramesOf(mem, p, FreeBlock(mem, p, v, ptr[2]))
  <2> DEFINE i == ptr[2]
  <2> HIDE DEF i, v
  <2>1. QED
    BY <1>1, <1>2, <1>5, FreeBlockGives DEF i
<1> HIDE DEF a
<1>6. FramesOf(mem, p, mem')
  <2> DEFINE x == [mem EXCEPT !.bad = "fault"]
  <2> HIDE DEF x, v
  <2>1. FramesOf(mem, p, x)
    BY <1>3 DEF x
  <2>2. mem' = IF v \notin VPage \/ mem.pte[p][v] = NoFrame THEN x
               ELSE IF a.desc = NoDesc /\ a.large THEN mfree_page(mem, p, v, a.cnt)
               ELSE IF a.desc = NoDesc THEN x ELSE FreeBlock(mem, p, v, ptr[2])
    BY <1>1 DEF x
  <2>3. QED
    BY <1>4, <1>5, <2>1, <2>2
<1>7. QED
  BY <1>1, <1>6, StepKeeps

(* sys_fork: the PCB was free, so its old page table maps nothing.         *)
LEMMA ForkKeeps ==
  ASSUME MemoryInv, NEW p \in Proc, NEW c \in Proc, sys_fork(p, c)
  PROVE  MemoryInv'
<1> DEFINE y1 == [mem.bits EXCEPT ![c] = mem.bits[p]]
           y2 == [mem.descs EXCEPT ![c] = block_desc_init(c)]
           y3 == [mem.pte EXCEPT ![c] = [v \in VPage |-> NoFrame]]
           pcb == [mem EXCEPT !.bits[c] = mem.bits[p], !.descs[c] = block_desc_init(c),
                              !.pte[c] = [v \in VPage |-> NoFrame]]
           r == Copied(pcb, p, c)[VPages]
<1>1. /\ mem.bad = "no" /\ status[p] = "live" /\ status[c] = "free" /\ mem' = r
      /\ status' = [status EXCEPT ![c] = "live"]
  BY DEF sys_fork, CanCall
<1>2. /\ IsMem(mem) /\ PoolOK(mem) /\ BitsOK(mem) /\ \A q \in Proc \ Live : mem.bits[q] = {}
      /\ status \in [Proc -> {"free", "live", "zombie"}]
  BY <1>1 DEF MemoryInv
<1>3. p # c /\ mem.bits[c] = {} /\ Mapped(mem, c) = {}
  BY <1>1, <1>2 DEF Live, BitsOK
<1>4. y3 = mem.pte
  <2>1. mem.pte[c] = [v \in VPage |-> NoFrame]
    BY <1>2, <1>3 DEF Mapped, IsMem
  <2>2. QED
    BY <1>2, <2>1 DEF IsMem
<1>5. pcb = [pool |-> mem.pool, bits |-> y1, pte |-> y3, page |-> mem.page,
             descs |-> y2, bad |-> mem.bad]
  <2>1. mem = [pool |-> mem.pool, bits |-> mem.bits, pte |-> mem.pte, page |-> mem.page,
               descs |-> mem.descs, bad |-> mem.bad]
    BY <1>2 DEF IsMem
  <2>2. pcb = [mem EXCEPT !.bits = y1, !.descs = y2, !.pte = y3]
    OBVIOUS
  <2> HIDE DEF y1, y2, y3, pcb
  <2>3. QED
    BY <2>1, <2>2
<1>6. y1 \in [Proc -> SUBSET VPage] /\ y1[c] = mem.bits[p] /\ \A q \in Proc \ {c} : y1[q] = mem.bits[q]
  BY <1>2 DEF IsMem
<1> HIDE DEF pcb, y1, y2, y3
<1>7. /\ IsMem(pcb) /\ pcb.pool = mem.pool /\ pcb.bits = y1 /\ pcb.pte = mem.pte /\ pcb.bad = "no"
  BY <1>1, <1>2, <1>4, <1>5, <1>6 DEF IsMem
<1>8. PoolOK(pcb) /\ \A q \in Proc : Mapped(pcb, q) = Mapped(mem, q)
  BY <1>2, <1>7 DEF PoolOK, Mapped
<1>9. mem.bits[p] \in SUBSET VPage /\ mem.bits[p] = Mapped(pcb, p) /\ Mapped(pcb, c) = {}
  BY <1>2, <1>3, <1>8 DEF IsMem, BitsOK
<1>10. /\ IsMem(r)
       /\ r.bad = "no" =>
            /\ PoolOK(r) /\ r.bits = y1 /\ Mapped(r, c) = mem.bits[p]
            /\ \A q \in Proc \ {c} : r.pte[q] = mem.pte[q]
  BY <1>3, <1>7, <1>8, <1>9, ForkGives
<1> HIDE DEF r
<1>11. ASSUME r.bad = "no"
       PROVE  BitsOK(r) /\ \A q \in Proc \ Live' : r.bits[q] = {}
  <2>1. \A q \in Proc \ {c} : Mapped(r, q) = Mapped(mem, q)
    BY <1>10, <1>11 DEF Mapped
  <2>2. BitsOK(r)
    BY <1>2, <1>6, <1>10, <1>11, <2>1 DEF BitsOK
  <2>3. \A q \in Proc \ Live' : q # c /\ q \notin Live
    BY <1>1, <1>2 DEF Live
  <2>4. QED
    BY <1>2, <1>6, <1>10, <1>11, <2>2, <2>3
<1>12. status' \in [Proc -> {"free", "live", "zombie"}]
  BY <1>1, <1>2
<1>13. QED
  BY <1>1, <1>10, <1>11, <1>12 DEF MemoryInv, IsMem, PoolOK, BitsOK, Mapped

(* What sys_exit leaves.                                                   *)
Exited(m, p) ==
  [m EXCEPT !.pool = m.pool \ {m.pte[p][v] : v \in VPage},
            !.page = Forget(m.page, {m.pte[p][v] : v \in VPage}),
            !.pte[p] = [v \in VPage |-> NoFrame], !.bits[p] = {}]

LEMMA ExitGives ==
  ASSUME NEW m, IsMem(m), PoolOK(m), BitsOK(m), NEW p \in Proc
  PROVE  LET r == Exited(m, p)
         IN  /\ IsMem(r) /\ PoolOK(r) /\ BitsOK(r) /\ r.bits[p] = {}
             /\ \A q \in Proc \ {p} : r.bits[q] = m.bits[q]
<1> DEFINE run == VPage
           gone == {m.pte[p][w] : w \in run}
           x1 == m.pool \ gone
           x2 == Forget(m.page, gone)
           x3 == [m.pte EXCEPT ![p] = [w \in VPage |-> IF w \in run THEN NoFrame ELSE m.pte[p][w]]]
           x4 == [m.bits EXCEPT ![p] = {}]
           r == Exited(m, p)
<1>1. r = [m EXCEPT !.pool = x1, !.page = x2, !.pte = x3, !.bits = x4]
  <2>1. [v \in VPage |-> NoFrame] = [w \in VPage |-> IF w \in run THEN NoFrame ELSE m.pte[p][w]]
    OBVIOUS
  <2>2. QED
    BY <2>1 DEF Exited
<1>2. run \in SUBSET VPage
  OBVIOUS
<1>3. \A q : Mapped(m, q) \ run = {}
  BY DEF Mapped
<1> HIDE DEF run
<1>4. x1 \subseteq Frame
  BY DEF IsMem
<1>5. DOMAIN x2 = Frame /\ \A f \in Frame : ArenaPage(x2[f])
  BY Cleared DEF IsMem, Forget
<1>6. x3 \in [Proc -> [VPage -> Frame \cup {NoFrame}]]
  BY DEF IsMem
<1>7. x4 \in [Proc -> SUBSET VPage] /\ x4[p] = {} /\ \A q \in Proc \ {p} : x4[q] = m.bits[q]
  BY DEF IsMem
<1>8. r = [pool |-> x1, bits |-> x4, pte |-> x3, page |-> x2, descs |-> m.descs, bad |-> m.bad]
  <2>1. m = [pool |-> m.pool, bits |-> m.bits, pte |-> m.pte, page |-> m.page,
             descs |-> m.descs, bad |-> m.bad]
    BY DEF IsMem
  <2> HIDE DEF x1, x2, x3, x4, r
  <2>2. QED
    BY <1>1, <2>1
<1> HIDE DEF r
<1>9. r.pool = x1 /\ r.pte = x3 /\ r.bits = x4
  BY <1>8
<1> HIDE DEF x2, x4
<1>10. IsMem(r)
  BY <1>4, <1>5, <1>6, <1>7, <1>8 DEF IsMem
<1>11. PoolOK(r) /\ Mapped(r, p) = Mapped(m, p) \ run /\ \A q \in Proc \ {p} : r.pte[q] = m.pte[q]
  <2>1. /\ \A w \in run : r.pte[p][w] = NoFrame
        /\ \A w \in VPage \ run : r.pte[p][w] = m.pte[p][w]
        /\ \A q \in Proc \ {p} : r.pte[q] = m.pte[q]
    BY <1>2, <1>9 DEF IsMem
  <2>2. \A g \in Frame : g \in r.pool <=> g \in m.pool /\ \A w \in run : m.pte[p][w] # g
    BY <1>9
  <2> HIDE DEF x1, x3, gone
  <2>3. Unmaps(m, p, run, r)
    BY <1>2, <2>1, <2>2 DEF Unmaps
  <2>4. QED
    BY <1>10, <2>1, <2>3, FewerFrames
<1>12. BitsOK(r)
  <2>1. \A q \in Proc \ {p} : Mapped(r, q) = Mapped(m, q)
    BY <1>11 DEF Mapped
  <2>2. Mapped(r, p) = {}
    BY <1>3, <1>11
  <2>3. QED
    BY <1>7, <1>9, <2>1, <2>2 DEF BitsOK
<1>13. QED
  BY <1>7, <1>9, <1>10, <1>11, <1>12 DEF r

(* sys_exit.                                                               *)
LEMMA ExitKeeps ==
  ASSUME MemoryInv, NEW p \in Proc, sys_exit(p)
  PROVE  MemoryInv'
<1> DEFINE r == Exited(mem, p)
<1>1. mem.bad = "no" /\ status' = [status EXCEPT ![p] = "zombie"] /\ mem' = r
  BY DEF sys_exit, CanCall, Exited
<1>2. /\ IsMem(mem) /\ PoolOK(mem) /\ BitsOK(mem) /\ \A q \in Proc \ Live : mem.bits[q] = {}
      /\ status \in [Proc -> {"free", "live", "zombie"}]
  BY <1>1 DEF MemoryInv
<1>3. /\ IsMem(r) /\ PoolOK(r) /\ BitsOK(r) /\ r.bits[p] = {}
      /\ \A q \in Proc \ {p} : r.bits[q] = mem.bits[q]
  BY ONLY <1>2, p \in Proc, ExitGives
<1> HIDE DEF r
<1>4. \A q \in Proc \ Live' : r.bits[q] = {}
  <2>1. \A q \in Proc \ Live' : q = p \/ q \notin Live
    BY <1>1, <1>2 DEF Live
  <2>2. QED
    BY <1>2, <1>3, <2>1
<1>5. IsMem(mem') /\ status' \in [Proc -> {"free", "live", "zombie"}]
  BY <1>1, <1>2, <1>3
<1>6. PoolOK(mem') /\ BitsOK(mem') /\ \A q \in Proc \ Live' : mem'.bits[q] = {}
  BY <1>1, <1>3, <1>4
<1>7. QED
  BY <1>5, <1>6 DEF MemoryInv, IsMem, PoolOK, BitsOK, Mapped

(* wait, when it frees a PCB.                                              *)
LEMMA ReapKeeps ==
  ASSUME MemoryInv, NEW p \in Proc, Reap(p)
  PROVE  MemoryInv'
<1>1. UNCHANGED mem /\ status' \in [Proc -> {"free", "live", "zombie"}] /\ Live' = Live
  BY DEF Reap, MemoryInv, Live
<1>2. QED
  BY <1>1 DEF MemoryInv, IsMem, PoolOK, BitsOK, Mapped

(* Every step.                                                             *)
LEMMA MemoryKept == MemoryInv /\ [MemoryNext]_memory_vars => MemoryInv'
<1> SUFFICES ASSUME MemoryInv, [MemoryNext]_memory_vars
             PROVE  MemoryInv'
  OBVIOUS
<1>1. CASE UNCHANGED memory_vars
  BY <1>1 DEF memory_vars, MemoryInv, Live, IsMem, PoolOK, BitsOK, Mapped
<1>2. ASSUME NEW p \in Proc, NEW c \in Class, sys_malloc_small(p, c)
      PROVE  MemoryInv'
  BY <1>2, SmallKeeps
<1>3. ASSUME NEW p \in Proc, NEW n \in Large, sys_malloc_large(p, n)
      PROVE  MemoryInv'
  BY <1>3, LargeKeeps
<1>4. ASSUME NEW p \in Proc, NEW ptr \in owned[p], sys_free(p, ptr)
      PROVE  MemoryInv'
  BY <1>4, FreeKeeps
<1>5. ASSUME NEW p \in Proc, NEW c \in Proc, sys_fork(p, c)
      PROVE  MemoryInv'
  BY <1>5, ForkKeeps
<1>6. ASSUME NEW p \in Proc, sys_exit(p)
      PROVE  MemoryInv'
  BY <1>6, ExitKeeps
<1>7. ASSUME NEW p \in Proc, Reap(p)
      PROVE  MemoryInv'
  BY <1>7, ReapKeeps
<1>8. QED
  BY <1>1, <1>2, <1>3, <1>4, <1>5, <1>6, <1>7 DEF MemoryNext

(* The inductive invariant of the heap: whatever malloc, free, fork and    *)
(* exit do, in any order, each frame out of user_pool is in one page table *)
(* entry, and a process maps the pages of its bitmap.                      *)
THEOREM MemoryInvariant == MemorySpec => []MemoryInv
<1>1. MemoryInit => MemoryInv
  BY MemoryStarts
<1>2. MemoryInv /\ [MemoryNext]_memory_vars => MemoryInv'
  BY MemoryKept
<1>3. QED
  BY <1>1, <1>2, PTL DEF MemorySpec

(* No frame leaks or is shared: FramesExact, for every number of           *)
(* processes, pages, frames and block sizes, with or without fork while    *)
(* small blocks are in use.                                                *)
THEOREM FramesAreExact == MemorySpec => []FramesExact
<1>1. ASSUME MemoryInv
      PROVE  FramesExact
  <2> SUFFICES ASSUME mem.bad = "no"
               PROVE  /\ mem.pool = {mem.pte[p][v] : p \in Live, v \in VPage} \ {NoFrame}
                      /\ \A p, q \in Live, v, w \in VPage :
                           mem.pte[p][v] = mem.pte[q][w] /\ mem.pte[p][v] # NoFrame => p = q /\ v = w
                      /\ \A p \in Live : {v \in VPage : mem.pte[p][v] # NoFrame} = mem.bits[p]
    BY DEF FramesExact
  <2>1. /\ IsMem(mem) /\ PoolOK(mem) /\ BitsOK(mem) /\ Live \subseteq Proc
        /\ \A p \in Proc \ Live : mem.bits[p] = {}
    BY <1>1 DEF MemoryInv, Live
  <2>2. \A p \in Proc, v \in VPage : mem.pte[p][v] # NoFrame => p \in Live /\ mem.pte[p][v] \in Frame
    BY <2>1 DEF BitsOK, Mapped, IsMem
  <2>3. mem.pool \subseteq {mem.pte[p][v] : p \in Live, v \in VPage} \ {NoFrame}
    <3>1. ASSUME NEW f \in mem.pool
          PROVE  f # NoFrame /\ \E p \in Live, v \in VPage : mem.pte[p][v] = f
      <4>1. f \in Frame /\ f # NoFrame
        BY <2>1, PagesAndFrames DEF IsMem
      <4>2. PICK p \in Proc, v \in VPage : mem.pte[p][v] = f
        BY <2>1, <4>1 DEF PoolOK
      <4>3. QED
        BY <2>2, <4>1, <4>2
    <3>2. QED
      BY <3>1
  <2>4. ASSUME NEW p \in Live, NEW v \in VPage, mem.pte[p][v] # NoFrame
        PROVE  mem.pte[p][v] \in mem.pool
    BY <2>1, <2>2, <2>4 DEF PoolOK
  <2>5. mem.pool = {mem.pte[p][v] : p \in Live, v \in VPage} \ {NoFrame}
    BY <2>3, <2>4
  <2>6. QED
    BY <2>1, <2>5 DEF PoolOK, BitsOK, Mapped
<1>2. QED
  BY <1>1, MemoryInvariant, PTL

-----------------------------------------------------------------------------
(* File contents.  What a call under way is doing: creating a file, or     *)
(* deleting one, from the time on at which its inode is loaded.            *)
Creates(c) == c.what \in {"parent", "create"}
Deletes(c) == c.what \in {"deparent", "unlink", "delete"}
Loaded(c) == c.op \in {"table", "free", "ifree"} \/ c.what = "delete"
Changes(c) == c.what = "write" \/ Creates(c) \/ Deletes(c)
HasEntry(c) == c.op \in {"deread", "unentry"}

IsInode(x) ==
  x = [cnt |-> x.cnt, size |-> x.size, sect |-> x.sect] /\ x.size \in Int

Pure(x) == [x EXCEPT !.cnt = 0]

IsRam(m) ==
  /\ m = [bmap |-> m.bmap, imap |-> m.imap, inode |-> m.inode]
  /\ m.bmap \subseteq Block /\ m.imap \subseteq Ino
  /\ DOMAIN m.inode = Ino \cup {0}
  /\ \A i \in Ino : IsInode(m.inode[i])

IsDisk(d) ==
  /\ d = [bmap |-> d.bmap, imap |-> d.imap, inode |-> d.inode, blk |-> d.blk,
          entry |-> d.entry]
  /\ DOMAIN d.inode = Ino \cup {0}
  /\ \A i \in Ino : IsInode(d.inode[i]) /\ d.inode[i].cnt = 0

IsWrite(c) ==
  /\ {"op", "what", "ino", "left", "has", "will", "idx", "blocks", "bit", "first"}
       \subseteq DOMAIN c
  /\ c.op \in {"first", "bitmap", "gettable", "puttable", "chunk", "sync"}
  /\ c.what = "write" /\ c.ino \in Ino /\ c.left \in Int

IsRead(c) ==
  /\ {"op", "what", "ino", "blocks", "got", "want"} \subseteq DOMAIN c
  /\ c.op \in {"readtable", "readchunk", "got"}
  /\ c.what = "read" /\ c.ino \in Ino

(* The other points of a call.                                             *)
Point == {<<"syncw", "write">>, <<"enread", "parent">>, <<"entry", "parent">>,
          <<"sync", "parent">>, <<"syncw", "parent">>, <<"sync", "create">>,
          <<"syncw", "create">>, <<"imap", "create">>, <<"load", "open">>,
          <<"deread", "deparent">>, <<"unentry", "deparent">>,
          <<"sync", "deparent">>, <<"syncw", "deparent">>, <<"load", "unlink">>,
          <<"table", "unlink">>, <<"free", "unlink">>, <<"ifree", "unlink">>,
          <<"sync", "delete">>, <<"syncw", "delete">>}

IsCall(c) ==
  \/ c = NoCall
  \/ IsWrite(c)
  \/ IsRead(c)
  \/ /\ {"op", "what", "ino"} \subseteq DOMAIN c
     /\ <<c.op, c.what>> \in Point /\ c.ino \in Ino
     /\ c.op = "free" => {"bit", "todo"} \subseteq DOMAIN c

IsFileOf(f) ==
  \/ f = NoFile
  \/ {"ino", "name", "pos", "wr"} \subseteq DOMAIN f /\ f.ino \in Ino

BlocksTypes ==
  /\ IsRam(ram) /\ IsDisk(disk)
  /\ DOMAIN file = Task /\ DOMAIN call = Task
  /\ \A p \in Task : IsCall(call[p]) /\ IsFileOf(file[p])

(* The processes that have inode i open, the ones in a call on it, and     *)
(* its entries.                                                            *)
Users(i) == {p \in Task : file[p].ino = i}
CallsOn(i) == {p \in Task : call[p].what # "none" /\ call[p].ino = i}
Entries(i) == {e \in disk.entry : e[2] = i}

(* What holds at the points of a call of process p on inode i.             *)
CallOK(i, p) ==
  LET c == call[p] IN
  /\ c.what = "write" => file[p].ino = i
  /\ c.what = "open" => file[p].ino = 0
  /\ Creates(c) => /\ Users(i) = {p} /\ ram.inode[i].cnt = 0
                   /\ \A q \in CallsOn(i) : ~Deletes(call[q])
  /\ Deletes(c) => Users(i) = {}
  /\ Loaded(c) => /\ ram.inode[i].cnt = 1
                  /\ \A q \in CallsOn(i) : Loaded(call[q]) => q = p
  /\ c.op = "imap" => disk.inode[i] = ram.inode[i]
  /\ c.op \in {"enread", "entry"} => Entries(i) = {}
  /\ HasEntry(c) => Entries(i) \subseteq {<<c.name, i>>}
  /\ Deletes(c) /\ ~HasEntry(c) => Entries(i) = {}
  /\ c.op = "entry" => c.img = c.old \cup {<<c.name, i>>}
  /\ c.op = "unentry" => c.img = c.old \ {<<c.name, i>>}

(* What holds of inode i: its number is marked, it has one entry at most,  *)
(* the count is the number of its users unless it is being created or      *)
(* deleted, and it is on the disk unless a call is changing it.            *)
InodeOK(i) ==
  /\ Users(i) # {} \/ Entries(i) # {} => i \in ram.imap
  /\ \A e, f \in Entries(i) : e = f
  /\ \A p \in CallsOn(i) : CallOK(i, p)
  /\ (\A p \in CallsOn(i) : ~Loaded(call[p]) /\ ~Creates(call[p])) =>
       ram.inode[i].cnt = Cardinality(Users(i))
  /\ ram.inode[i].cnt > 0 /\ (\A p \in CallsOn(i) : ~Changes(call[p])) =>
       disk.inode[i] = Pure(ram.inode[i])

(* A bit that memory and disk have differently lies in a sector that some  *)
(* process is about to write, and inode numbers differ only during         *)
(* file_create and inode_release.                                          *)
Differ(a, b) == (a \ b) \cup (b \ a)

Pending(b) ==
  \E p \in Task : call[p].op \in {"first", "bitmap", "free"} /\ SameSector(b, call[p].bit)

BitmapsOK ==
  /\ \A b \in Differ(ram.bmap, disk.bmap) : Pending(b)
  /\ ram.imap # disk.imap => \E p \in Task : Creates(call[p]) \/ call[p].op = "ifree"

BlocksOK == BlocksTypes /\ BitmapsOK /\ \A i \in Ino : InodeOK(i)

BlocksInv == mishap = "none" => BlocksOK

-----------------------------------------------------------------------------
LEMMA MinOf ==
  ASSUME NEW S \in SUBSET Nat, S # {}
  PROVE  Min(S) \in S
BY LeastNat DEF Min

LEMMA MaxOfOne ==
  ASSUME NEW x \in Nat
  PROVE  Max({x}) = x
BY DEF Max

(* block_bitmap_alloc gives no block, or one that it marks.                *)
LEMMA AllocOne ==
  ASSUME NEW m, IsRam(m),
         NEW new, new = block_bitmap_alloc(m), new.got # {}
  PROVE  /\ Max(new.got) \in Block
         /\ new.mem = [bmap |-> m.bmap \cup {Max(new.got)}, imap |-> m.imap,
                       inode |-> m.inode]
<1>1. m.bmap # Block
  BY DEF block_bitmap_alloc
<1>2. Block \ m.bmap # {} /\ Block \ m.bmap \subseteq Nat
  <2>1. m.bmap \subseteq Block
    BY DEF IsRam
  <2>2. Block \subseteq Nat
    BY DEF Block
  <2>3. QED
    BY <1>1, <2>1, <2>2
<1>3. Min(Block \ m.bmap) \in Block
  BY <1>2, MinOf
<1> DEFINE b == Min(Block \ m.bmap)
<1> DEFINE marked == [m EXCEPT !.bmap = @ \cup {b}]
<1>4. new = [got |-> {b}, mem |-> marked]
  BY <1>1, Zenon DEF block_bitmap_alloc
<1>5. b \in Nat
  BY <1>3 DEF Block
<1> HIDE DEF b
<1>6. new.got = {b} /\ new.mem = marked
  <2> HIDE DEF marked
  <2>1. QED
    BY <1>4
<1>7. Max(new.got) = b
  BY <1>5, <1>6, MaxOfOne
<1>8. marked = [bmap |-> m.bmap \cup {b}, imap |-> m.imap, inode |-> m.inode]
  <2>1. m = [bmap |-> m.bmap, imap |-> m.imap, inode |-> m.inode]
    BY DEF IsRam
  <2>2. QED
    BY ONLY <2>1
<1>9. QED
  BY <1>3, <1>6, <1>7, <1>8 DEF b
(* One inode in memory is changed.                                         *)
SetInode(m, i, x) == [m EXCEPT !.inode[i] = x]

LEMMA InodeChanged ==
  ASSUME NEW m, IsRam(m), NEW i \in Ino, NEW x, IsInode(x),
         NEW n, n = SetInode(m, i, x)
  PROVE  /\ IsRam(n) /\ n.bmap = m.bmap /\ n.imap = m.imap
         /\ n.inode[i] = x /\ \A j \in Ino : j # i => n.inode[j] = m.inode[j]
<1>1. m = [bmap |-> m.bmap, imap |-> m.imap, inode |-> m.inode]
  BY DEF IsRam
<1>2. n = [bmap |-> m.bmap, imap |-> m.imap, inode |-> [m.inode EXCEPT ![i] = x]]
  BY ONLY <1>1, n = SetInode(m, i, x) DEF SetInode
<1>3. QED
  BY <1>2 DEF IsRam

LEMMA SectOfInode ==
  ASSUME NEW x, IsInode(x), NEW s, NEW y, y = [x EXCEPT !.sect = s]
  PROVE  IsInode(y) /\ y.cnt = x.cnt
<1>1. x = [cnt |-> x.cnt, size |-> x.size, sect |-> x.sect]
  BY DEF IsInode
<1>2. y = [cnt |-> x.cnt, size |-> x.size, sect |-> s]
  BY ONLY <1>1, y = [x EXCEPT !.sect = s]
<1>3. QED
  BY ONLY IsInode(x), <1>2 DEF IsInode

LEMMA SizeOfInode ==
  ASSUME NEW x, IsInode(x), NEW s \in Int, NEW y, y = [x EXCEPT !.size = s]
  PROVE  IsInode(y) /\ y.cnt = x.cnt
<1>1. x = [cnt |-> x.cnt, size |-> x.size, sect |-> x.sect]
  BY DEF IsInode
<1>2. y = [cnt |-> x.cnt, size |-> s, sect |-> x.sect]
  BY ONLY <1>1, y = [x EXCEPT !.size = s]
<1>3. QED
  BY ONLY s \in Int, <1>2 DEF IsInode

(* The inode that is written to disk and the one in memory differ in their *)
(* count at most, however that changes.                                    *)
LEMMA CntOfInode ==
  ASSUME NEW x, IsInode(x), NEW s, NEW y, y = [x EXCEPT !.cnt = s]
  PROVE  IsInode(y) /\ y.cnt = s /\ Pure(y) = Pure(x)
<1>1. x = [cnt |-> x.cnt, size |-> x.size, sect |-> x.sect]
  BY DEF IsInode
<1>2. y = [cnt |-> s, size |-> x.size, sect |-> x.sect]
  BY ONLY <1>1, y = [x EXCEPT !.cnt = s]
<1>3. [x EXCEPT !.cnt = 0] = [cnt |-> 0, size |-> x.size, sect |-> x.sect]
  BY ONLY <1>1
<1>4. [y EXCEPT !.cnt = 0] = [cnt |-> 0, size |-> x.size, sect |-> x.sect]
  BY ONLY <1>2
<1>5. QED
  BY ONLY IsInode(x), <1>2, <1>3, <1>4 DEF IsInode, Pure

LEMMA PureInode ==
  ASSUME NEW x, IsInode(x)
  PROVE  IsInode(Pure(x)) /\ Pure(x).cnt = 0 /\ (x.cnt = 0 => Pure(x) = x)
<1>1. x = [cnt |-> x.cnt, size |-> x.size, sect |-> x.sect]
  BY DEF IsInode
<1>2. [x EXCEPT !.cnt = 0] = [cnt |-> 0, size |-> x.size, sect |-> x.sect]
  BY ONLY <1>1
<1>3. QED
  BY <1>1, <1>2 DEF IsInode, Pure

LEMMA NewInodeIs ==
  IsInode(NewInode) /\ NewInode.cnt = 0
BY DEF IsInode, NewInode

(* What file_write does to memory: blocks are marked, whose bits the call  *)
(* is about to write to the disk, and the inode of the file may change.    *)
Grows(m, i, n, c) ==
  /\ IsRam(n) /\ n.imap = m.imap
  /\ \A j \in Ino : /\ n.inode[j].cnt = m.inode[j].cnt
                    /\ j # i => n.inode[j] = m.inode[j]
  /\ IsWrite(c) /\ c.ino = i
  /\ \A b \in Differ(n.bmap, m.bmap) :
       c.op \in {"first", "bitmap"} /\ SameSector(b, c.bit)

LEMMA OutIs ==
  ASSUME NEW m, NEW c, NEW h
  PROVE  Out(m, c, h).mem = m /\ Out(m, c, h).c = c /\ Out(m, c, h).mishap = h
BY DEF Out

LEMMA NextChunkGrows ==
  ASSUME NEW m, IsRam(m), NEW c, IsWrite(c), NEW out, out = NextChunk(m, c)
  PROVE  Grows(m, c.ino, out.mem, out.c) /\ out.mishap = "none"
<1> DEFINE d == [c EXCEPT !.op = IF c.left > 0 THEN "chunk" ELSE "sync"]
<1>1. IsWrite(d) /\ d.ino = c.ino
  BY DEF IsWrite
<1> HIDE DEF d
<1>2. out = Out(m, d, "none")
  BY DEF NextChunk, d
<1>3. out.mem = m /\ out.c = d /\ out.mishap = "none"
  BY <1>2, OutIs
<1>4. QED
  BY <1>1, <1>3 DEF Grows, IsRam, Differ

(* A block is allocated: its bit is set, and its number is kept in the     *)
(* inode or in all_blocks only.                                            *)
SetSect(m, i, s) == [m EXCEPT !.inode[i].sect = s]

LEMMA AllocGrows ==
  ASSUME NEW m, IsRam(m), NEW i \in Ino,
         NEW new, new = block_bitmap_alloc(m), new.got # {},
         NEW s, NEW n, n = SetSect(new.mem, i, s)
  PROVE  /\ IsRam(n) /\ n.imap = m.imap /\ n.bmap = m.bmap \cup {Max(new.got)}
         /\ \A j \in Ino : /\ n.inode[j].cnt = m.inode[j].cnt
                           /\ j # i => n.inode[j] = m.inode[j]
<1> DEFINE b == Max(new.got)
           w == new.mem
<1>1. b \in Block /\ w = [bmap |-> m.bmap \cup {b}, imap |-> m.imap, inode |-> m.inode]
  BY AllocOne
<1>2. IsRam(w) /\ w.bmap = m.bmap \cup {b} /\ w.imap = m.imap /\ w.inode = m.inode
  BY <1>1 DEF IsRam
<1>3. n = SetSect(w, i, s)
  OBVIOUS
<1> HIDE DEF b, w
<1> DEFINE x == [w.inode[i] EXCEPT !.sect = s]
<1>4. IsInode(x) /\ x.cnt = m.inode[i].cnt
  BY <1>2, SectOfInode DEF IsRam
<1>5. n = SetInode(w, i, x)
  <2>1. w = [bmap |-> w.bmap, imap |-> w.imap, inode |-> w.inode]
    BY <1>2 DEF IsRam
  <2>2. QED
    BY ONLY <1>3, <2>1 DEF SetInode, SetSect
<1> HIDE <1>3 DEF x
<1>6. /\ IsRam(n) /\ n.bmap = w.bmap /\ n.imap = w.imap
      /\ n.inode[i] = x /\ \A j \in Ino : j # i => n.inode[j] = w.inode[j]
  BY <1>2, <1>4, <1>5, InodeChanged
<1>7. QED
  BY <1>2, <1>4, <1>6 DEF b

LEMMA AllocNextGrows ==
  ASSUME NEW m, IsRam(m), NEW c, IsWrite(c),
         NEW out, out = AllocNext(m, c), out.mishap = "none"
  PROVE  Grows(m, c.ino, out.mem, out.c) /\ (c.idx # c.will => out.c.op = "bitmap")
<1>1. CASE c.idx = c.will /\ ~(c.has < c.will /\ c.will > Direct)
  <2>1. out = NextChunk(m, c)
    BY <1>1, Zenon DEF AllocNext
  <2>2. QED
    BY <1>1, <2>1, NextChunkGrows
<1>2. CASE c.idx = c.will /\ c.has < c.will /\ c.will > Direct
  <2> DEFINE d == [c EXCEPT !.op = "puttable"]
  <2>1. IsWrite(d) /\ d.ino = c.ino
    BY DEF IsWrite
  <2> HIDE DEF d
  <2>2. out = Out(m, d, "none")
    BY <1>2, Zenon DEF AllocNext, d
  <2>3. out.mem = m /\ out.c = d
    BY <2>2, OutIs
  <2>4. QED
    BY <1>2, <2>1, <2>3 DEF Grows, IsRam, Differ
<1>3. CASE c.idx # c.will
  <2> DEFINE new == block_bitmap_alloc(m)
             b == Max(new.got)
             sect == IF c.idx < Direct
                     THEN [new.mem.inode[c.ino].sect EXCEPT ![c.idx] = b]
                     ELSE new.mem.inode[c.ino].sect
             n == [new.mem EXCEPT !.inode[c.ino].sect = sect]
             d == [c EXCEPT !.op = "bitmap", !.bit = b, !.blocks[c.idx] = b, !.idx = @ + 1]
  <2>1. /\ ~(c.idx < Direct /\ m.inode[c.ino].sect[c.idx] # 0)
        /\ new.got # {}
    <3>1. CASE c.idx < Direct /\ m.inode[c.ino].sect[c.idx] # 0
      <4>1. out = Out(m, c, "assert")
        BY <1>3, <3>1, Zenon DEF AllocNext
      <4>2. QED
        BY <4>1, OutIs
    <3>2. CASE ~(c.idx < Direct /\ m.inode[c.ino].sect[c.idx] # 0) /\ new.got = {}
      <4>1. out = Out(m, c, "full")
        BY <1>3, <3>2, Zenon DEF AllocNext
      <4>2. QED
        BY <4>1, OutIs
    <3>3. QED
      BY <3>1, <3>2
  <2>2. out = Out(n, d, "none")
    BY <1>3, <2>1, Zenon DEF AllocNext
  <2>3. IsWrite(d) /\ d.ino = c.ino /\ d.op = "bitmap" /\ d.bit = b
    <3> HIDE DEF b
    <3>1. QED
      BY DEF IsWrite
  <2>4. n = SetSect(new.mem, c.ino, sect)
    BY Zenon DEF SetSect
  <2> HIDE DEF n, d, sect
  <2>5. c.ino \in Ino
    BY DEF IsWrite
  <2>6. /\ IsRam(n) /\ n.imap = m.imap /\ n.bmap = m.bmap \cup {Max(new.got)}
        /\ \A j \in Ino : /\ n.inode[j].cnt = m.inode[j].cnt
                          /\ j # c.ino => n.inode[j] = m.inode[j]
    <3>1. new = block_bitmap_alloc(m) /\ new.got # {}
      BY <2>1
    <3> HIDE DEF new, b
    <3>2. SUFFICES ASSUME NEW i, i = c.ino, NEW k, k = new, NEW l, l = n, NEW s, s = sect
          PROVE  /\ IsRam(l) /\ l.imap = m.imap /\ l.bmap = m.bmap \cup {Max(k.got)}
                 /\ \A j \in Ino : /\ l.inode[j].cnt = m.inode[j].cnt
                                   /\ j # i => l.inode[j] = m.inode[j]
      OBVIOUS
    <3>3. l = SetSect(k.mem, i, s)
      BY <2>4, <3>2
    <3>4. k = block_bitmap_alloc(m) /\ k.got # {} /\ i \in Ino /\ IsRam(m)
      BY <2>5, <3>1, <3>2
    <3>5. QED
      BY ONLY <3>3, <3>4, AllocGrows
  <2> HIDE DEF new, b
  <2>7. out.mem = n /\ out.c = d
    BY <2>2, OutIs
  <2>8. QED
    BY <2>3, <2>6, <2>7 DEF Grows, Differ, SameSector, b
<1>4. QED
  BY <1>1, <1>2, <1>3

LEMMA AllocNextIsOut ==
  ASSUME NEW m, NEW c
  PROVE  "mishap" \in DOMAIN AllocNext(m, c)
<1>1. \A x, y, h : "mishap" \in DOMAIN Out(x, y, h)
  BY DEF Out
<1>2. QED
  BY <1>1, Zenon DEF AllocNext, NextChunk

LEMMA NewTableGrows ==
  ASSUME NEW m, IsRam(m), NEW c, IsWrite(c), c.idx # c.will,
         NEW out, out = NewTable(m, c), out.mishap = "none"
  PROVE  Grows(m, c.ino, out.mem, out.c)
<1> DEFINE new == block_bitmap_alloc(m)
           b == Max(new.got)
           sect == [new.mem.inode[c.ino].sect EXCEPT ![Direct] = b]
           n == [new.mem EXCEPT !.inode[c.ino].sect[Direct] = b]
           next_out == AllocNext(n, c)
<1>1. m.inode[c.ino].sect[Direct] = 0 /\ new.got # {}
  <2>1. CASE m.inode[c.ino].sect[Direct] # 0
    <3>1. out = Out(m, c, "assert")
      BY <2>1, Zenon DEF NewTable
    <3>2. QED
      BY <3>1, OutIs
  <2>2. CASE m.inode[c.ino].sect[Direct] = 0 /\ new.got = {}
    <3>1. out = Out(m, c, "full")
      BY <2>2, Zenon DEF NewTable
    <3>2. QED
      BY <3>1, OutIs
  <2>3. QED
    BY <2>1, <2>2
<1>2. out = IF next_out.mishap = "none" /\ ~SameSector(b, next_out.c.bit)
            THEN [next_out EXCEPT !.mishap = "table"] ELSE next_out
  BY <1>1, Zenon DEF NewTable
<1>3. "mishap" \in DOMAIN next_out
  BY AllocNextIsOut, Zenon
<1>4. n = SetSect(new.mem, c.ino, sect)
  BY Zenon DEF SetSect
<1>5. c.ino \in Ino
  BY DEF IsWrite
<1> HIDE DEF n, sect
<1>6. /\ IsRam(n) /\ n.imap = m.imap /\ n.bmap = m.bmap \cup {Max(new.got)}
      /\ \A j \in Ino : /\ n.inode[j].cnt = m.inode[j].cnt
                        /\ j # c.ino => n.inode[j] = m.inode[j]
  <2>1. new = block_bitmap_alloc(m) /\ new.got # {}
    BY <1>1
  <2> HIDE DEF new, b
  <2>2. SUFFICES ASSUME NEW i, i = c.ino, NEW k, k = new, NEW l, l = n, NEW s, s = sect
        PROVE  /\ IsRam(l) /\ l.imap = m.imap /\ l.bmap = m.bmap \cup {Max(k.got)}
               /\ \A j \in Ino : /\ l.inode[j].cnt = m.inode[j].cnt
                                 /\ j # i => l.inode[j] = m.inode[j]
    OBVIOUS
  <2>3. l = SetSect(k.mem, i, s)
    BY <1>4, <2>2
  <2>4. k = block_bitmap_alloc(m) /\ k.got # {} /\ i \in Ino /\ IsRam(m)
    BY <1>5, <2>1, <2>2
  <2>5. QED
    BY ONLY <2>3, <2>4, AllocGrows
<1>7. n.bmap = m.bmap \cup {b}
  BY <1>6, Zenon
<1> HIDE DEF new, b
<1>8. out = next_out /\ next_out.mishap = "none" /\ SameSector(b, next_out.c.bit)
  <2> HIDE DEF next_out
  <2>1. CASE next_out.mishap = "none" /\ ~SameSector(b, next_out.c.bit)
    BY <1>2, <1>3, <2>1
  <2>2. CASE ~(next_out.mishap = "none" /\ ~SameSector(b, next_out.c.bit))
    BY <1>2, <2>2
  <2>3. QED
    BY <2>1, <2>2
<1>9. Grows(n, c.ino, out.mem, out.c) /\ out.c.op = "bitmap"
  BY <1>6, <1>8, AllocNextGrows
<1>10. SameSector(b, out.c.bit)
  BY <1>8
<1> HIDE DEF next_out
<1>11. QED
  BY <1>6, <1>7, <1>9, <1>10 DEF Grows, Differ

LEMMA CollectGrows ==
  ASSUME NEW m, IsRam(m), NEW c, IsWrite(c),
         NEW out, out = CollectBlocks(m, c), out.mishap = "none"
  PROVE  Grows(m, c.ino, out.mem, out.c)
<1> DEFINE inode == m.inode[c.ino]
           has == used_blocks(inode.size)
           will == used_blocks(inode.size + c.left)
           d == [c EXCEPT !.has = has, !.will = will, !.idx = has,
                          !.blocks[has - 1] = IF has <= Direct THEN inode.sect[has - 1] ELSE 0]
           e == [d EXCEPT !.op = "gettable"]
<1>1. IsWrite(d) /\ d.ino = c.ino /\ d.idx = has /\ d.will = will
  <2> HIDE DEF has, will
  <2>1. QED
    BY DEF IsWrite
<1> HIDE DEF d
<1>2. IsWrite(e) /\ e.ino = c.ino
  BY <1>1 DEF IsWrite
<1> HIDE DEF e
<1>3. \/ out = Out(m, c, "assert")
      \/ out = Out(m, e, "none")
      \/ has < will /\ out = NewTable(m, d)
      \/ out = AllocNext(m, d)
  BY Zenon DEF CollectBlocks, d, e
<1>4. has \in Int /\ will \in Int
  <2>1. inode.size \in Int /\ c.left \in Int
    BY DEF IsRam, IsInode, IsWrite
  <2>2. BlockSize \in Nat \ {0}
    BY BlocksAssumption
  <2>3. \A k \in Int : used_blocks(k) \in Int
    BY <2>2 DEF used_blocks
  <2> HIDE DEF inode
  <2>4. QED
    BY <2>1, <2>3
<1> HIDE DEF has, will
<1>5. CASE out = Out(m, c, "assert")
  BY <1>5, OutIs
<1>6. CASE out = Out(m, e, "none")
  BY <1>2, <1>6, OutIs DEF Grows, IsRam, Differ
<1>7. CASE has < will /\ out = NewTable(m, d)
  <2>1. d.idx # d.will
    BY <1>1, <1>4, <1>7
  <2>2. Grows(m, d.ino, out.mem, out.c)
    BY <1>1, <1>7, <2>1, NewTableGrows
  <2>3. QED
    BY <1>1, <2>2
<1>8. CASE out = AllocNext(m, d)
  BY <1>1, <1>8, AllocNextGrows
<1>9. QED
  BY <1>3, <1>5, <1>6, <1>7, <1>8

-----------------------------------------------------------------------------
(* A step of process p leaves inode j as it is if neither its call nor its *)
(* file is about j.                                                        *)
Elsewhere(c, j) == c.what = "none" \/ c.ino # j

Untouched(p, j) ==
  /\ \A q \in Task \ {p} : call'[q] = call[q] /\ file'[q] = file[q]
  /\ file'[p].ino = file[p].ino \/ (file[p].ino # j /\ file'[p].ino # j)
  /\ Elsewhere(call[p], j) /\ Elsewhere(call'[p], j)
  /\ ram'.inode[j] = ram.inode[j] /\ disk'.inode[j] = disk.inode[j]
  /\ Entries(j)' = Entries(j) /\ (j \in ram.imap => j \in ram'.imap)

LEMMA UntouchedOK ==
  ASSUME NEW p \in Task, NEW j \in Ino, InodeOK(j), Untouched(p, j)
  PROVE  InodeOK(j)'
<1>1. Users(j)' = Users(j)
  BY DEF Untouched, Users
<1>2. CallsOn(j)' = CallsOn(j) /\ p \notin CallsOn(j)
  BY DEF Untouched, CallsOn, Elsewhere
<1>3. \A q \in CallsOn(j) : q \in Task /\ call'[q] = call[q] /\ file'[q] = file[q]
  BY <1>2 DEF Untouched, CallsOn
<1>4. ram'.inode[j] = ram.inode[j] /\ disk'.inode[j] = disk.inode[j]
  BY DEF Untouched
<1>5. Entries(j)' = Entries(j) /\ (j \in ram.imap => j \in ram'.imap)
  BY DEF Untouched
<1>6. ASSUME NEW q \in CallsOn(j)
      PROVE  CallOK(j, q)'
  <2>1. CallOK(j, q)
    BY DEF InodeOK
  <2>2. (\A r \in CallsOn(j) : ~Deletes(call[r])) => \A r \in CallsOn(j)' : ~Deletes(call'[r])
    BY <1>2, <1>3
  <2>3. (\A r \in CallsOn(j) : Loaded(call[r]) => r = q) => \A r \in CallsOn(j)' : Loaded(call'[r]) => r = q
    BY <1>2, <1>3
  <2>4. call'[q] = call[q] /\ file'[q] = file[q]
    BY <1>3
  <2>5. QED
    BY <1>1, <1>4, <1>5, <2>1, <2>2, <2>3, <2>4 DEF CallOK
<1>7. /\ Users(j)' # {} \/ Entries(j)' # {} => j \in ram'.imap
      /\ \A e, f \in Entries(j)' : e = f
  BY <1>1, <1>5 DEF InodeOK
<1>8. (\A q \in CallsOn(j)' : ~Loaded(call'[q]) /\ ~Creates(call'[q])) =>
        ram'.inode[j].cnt = Cardinality(Users(j)')
  BY <1>1, <1>2, <1>3, <1>4 DEF InodeOK
<1>9. ram'.inode[j].cnt > 0 /\ (\A q \in CallsOn(j)' : ~Changes(call'[q])) =>
        disk'.inode[j] = Pure(ram'.inode[j])
  BY <1>2, <1>3, <1>4 DEF InodeOK
<1>10. QED
  BY <1>2, <1>6, <1>7, <1>8, <1>9 DEF InodeOK

LEMMA CallKinds ==
  ASSUME NEW c, IsCall(c)
  PROVE  /\ c.op = "imap" => Creates(c)
         /\ c.op \in {"enread", "entry"} => Creates(c)
         /\ HasEntry(c) => Deletes(c)
         /\ Loaded(c) => Deletes(c)
         /\ c # NoCall => c.what # "none" /\ c.ino \in Ino
         /\ c = NoCall => c.what = "none"
         /\ Creates(c) => ~Deletes(c)
         /\ c.what \in {"none", "write", "read", "open"} => ~Creates(c) /\ ~Deletes(c)
         /\ c.op \in {"first", "bitmap"} => c.what = "write"
         /\ c.what = "write" => IsWrite(c) \/ c.op = "syncw"
<1>1. CASE c = NoCall
  BY <1>1 DEF NoCall, Creates, Deletes, HasEntry, Loaded
<1>2. CASE IsWrite(c)
  BY <1>2 DEF IsWrite, NoCall, Creates, Deletes, HasEntry, Loaded
<1>3. CASE IsRead(c)
  BY <1>3 DEF IsRead, NoCall, Creates, Deletes, HasEntry, Loaded
<1>4. CASE <<c.op, c.what>> \in Point /\ c.ino \in Ino
  BY <1>4 DEF Point, NoCall, Creates, Deletes, HasEntry, Loaded
<1>5. QED
  BY <1>1, <1>2, <1>3, <1>4 DEF IsCall

(* Other processes keep their calls and files.                             *)
StepOf(p) ==
  /\ DOMAIN call' = Task /\ DOMAIN file' = Task
  /\ \A q \in Task \ {p} : call'[q] = call[q] /\ file'[q] = file[q]

(* A step of p keeps the bits pending that it does not write to the disk.  *)
Writes(c, b) == c.op \in {"first", "bitmap", "free"} /\ SameSector(b, c.bit)
Numbers(c) == Creates(c) \/ c.op = "ifree"

BitsStep(p) ==
  /\ \A b \in Differ(ram'.bmap, disk'.bmap) :
       \/ b \in Differ(ram.bmap, disk.bmap) /\ ~Writes(call[p], b)
       \/ Writes(call'[p], b)
  /\ ram'.imap # disk'.imap =>
       (ram.imap # disk.imap /\ ~Numbers(call[p])) \/ Numbers(call'[p])

LEMMA BitsStepOK ==
  ASSUME BitmapsOK, NEW p \in Task, StepOf(p), BitsStep(p)
  PROVE  BitmapsOK'
<1>1. ASSUME NEW b \in Differ(ram'.bmap, disk'.bmap)
      PROVE  Pending(b)'
  <2>1. CASE Writes(call'[p], b)
    BY <2>1 DEF Writes, Pending
  <2>2. CASE b \in Differ(ram.bmap, disk.bmap) /\ ~Writes(call[p], b)
    <3>1. PICK q \in Task : Writes(call[q], b)
      BY <2>2 DEF BitmapsOK, Pending, Writes
    <3>2. call'[q] = call[q]
      BY <2>2, <3>1 DEF StepOf
    <3>3. QED
      BY <3>1, <3>2 DEF Pending, Writes
  <2>3. QED
    BY <1>1, <2>1, <2>2 DEF BitsStep
<1>2. ASSUME ram'.imap # disk'.imap
      PROVE  \E q \in Task : Numbers(call'[q])
  <2>1. CASE Numbers(call'[p])
    BY <2>1
  <2>2. CASE ram.imap # disk.imap /\ ~Numbers(call[p])
    <3>1. PICK q \in Task : Numbers(call[q])
      BY <2>2 DEF BitmapsOK, Numbers
    <3>2. call'[q] = call[q]
      BY <2>2, <3>1 DEF StepOf
    <3>3. QED
      BY <3>1, <3>2
  <2>3. QED
    BY <1>2, <2>1, <2>2 DEF BitsStep
<1>3. (ram.imap # disk.imap)' => \E q \in Task : (Creates(call[q]) \/ call[q].op = "ifree")'
  BY <1>2 DEF Numbers, Creates
<1>4. \A b \in Differ(ram.bmap, disk.bmap)' : Pending(b)'
  BY <1>1 DEF Differ
<1>5. QED
  BY <1>3, <1>4 DEF BitmapsOK, Creates

(* The types after a step of p.                                            *)
LEMMA TypesStep ==
  ASSUME BlocksTypes, NEW p \in Task, StepOf(p), IsRam(ram'), IsDisk(disk'),
         IsCall(call'[p]), IsFileOf(file'[p])
  PROVE  BlocksTypes'
<1>1. \A q \in Task : IsCall(call'[q]) /\ IsFileOf(file'[q])
  BY DEF BlocksTypes, StepOf
<1>2. BlocksTypes' <=> /\ IsRam(ram') /\ IsDisk(disk')
                       /\ DOMAIN file' = Task /\ DOMAIN call' = Task
                       /\ \A q \in Task : IsCall(call'[q]) /\ IsFileOf(file'[q])
  BY DEF BlocksTypes, IsRam, IsDisk, IsCall, IsFileOf, IsInode, IsWrite, IsRead
<1>3. QED
  BY <1>1, <1>2 DEF StepOf

(* One part of the disk is written.                                        *)
SetDiskBmap(d, v) == [d EXCEPT !.bmap = v]

LEMMA DiskBmapSet ==
  ASSUME NEW d, IsDisk(d), NEW v, NEW n, n = SetDiskBmap(d, v)
  PROVE  /\ IsDisk(n) /\ n.bmap = v /\ n.imap = d.imap /\ n.inode = d.inode
         /\ n.blk = d.blk /\ n.entry = d.entry
<1>1. d = [bmap |-> d.bmap, imap |-> d.imap, inode |-> d.inode, blk |-> d.blk,
           entry |-> d.entry]
  BY DEF IsDisk
<1>2. n = [bmap |-> v, imap |-> d.imap, inode |-> d.inode, blk |-> d.blk, entry |-> d.entry]
  BY ONLY <1>1, n = SetDiskBmap(d, v) DEF SetDiskBmap
<1>3. QED
  BY <1>2 DEF IsDisk

SetDiskImap(d, v) == [d EXCEPT !.imap = v]

LEMMA DiskImapSet ==
  ASSUME NEW d, IsDisk(d), NEW v, NEW n, n = SetDiskImap(d, v)
  PROVE  /\ IsDisk(n) /\ n.bmap = d.bmap /\ n.imap = v /\ n.inode = d.inode
         /\ n.blk = d.blk /\ n.entry = d.entry
<1>1. d = [bmap |-> d.bmap, imap |-> d.imap, inode |-> d.inode, blk |-> d.blk,
           entry |-> d.entry]
  BY DEF IsDisk
<1>2. n = [bmap |-> d.bmap, imap |-> v, inode |-> d.inode, blk |-> d.blk, entry |-> d.entry]
  BY ONLY <1>1, n = SetDiskImap(d, v) DEF SetDiskImap
<1>3. QED
  BY <1>2 DEF IsDisk

SetDiskBlk(d, v) == [d EXCEPT !.blk = v]

LEMMA DiskBlkSet ==
  ASSUME NEW d, IsDisk(d), NEW v, NEW n, n = SetDiskBlk(d, v)
  PROVE  /\ IsDisk(n) /\ n.bmap = d.bmap /\ n.imap = d.imap /\ n.inode = d.inode
         /\ n.blk = v /\ n.entry = d.entry
<1>1. d = [bmap |-> d.bmap, imap |-> d.imap, inode |-> d.inode, blk |-> d.blk,
           entry |-> d.entry]
  BY DEF IsDisk
<1>2. n = [bmap |-> d.bmap, imap |-> d.imap, inode |-> d.inode, blk |-> v, entry |-> d.entry]
  BY ONLY <1>1, n = SetDiskBlk(d, v) DEF SetDiskBlk
<1>3. QED
  BY <1>2 DEF IsDisk

SetDiskEntry(d, v) == [d EXCEPT !.entry = v]

LEMMA DiskEntrySet ==
  ASSUME NEW d, IsDisk(d), NEW v, NEW n, n = SetDiskEntry(d, v)
  PROVE  /\ IsDisk(n) /\ n.bmap = d.bmap /\ n.imap = d.imap /\ n.inode = d.inode
         /\ n.blk = d.blk /\ n.entry = v
<1>1. d = [bmap |-> d.bmap, imap |-> d.imap, inode |-> d.inode, blk |-> d.blk,
           entry |-> d.entry]
  BY DEF IsDisk
<1>2. n = [bmap |-> d.bmap, imap |-> d.imap, inode |-> d.inode, blk |-> d.blk, entry |-> v]
  BY ONLY <1>1, n = SetDiskEntry(d, v) DEF SetDiskEntry
<1>3. QED
  BY <1>2 DEF IsDisk

SetDiskInode(d, v) == [d EXCEPT !.inode = v]

LEMMA DiskInodeSet ==
  ASSUME NEW d, IsDisk(d), NEW v, NEW n, n = SetDiskInode(d, v),
         DOMAIN v = Ino \cup {0}, \A i \in Ino : IsInode(v[i]) /\ v[i].cnt = 0
  PROVE  /\ IsDisk(n) /\ n.bmap = d.bmap /\ n.imap = d.imap /\ n.inode = v
         /\ n.blk = d.blk /\ n.entry = d.entry
<1>1. d = [bmap |-> d.bmap, imap |-> d.imap, inode |-> d.inode, blk |-> d.blk,
           entry |-> d.entry]
  BY DEF IsDisk
<1>2. n = [bmap |-> d.bmap, imap |-> d.imap, inode |-> v, blk |-> d.blk, entry |-> d.entry]
  BY ONLY <1>1, n = SetDiskInode(d, v) DEF SetDiskInode
<1>3. QED
  BY <1>2 DEF IsDisk

-----------------------------------------------------------------------------
(* A call that process p begins or goes on with: the parts of the          *)
(* invariant hold again if they do for the inode it is about.              *)
LEMMA InodeStepKeeps ==
  ASSUME BlocksOK, NEW p \in Task, StepOf(p), IsRam(ram'), IsDisk(disk'),
         IsCall(call'[p]), IsFileOf(file'[p]), BitsStep(p),
         NEW i \in Ino, InodeOK(i)', \A j \in Ino \ {i} : Untouched(p, j)
  PROVE  BlocksOK'
<1>1. BlocksTypes'
  BY TypesStep DEF BlocksOK
<1>2. BitmapsOK'
  BY BitsStepOK DEF BlocksOK
<1>3. \A j \in Ino : InodeOK(j)'
  <2>1. ASSUME NEW j \in Ino, j # i
        PROVE  InodeOK(j)'
    <3>1. InodeOK(j) /\ Untouched(p, j)
      BY <2>1 DEF BlocksOK
    <3>2. QED
      BY <3>1, UntouchedOK
  <2>2. QED
    BY <2>1
<1>4. QED
  BY <1>1, <1>2, <1>3 DEF BlocksOK

(* file_write: the inode changes in memory, while the call is on it.       *)
LEMMA WriteKeeps ==
  ASSUME BlocksOK, NEW p \in Task, StepOf(p), NEW i \in Ino,
         file[p].ino = i, file'[p] = file[p],
         call[p] = NoCall \/ (IsWrite(call[p]) /\ call[p].ino = i),
         Grows(ram, i, ram', call'[p]), IsDisk(disk'),
         disk'.imap = disk.imap, disk'.inode = disk.inode, disk'.entry = disk.entry,
         \/ call[p].op \notin {"first", "bitmap"} /\ disk'.bmap = disk.bmap
         \/ disk'.bmap = bitmap_sync(ram.bmap, disk.bmap, call[p].bit)
  PROVE  BlocksOK'
<1>1. /\ IsRam(ram') /\ IsCall(call'[p]) /\ IsFileOf(file'[p])
      /\ call'[p].what = "write" /\ call'[p].ino = i /\ IsWrite(call'[p])
  BY DEF Grows, IsCall, IsWrite, BlocksOK, BlocksTypes
<1>2. BitsStep(p)
  <2>1. ~Numbers(call[p]) /\ call[p].op # "free"
    BY DEF IsWrite, NoCall, Numbers, Creates
  <2>2. ram'.imap # disk'.imap => ram.imap # disk.imap
    BY DEF Grows
  <2>3. ASSUME NEW b \in Differ(ram'.bmap, disk'.bmap)
        PROVE  \/ b \in Differ(ram.bmap, disk.bmap) /\ ~Writes(call[p], b)
               \/ Writes(call'[p], b)
    <3>1. CASE b \in Differ(ram'.bmap, ram.bmap)
      BY <3>1 DEF Grows, Writes
    <3>2. CASE b \notin Differ(ram'.bmap, ram.bmap)
      <4>1. b \in Differ(ram.bmap, disk'.bmap)
        BY <2>3, <3>2 DEF Differ
      <4>2. CASE call[p].op \notin {"first", "bitmap"} /\ disk'.bmap = disk.bmap
        BY <2>1, <4>1, <4>2 DEF Writes
      <4>3. CASE disk'.bmap = bitmap_sync(ram.bmap, disk.bmap, call[p].bit)
        BY <4>1, <4>3 DEF Writes, Differ, bitmap_sync
      <4>4. QED
        BY <4>2, <4>3
    <3>3. QED
      BY <3>1, <3>2
  <2>4. QED
    BY <2>1, <2>2, <2>3 DEF BitsStep
<1>3. ASSUME NEW j \in Ino, j # i
      PROVE  Untouched(p, j)
  <2>1. Elsewhere(call[p], j) /\ Elsewhere(call'[p], j)
    BY <1>1, <1>3 DEF Elsewhere, NoCall
  <2>2. Entries(j)' = Entries(j)
    BY DEF Entries
  <2>3. QED
    BY <1>3, <2>1, <2>2 DEF Untouched, StepOf, Grows
<1>4. InodeOK(i)'
  <2>1. \A q \in Task \ {p} : call'[q] = call[q] /\ file'[q] = file[q]
    BY DEF StepOf
  <2>2. Users(i)' = Users(i) /\ p \in Users(i)
    BY <2>1 DEF Users
  <2>3. CallsOn(i)' = CallsOn(i) \cup {p}
    BY <1>1, <2>1 DEF CallsOn
  <2>4. /\ \A q \in CallsOn(i) : IsCall(call[q]) /\ CallOK(i, q)
        /\ \A q \in Task : IsCall(call[q])
    BY DEF BlocksOK, BlocksTypes, InodeOK, CallsOn
  <2>5. \A q \in CallsOn(i) : q # p => ~Creates(call[q]) /\ ~Deletes(call[q])
    BY <2>2, <2>4 DEF CallOK
  <2>6. call[p].what \in {"none", "write"}
    BY DEF NoCall, IsWrite
  <2>7. \A q \in CallsOn(i) : ~Creates(call[q]) /\ ~Deletes(call[q]) /\ ~Loaded(call[q])
    <3>1. ~Creates(call[p]) /\ ~Deletes(call[p])
      BY <2>6 DEF Creates, Deletes
    <3>2. QED
      BY <2>4, <2>5, <3>1, CallKinds
  <2>8. \A q \in CallsOn(i) \ {p} : q \in Task /\ call'[q] = call[q] /\ file'[q] = file[q]
    BY <2>1 DEF CallsOn
  <2>9. ASSUME NEW q \in CallsOn(i)', q # p
        PROVE  CallOK(i, q)'
    <3>1. CallOK(i, q) /\ IsCall(call[q]) /\ call'[q] = call[q] /\ file'[q] = file[q]
      BY <2>3, <2>4, <2>8, <2>9
    <3>2. ~Creates(call[q]) /\ ~Deletes(call[q]) /\ ~Loaded(call[q])
      BY <2>3, <2>7, <2>9
    <3>3. call[q].op \notin {"imap", "enread", "entry"} /\ ~HasEntry(call[q])
      BY <3>1, <3>2, CallKinds
    <3>4. QED
      BY <3>1, <3>2, <3>3 DEF CallOK, HasEntry, Creates, Deletes, Loaded
  <2>10. CallOK(i, p)'
    BY <1>1 DEF CallOK, IsWrite, HasEntry, Creates, Deletes, Loaded
  <2>11. Entries(i)' = Entries(i) /\ ram'.imap = ram.imap /\ ram'.inode[i].cnt = ram.inode[i].cnt
    BY DEF Entries, Grows
  <2>12. InodeOK(i)
    BY DEF BlocksOK
  <2>13. ram.inode[i].cnt = Cardinality(Users(i))
    BY <2>7, <2>12 DEF InodeOK
  <2>14. Changes(call'[p])
    BY <1>1 DEF Changes
  <2>15. \A q \in CallsOn(i)' : CallOK(i, q)'
    BY <2>9, <2>10
  <2>16. p \in CallsOn(i)'
    BY <2>3
  <2>17. /\ Users(i)' # {} \/ Entries(i)' # {} => i \in ram'.imap
         /\ \A e, f \in Entries(i)' : e = f
         /\ ram'.inode[i].cnt = Cardinality(Users(i)')
    BY <2>2, <2>11, <2>12, <2>13 DEF InodeOK
  <2>18. QED
    BY <2>14, <2>15, <2>16, <2>17 DEF InodeOK, Changes, Creates, Deletes
<1>5. QED
  BY <1>1, <1>2, <1>3, <1>4, InodeStepKeeps

LEMMA BecomesIs ==
  ASSUME BlocksOK, NEW p \in Task, NEW out, Becomes(p, out)
  PROVE  /\ ram' = out.mem /\ call'[p] = out.c /\ mishap' = out.mishap
         /\ DOMAIN call' = Task /\ \A q \in Task \ {p} : call'[q] = call[q]
BY DEF Becomes, BlocksOK, BlocksTypes

(* What is known of the process of a step and of the inode it is about.    *)
LEMMA ProcessTypes ==
  ASSUME BlocksOK, NEW p \in Task
  PROVE  /\ IsRam(ram) /\ IsDisk(disk) /\ DOMAIN file = Task /\ DOMAIN call = Task
         /\ IsCall(call[p]) /\ IsFileOf(file[p])
         /\ file[p].ino # 0 => file[p].ino \in Ino /\ file[p] # NoFile
BY DEF BlocksOK, BlocksTypes, IsFileOf, NoFile

LEMMA OnOwn ==
  ASSUME BlocksOK, NEW p \in Task, call[p].what # "none"
  PROVE  call[p].ino \in Ino /\ p \in CallsOn(call[p].ino) /\ CallOK(call[p].ino, p)
<1>1. call[p].ino \in Ino
  BY ProcessTypes, CallKinds DEF NoCall
<1>2. p \in CallsOn(call[p].ino)
  BY DEF CallsOn
<1>3. QED
  BY <1>1, <1>2 DEF BlocksOK, InodeOK

LEMMA BitSyncedKeeps ==
  ASSUME BlocksOK, mishap' = "none", NEW p \in Task, BitSynced(p)
  PROVE  BlocksOK'
<1> DEFINE c == call[p]
           out == IF c.op = "first" THEN CollectBlocks(ram, c) ELSE AllocNext(ram, c)
           bits_on_disk == bitmap_sync(ram.bmap, disk.bmap, c.bit)
<1>1. c.op \in {"first", "bitmap"} /\ disk' = SetDiskBmap(disk, bits_on_disk) /\ file' = file
  BY DEF BitSynced, At, SetDiskBmap
<1>2. IsWrite(c) /\ c.what = "write"
  <2>1. IsCall(c)
    BY ProcessTypes
  <2> HIDE DEF c
  <2>2. QED
    BY <1>1, <2>1, CallKinds
<1>3. Becomes(p, out)
  BY DEF BitSynced
<1>4. /\ ram' = out.mem /\ call'[p] = out.c /\ out.mishap = "none"
      /\ DOMAIN call' = Task /\ \A q \in Task \ {p} : call'[q] = call[q]
  <2> HIDE DEF out
  <2>1. QED
    BY <1>3, BecomesIs
<1>5. IsRam(ram) /\ IsDisk(disk) /\ DOMAIN file = Task
  BY ProcessTypes
<1>6. c.ino \in Ino /\ file[p].ino = c.ino
  BY <1>2, OnOwn DEF CallOK
<1>7. Grows(ram, c.ino, out.mem, out.c)
  <2> HIDE DEF c
  <2>1. CASE c.op = "first"
    <3>1. out = CollectBlocks(ram, c)
      BY <2>1
    <3> HIDE DEF out
    <3>2. QED
      BY <1>2, <1>4, <1>5, <3>1, CollectGrows
  <2>2. CASE c.op # "first"
    <3>1. out = AllocNext(ram, c)
      BY <2>2
    <3> HIDE DEF out
    <3>2. QED
      BY <1>2, <1>4, <1>5, <3>1, AllocNextGrows
  <2>3. QED
    BY <2>1, <2>2
<1>8. /\ IsDisk(disk') /\ disk'.bmap = bits_on_disk /\ disk'.imap = disk.imap
      /\ disk'.inode = disk.inode /\ disk'.entry = disk.entry
  <2> HIDE DEF bits_on_disk
  <2>1. QED
    BY <1>1, <1>5, DiskBmapSet
<1>9. StepOf(p)
  BY <1>1, <1>4, <1>5 DEF StepOf
<1> HIDE DEF out
<1>10. QED
  BY <1>1, <1>2, <1>4, <1>6, <1>7, <1>8, <1>9, WriteKeeps

LEMMA GetTableKeeps ==
  ASSUME BlocksOK, mishap' = "none", NEW p \in Task, GetTable(p)
  PROVE  BlocksOK'
<1> DEFINE c == call[p]
           d == [c EXCEPT !.blocks = WithTable(@, ram.inode[c.ino].sect[Direct])]
           out == AllocNext(ram, d)
<1>1. c.op = "gettable" /\ disk' = disk /\ file' = file
  BY DEF GetTable, At
<1>2. Becomes(p, out)
  BY DEF GetTable
<1>3. IsCall(c) /\ IsRam(ram) /\ IsDisk(disk) /\ DOMAIN file = Task
  BY ProcessTypes
<1> HIDE DEF c
<1>4. IsWrite(c)
  BY <1>1, <1>3 DEF IsCall, IsRead, NoCall, Point
<1>5. IsWrite(d) /\ d.ino = c.ino
  BY <1>4 DEF IsWrite
<1> HIDE DEF d, out
<1>6. /\ ram' = out.mem /\ call'[p] = out.c /\ out.mishap = "none"
      /\ DOMAIN call' = Task /\ \A q \in Task \ {p} : call'[q] = call[q]
  BY <1>2, BecomesIs
<1>7. Grows(ram, c.ino, out.mem, out.c)
  BY <1>3, <1>5, <1>6, AllocNextGrows DEF out
<1>8. c.ino \in Ino /\ file[p].ino = c.ino
  BY <1>4, OnOwn DEF CallOK, IsWrite, c
<1>9. StepOf(p)
  BY <1>1, <1>3, <1>6 DEF StepOf
<1>10. QED
  BY <1>1, <1>3, <1>4, <1>6, <1>7, <1>8, <1>9, WriteKeeps DEF c

LEMMA PutTableKeeps ==
  ASSUME BlocksOK, mishap' = "none", NEW p \in Task, PutTable(p)
  PROVE  BlocksOK'
<1> DEFINE c == call[p]
           out == NextChunk(ram, c)
           table == [k \in Cell |-> IF k < Indirect THEN c.blocks[Direct + k] ELSE 0]
           blk == [disk.blk EXCEPT ![ram.inode[c.ino].sect[Direct]] = table]
<1>1. c.op = "puttable" /\ file' = file
  BY DEF PutTable, At
<1>2. disk' = [disk EXCEPT !.blk[ram.inode[c.ino].sect[Direct]] = table]
  BY Zenon DEF PutTable
<1>3. disk' = SetDiskBlk(disk, blk)
  BY <1>2, Zenon DEF SetDiskBlk
<1> HIDE <1>2 DEF blk, table
<1>4. Becomes(p, out)
  BY Zenon DEF PutTable
<1>5. IsCall(c) /\ IsRam(ram) /\ IsDisk(disk) /\ DOMAIN file = Task
  BY ProcessTypes
<1> HIDE DEF c
<1>6. IsWrite(c)
  BY <1>1, <1>5 DEF IsCall, IsRead, NoCall, Point
<1> HIDE DEF out
<1>7. /\ ram' = out.mem /\ call'[p] = out.c /\ out.mishap = "none"
      /\ DOMAIN call' = Task /\ \A q \in Task \ {p} : call'[q] = call[q]
  BY <1>4, BecomesIs
<1>8. Grows(ram, c.ino, out.mem, out.c)
  BY <1>5, <1>6, NextChunkGrows DEF out
<1>9. c.ino \in Ino /\ file[p].ino = c.ino
  BY <1>6, OnOwn DEF CallOK, IsWrite, c
<1>10. StepOf(p)
  BY <1>1, <1>5, <1>7 DEF StepOf
<1>11. /\ IsDisk(disk') /\ disk'.bmap = disk.bmap /\ disk'.imap = disk.imap
       /\ disk'.inode = disk.inode /\ disk'.entry = disk.entry
  BY <1>3, <1>5, DiskBlkSet
<1>12. QED
  BY <1>1, <1>6, <1>7, <1>8, <1>9, <1>10, <1>11, WriteKeeps DEF c

LEMMA MinOfTwo ==
  ASSUME NEW x \in Int, NEW y \in Int
  PROVE  Min({x, y}) \in Int
<1>1. \E m \in {x, y} : \A n \in {x, y} : m <= n
  OBVIOUS
<1>2. QED
  BY <1>1 DEF Min

LEMMA WriteChunkKeeps ==
  ASSUME BlocksOK, mishap' = "none", NEW p \in Task, WriteChunk(p)
  PROVE  BlocksOK'
<1> DEFINE c == call[p]
           i == c.ino
           size == ram.inode[i].size
           lba == c.blocks[size \div BlockSize]
           off == size % BlockSize
           n == Min({c.left, BlockSize - off})
           old == io_buf(c, lba)
           sector == [k \in Cell |-> IF k \in off .. off + n - 1
                                     THEN Byte(file[p].name, size + k - off) ELSE old[k]]
           blk == [disk.blk EXCEPT ![lba] = sector]
           inode == [ram.inode[i] EXCEPT !.size = size + n]
           m == [ram EXCEPT !.inode[i].size = size + n]
           d == [c EXCEPT !.left = @ - n, !.first = FALSE]
           out == NextChunk(m, d)
<1>1. c.op = "chunk" /\ file' = file
  BY DEF WriteChunk, At
<1>2. disk' = [disk EXCEPT !.blk[lba] = sector]
  BY Zenon DEF WriteChunk
<1>3. disk' = SetDiskBlk(disk, blk)
  BY <1>2, Zenon DEF SetDiskBlk
<1> HIDE <1>2 DEF blk, sector
<1>4. Becomes(p, out)
  BY Zenon DEF WriteChunk
<1>5. IsCall(c) /\ IsRam(ram) /\ IsDisk(disk) /\ DOMAIN file = Task
  BY ProcessTypes
<1>6. m = SetInode(ram, i, inode)
  <2>1. ram = [bmap |-> ram.bmap, imap |-> ram.imap, inode |-> ram.inode]
    BY <1>5 DEF IsRam
  <2> HIDE DEF n, size, c
  <2>2. QED
    BY ONLY <2>1 DEF SetInode, m, inode
<1> HIDE DEF c, m
<1>7. IsWrite(c)
  BY <1>1, <1>5 DEF IsCall, IsRead, NoCall, Point
<1>8. i \in Ino /\ file[p].ino = i
  BY <1>7, OnOwn DEF CallOK, IsWrite, c
<1>9. size \in Int /\ n \in Int /\ IsInode(ram.inode[i])
  <2>1. size \in Int /\ c.left \in Int /\ IsInode(ram.inode[i])
    BY <1>5, <1>7, <1>8 DEF IsRam, IsInode, IsWrite
  <2> HIDE DEF size
  <2>2. BlockSize - off \in Int
    BY <2>1, BlocksAssumption
  <2> HIDE DEF off
  <2>3. QED
    BY <2>1, <2>2, MinOfTwo
<1> HIDE DEF n
<1>10. IsWrite(d) /\ d.ino = i
  BY <1>7, <1>9 DEF IsWrite
<1> HIDE DEF d, out
<1>11. IsInode(inode) /\ inode.cnt = ram.inode[i].cnt
  <2>1. size + n \in Int
    BY <1>9
  <2> HIDE DEF size
  <2>2. QED
    BY <1>9, <2>1, SizeOfInode
<1> HIDE DEF inode, i
<1>12. /\ IsRam(m) /\ m.bmap = ram.bmap /\ m.imap = ram.imap
       /\ m.inode[i] = inode /\ \A j \in Ino : j # i => m.inode[j] = ram.inode[j]
  BY <1>5, <1>6, <1>8, <1>11, InodeChanged
<1>13. /\ ram' = out.mem /\ call'[p] = out.c /\ out.mishap = "none"
       /\ DOMAIN call' = Task /\ \A q \in Task \ {p} : call'[q] = call[q]
  BY <1>4, BecomesIs
<1>14. Grows(m, i, out.mem, out.c)
  BY <1>10, <1>12, NextChunkGrows DEF out
<1>15. Grows(ram, i, out.mem, out.c)
  BY <1>11, <1>12, <1>14 DEF Grows
<1>16. StepOf(p)
  BY <1>1, <1>5, <1>13 DEF StepOf
<1>17. /\ IsDisk(disk') /\ disk'.bmap = disk.bmap /\ disk'.imap = disk.imap
       /\ disk'.inode = disk.inode /\ disk'.entry = disk.entry
  BY <1>3, <1>5, DiskBlkSet
<1>18. c.ino = i
  BY DEF i
<1>19. QED
  BY <1>1, <1>7, <1>8, <1>13, <1>15, <1>16, <1>17, <1>18, WriteKeeps DEF c

LEMMA FileWriteKeeps ==
  ASSUME BlocksOK, mishap' = "none", NEW p \in Task, NEW n \in WriteCounts, file_write(p, n)
  PROVE  BlocksOK'
<1> DEFINE i == file[p].ino
           c == [op |-> "first", what |-> "write", ino |-> i, left |-> n, has |-> 0,
                 will |-> 0, idx |-> 0, blocks |-> NoBlocks, bit |-> 0, first |-> TRUE]
           new == block_bitmap_alloc(ram)
           b == Max(new.got)
           sect == [new.mem.inode[i].sect EXCEPT ![0] = b]
           m == [new.mem EXCEPT !.inode[i].sect[0] = b]
           d == [c EXCEPT !.bit = b]
           out == IF ram.inode[i].sect[0] # 0 THEN CollectBlocks(ram, c)
                  ELSE IF new.got = {} THEN Out(ram, c, "full")
                  ELSE Out(m, d, "none")
<1>1. call[p] = NoCall /\ i # 0 /\ disk' = disk /\ file' = file
  BY DEF file_write, Idle
<1>2. Becomes(p, out)
  BY Zenon DEF file_write
<1>3. IsRam(ram) /\ IsDisk(disk) /\ DOMAIN file = Task /\ i \in Ino
  BY <1>1, ProcessTypes
<1>4. n \in Int
  BY BlocksAssumption
<1>5. m = SetSect(new.mem, i, sect)
  BY Zenon DEF SetSect
<1> HIDE DEF i
<1>6. IsWrite(c) /\ c.ino = i /\ c.op = "first"
  BY <1>3, <1>4 DEF IsWrite
<1>7. IsWrite(d) /\ d.ino = i /\ d.op = "first" /\ d.bit = b
  <2> HIDE DEF b
  <2>1. QED
    BY <1>3, <1>4 DEF IsWrite
<1> HIDE DEF c, d, m, sect
<1>8. /\ ram' = out.mem /\ call'[p] = out.c /\ out.mishap = "none"
      /\ DOMAIN call' = Task /\ \A q \in Task \ {p} : call'[q] = call[q]
  <2> HIDE DEF out
  <2>1. QED
    BY <1>2, BecomesIs
<1>9. Grows(ram, i, out.mem, out.c)
  <2>1. CASE ram.inode[i].sect[0] # 0
    <3>1. out = CollectBlocks(ram, c)
      BY <2>1, Zenon
    <3> HIDE DEF out
    <3>2. QED
      BY <1>3, <1>6, <1>8, <3>1, CollectGrows
  <2>2. CASE ram.inode[i].sect[0] = 0 /\ new.got = {}
    <3>1. out = Out(ram, c, "full")
      BY <2>2, Zenon
    <3> HIDE DEF out
    <3>2. QED
      BY <1>8, <3>1, OutIs
  <2>3. CASE ram.inode[i].sect[0] = 0 /\ new.got # {}
    <3>1. out = Out(m, d, "none")
      BY <2>3, Zenon
    <3> HIDE DEF out
    <3>2. out.mem = m /\ out.c = d
      BY <3>1, OutIs
    <3>3. /\ IsRam(m) /\ m.imap = ram.imap /\ m.bmap = ram.bmap \cup {Max(new.got)}
          /\ \A j \in Ino : /\ m.inode[j].cnt = ram.inode[j].cnt
                            /\ j # i => m.inode[j] = ram.inode[j]
      <4>1. new = block_bitmap_alloc(ram) /\ new.got # {}
        BY <2>3
      <4> HIDE DEF new, b
      <4>2. SUFFICES ASSUME NEW k, k = new, NEW l, l = m, NEW s, s = sect
            PROVE  /\ IsRam(l) /\ l.imap = ram.imap /\ l.bmap = ram.bmap \cup {Max(k.got)}
                   /\ \A j \in Ino : /\ l.inode[j].cnt = ram.inode[j].cnt
                                     /\ j # i => l.inode[j] = ram.inode[j]
        OBVIOUS
      <4>3. l = SetSect(k.mem, i, s)
        BY <1>5, <4>2
      <4>4. k = block_bitmap_alloc(ram) /\ k.got # {} /\ i \in Ino /\ IsRam(ram)
        BY <1>3, <4>1, <4>2
      <4>5. QED
        BY ONLY <4>3, <4>4, AllocGrows
    <3>4. m.bmap = ram.bmap \cup {b}
      BY <3>3, Zenon
    <3> HIDE DEF new, b
    <3>5. QED
      BY <1>7, <3>2, <3>3, <3>4 DEF Grows, Differ, SameSector
  <2>4. QED
    BY <2>1, <2>2, <2>3
<1> HIDE DEF out
<1>10. StepOf(p)
  BY <1>1, <1>3, <1>8 DEF StepOf
<1>11. call[p].op \notin {"first", "bitmap"}
  BY <1>1 DEF NoCall
<1>12. file[p].ino = i
  BY DEF i
<1>13. QED
  BY <1>1, <1>3, <1>8, <1>9, <1>10, <1>11, <1>12, WriteKeeps

-----------------------------------------------------------------------------
(* file_read, sys_lseek, and file_open before the inode is there: nothing  *)
(* but the position of a file changes.                                     *)
LEMMA PassiveKeeps ==
  ASSUME BlocksOK, NEW p \in Task, StepOf(p), ram' = ram, disk' = disk,
         call[p].what \in {"none", "read"}, IsCall(call'[p]),
         call'[p].what \in {"none", "read", "open"},
         call'[p].what = "open" => file[p].ino = 0,
         file'[p].ino = file[p].ino, IsFileOf(file'[p])
  PROVE  BlocksOK'
<1>1. BlocksTypes'
  BY ProcessTypes, TypesStep DEF BlocksOK
<1>2. BitmapsOK'
  <2>1. ~Numbers(call[p]) /\ ~(call[p].op \in {"first", "bitmap", "free"})
    <3>1. ~Creates(call[p]) /\ ~Deletes(call[p])
      BY DEF Creates, Deletes
    <3>2. ~Loaded(call[p]) /\ call[p].op \notin {"first", "bitmap"}
      BY <3>1, ProcessTypes, CallKinds
    <3>3. QED
      BY <3>1, <3>2 DEF Loaded, Numbers
  <2>2. BitsStep(p)
    BY <2>1 DEF BitsStep, Writes
  <2>3. QED
    BY <2>2, BitsStepOK DEF BlocksOK
<1>3. ASSUME NEW j \in Ino
      PROVE  InodeOK(j)'
  <2>1. \A q \in Task \ {p} : call'[q] = call[q] /\ file'[q] = file[q]
    BY DEF StepOf
  <2>2. Users(j)' = Users(j) /\ Entries(j)' = Entries(j)
    BY <2>1 DEF Users, Entries
  <2>3. /\ \A q \in CallsOn(j)' \ {p} : q \in CallsOn(j) /\ call'[q] = call[q] /\ file'[q] = file[q]
        /\ \A q \in CallsOn(j) \ {p} : q \in CallsOn(j)' /\ call'[q] = call[q] /\ file'[q] = file[q]
    BY <2>1 DEF CallsOn
  <2>4. /\ ~Creates(call[p]) /\ ~Deletes(call[p]) /\ ~Loaded(call[p]) /\ ~Changes(call[p])
        /\ IsCall(call[p])
    <3>1. ~Creates(call[p]) /\ ~Deletes(call[p]) /\ ~Changes(call[p])
      BY DEF Creates, Deletes, Changes
    <3>2. QED
      BY <3>1, ProcessTypes, CallKinds
  <2>5. /\ ~Creates(call'[p]) /\ ~Deletes(call'[p]) /\ ~Loaded(call'[p])
        /\ ~Changes(call'[p]) /\ ~HasEntry(call'[p])
        /\ call'[p].op \notin {"imap", "enread", "entry"}
    <3>1. ~Creates(call'[p]) /\ ~Deletes(call'[p]) /\ ~Changes(call'[p])
      BY DEF Creates, Deletes, Changes
    <3>2. QED
      BY <3>1, CallKinds
  <2>6. InodeOK(j)
    BY DEF BlocksOK
  <2>7. ASSUME NEW q \in CallsOn(j)'
        PROVE  CallOK(j, q)'
    <3>1. CASE q = p
      BY <2>5, <3>1 DEF CallOK, Creates, Deletes, Loaded, HasEntry
    <3>2. CASE q # p
      <4>1. CallOK(j, q) /\ call'[q] = call[q] /\ file'[q] = file[q]
        BY <2>3, <2>6, <3>2 DEF InodeOK
      <4>2. (\A r \in CallsOn(j) : ~Deletes(call[r])) => \A r \in CallsOn(j)' : ~Deletes(call'[r])
        BY <2>3, <2>5
      <4>3. (\A r \in CallsOn(j) : Loaded(call[r]) => r = q)
              => \A r \in CallsOn(j)' : Loaded(call'[r]) => r = q
        BY <2>3, <2>5
      <4>4. QED
        BY <2>2, <4>1, <4>2, <4>3 DEF CallOK
    <3>3. QED
      BY <3>1, <3>2
  <2>8. (\A q \in CallsOn(j)' : ~Loaded(call'[q]) /\ ~Creates(call'[q])) =>
          ram'.inode[j].cnt = Cardinality(Users(j)')
    BY <2>2, <2>3, <2>4, <2>6 DEF InodeOK
  <2>9. ram'.inode[j].cnt > 0 /\ (\A q \in CallsOn(j)' : ~Changes(call'[q])) =>
          disk'.inode[j] = Pure(ram'.inode[j])
    BY <2>3, <2>4, <2>6 DEF InodeOK
  <2>10. QED
    BY <2>2, <2>6, <2>7, <2>8, <2>9 DEF InodeOK
<1>4. QED
  BY <1>1, <1>2, <1>3 DEF BlocksOK

LEMMA ReadNext ==
  ASSUME NEW c, IsRead(c)
  PROVE  IsRead(ReadChunkNext(c)) /\ ReadChunkNext(c).ino = c.ino
BY DEF IsRead, ReadChunkNext

LEMMA ReadIs ==
  ASSUME NEW c, IsRead(c)
  PROVE  IsCall(c) /\ c.what = "read"
BY DEF IsRead, IsCall

LEMMA FileReadKeeps ==
  ASSUME BlocksOK, mishap' = "none", NEW p \in Task, NEW n \in ReadCounts, file_read(p, n)
  PROVE  BlocksOK'
<1> DEFINE inode == ram.inode[file[p].ino]
           pos == file[p].pos
           past == (pos + n) % PosMod > inode.size
           want == IF past THEN (inode.size - pos) % PosMod ELSE n
           start == pos \div BlockSize
           end == ((pos + want) % PosMod) \div BlockSize
           blocks == [k \in DOMAIN NoBlocks |->
                        IF k < Direct /\ k \in start .. end THEN inode.sect[k] ELSE 0]
           c == [op |-> "readtable", what |-> "read", ino |-> file[p].ino, from |-> pos,
                 want |-> want, got |-> <<>>, blocks |-> blocks]
           d == IF end >= Direct THEN c ELSE ReadChunkNext(c)
           out == IF start >= MaxBlocks - 1 \/ end >= MaxBlocks - 1 THEN Out(ram, c, "assert")
                  ELSE IF end >= Direct /\ start # end /\ inode.sect[Direct] = 0
                    THEN Out(ram, c, "assert")
                  ELSE Out(ram, d, "none")
<1>1. call[p] = NoCall /\ file[p].ino # 0 /\ disk' = disk /\ file' = file
  BY DEF file_read, Idle
<1>2. Becomes(p, out)
  BY Zenon DEF file_read
<1>3. IsRam(ram) /\ IsDisk(disk) /\ DOMAIN file = Task /\ file[p].ino \in Ino
      /\ IsFileOf(file[p])
  BY <1>1, ProcessTypes
<1>4. out = Out(ram, c, "assert") \/ out = Out(ram, d, "none")
  <2> HIDE DEF c, d, start, end, inode
  <2>1. QED
    OBVIOUS
<1>5. IsRead(c)
  <2> HIDE DEF want, blocks, pos
  <2>1. QED
    BY <1>3 DEF IsRead
<1> HIDE DEF c
<1>6. IsRead(d)
  <2> HIDE DEF end
  <2>1. QED
    BY <1>5, ReadNext
<1> HIDE DEF d, out
<1>7. /\ ram' = out.mem /\ call'[p] = out.c /\ out.mishap = "none"
      /\ DOMAIN call' = Task /\ \A q \in Task \ {p} : call'[q] = call[q]
  BY <1>2, BecomesIs
<1>8. ram' = ram /\ call'[p] = d
  BY <1>4, <1>7, OutIs
<1>9. IsCall(call'[p]) /\ call'[p].what = "read" /\ call[p].what = "none"
  BY <1>1, <1>6, <1>8, ReadIs DEF NoCall
<1>10. StepOf(p)
  BY <1>1, <1>3, <1>7 DEF StepOf
<1>11. QED
  BY <1>1, <1>3, <1>8, <1>9, <1>10, PassiveKeeps

LEMMA ReadTableKeeps ==
  ASSUME BlocksOK, NEW p \in Task, ReadTable(p)
  PROVE  BlocksOK'
<1> DEFINE c == call[p]
           d == [c EXCEPT !.blocks = WithTable(@, ram.inode[c.ino].sect[Direct])]
<1>1. /\ c.op = "readtable" /\ disk' = disk /\ file' = file /\ ram' = ram
      /\ call' = [call EXCEPT ![p] = ReadChunkNext(d)]
  <2>1. call' = [call EXCEPT ![p] = ReadChunkNext(d)]
    BY DEF ReadTable
  <2>2. QED
    BY <2>1 DEF ReadTable, At
<1>2. DOMAIN file = Task /\ DOMAIN call = Task /\ IsCall(c) /\ IsFileOf(file[p])
  BY ProcessTypes
<1> HIDE DEF c
<1>3. IsRead(c)
  BY <1>1, <1>2 DEF IsCall, IsWrite, NoCall, Point
<1>4. IsRead(d)
  BY <1>3 DEF IsRead
<1> HIDE DEF d
<1>5. IsCall(ReadChunkNext(d)) /\ ReadChunkNext(d).what = "read" /\ c.what = "read"
  BY <1>3, <1>4, ReadNext, ReadIs
<1>6. StepOf(p) /\ call'[p] = ReadChunkNext(d)
  BY <1>1, <1>2 DEF StepOf
<1>7. QED
  BY <1>1, <1>2, <1>5, <1>6, PassiveKeeps DEF c

LEMMA ReadChunkKeeps ==
  ASSUME BlocksOK, NEW p \in Task, ReadChunk(p)
  PROVE  BlocksOK'
<1> DEFINE c == call[p]
           pos == file[p].pos
           off == pos % BlockSize
           n == Min({c.want - Len(c.got), BlockSize - off})
           sector == disk.blk[c.blocks[pos \div BlockSize]]
           d == [c EXCEPT !.got = @ \o [k \in 1 .. n |-> sector[off + k - 1]]]
<1>1. /\ c.op = "readchunk" /\ disk' = disk /\ ram' = ram
      /\ call' = [call EXCEPT ![p] = ReadChunkNext(d)]
      /\ file' = [file EXCEPT ![p].pos = pos + n]
  BY Zenon DEF ReadChunk, At
<1>2. DOMAIN file = Task /\ DOMAIN call = Task /\ IsCall(c) /\ IsFileOf(file[p])
  BY ProcessTypes
<1> HIDE DEF c, n, sector, off, pos
<1>3. IsRead(c)
  BY <1>1, <1>2 DEF IsCall, IsWrite, NoCall, Point
<1>4. IsRead(d)
  BY <1>3 DEF IsRead
<1> HIDE DEF d
<1>5. IsCall(ReadChunkNext(d)) /\ ReadChunkNext(d).what = "read" /\ c.what = "read"
  BY <1>3, <1>4, ReadNext, ReadIs
<1>6. call'[p] = ReadChunkNext(d) /\ DOMAIN call' = Task
      /\ \A q \in Task \ {p} : call'[q] = call[q]
  BY <1>1, <1>2
<1>7. /\ DOMAIN file' = Task /\ \A q \in Task \ {p} : file'[q] = file[q]
      /\ file'[p].ino = file[p].ino /\ IsFileOf(file'[p])
  BY <1>1, <1>2 DEF IsFileOf, NoFile
<1>8. StepOf(p)
  BY <1>6, <1>7 DEF StepOf
<1>9. ram' = ram /\ disk' = disk
  BY <1>1
<1>10. QED
  BY <1>5, <1>6, <1>7, <1>8, <1>9, PassiveKeeps DEF c

LEMMA ReadDoneKeeps ==
  ASSUME BlocksOK, NEW p \in Task, ReadDone(p)
  PROVE  BlocksOK'
<1>1. /\ call[p].op = "got" /\ disk' = disk /\ file' = file /\ ram' = ram
      /\ call' = [call EXCEPT ![p] = NoCall]
  BY DEF ReadDone, At
<1>2. DOMAIN file = Task /\ DOMAIN call = Task /\ IsCall(call[p]) /\ IsFileOf(file[p])
  BY ProcessTypes
<1>3. call[p].what = "read"
  BY <1>1, <1>2 DEF IsCall, IsWrite, IsRead, NoCall, Point
<1>4. StepOf(p) /\ call'[p] = NoCall /\ IsCall(NoCall) /\ NoCall.what = "none"
  BY <1>1, <1>2 DEF StepOf, IsCall, NoCall
<1>5. QED
  BY <1>1, <1>2, <1>3, <1>4, PassiveKeeps

LEMMA LseekKeeps ==
  ASSUME BlocksOK, NEW p \in Task, NEW v, sys_lseek(p, v)
  PROVE  BlocksOK'
<1>1. /\ call[p] = NoCall /\ file[p].ino # 0 /\ disk' = disk /\ call' = call /\ ram' = ram
      /\ file' = [file EXCEPT ![p].pos = v]
  BY DEF sys_lseek, Idle
<1>2. DOMAIN file = Task /\ DOMAIN call = Task /\ IsCall(call[p]) /\ IsFileOf(file[p])
  BY ProcessTypes
<1>3. /\ DOMAIN file' = Task /\ \A q \in Task \ {p} : file'[q] = file[q]
      /\ file'[p].ino = file[p].ino /\ IsFileOf(file'[p])
  BY <1>1, <1>2 DEF IsFileOf, NoFile
<1>4. ram' = ram /\ disk' = disk /\ call' = call /\ call[p] = NoCall
  BY <1>1
<1>5. StepOf(p) /\ call[p].what = "none"
  BY <1>2, <1>3, <1>4 DEF StepOf, NoCall
<1>6. QED
  BY <1>2, <1>3, <1>4, <1>5, PassiveKeeps

-----------------------------------------------------------------------------
(* A call goes from one of its points to the next: what it creates, deletes *)
(* or has loaded stays the same.                                           *)
SameKind(c, d) ==
  /\ d.ino = c.ino /\ c.what # "none" /\ d.what # "none"
  /\ Creates(d) <=> Creates(c)
  /\ Deletes(d) <=> Deletes(c)
  /\ Loaded(d) <=> Loaded(c)
  /\ Changes(d) <=> Changes(c)

LEMMA PointKeeps ==
  ASSUME BlocksOK, NEW p \in Task, StepOf(p), BitsStep(p),
         IsRam(ram'), IsDisk(disk'), file' = file, ram'.inode = ram.inode,
         NEW i \in Ino, call[p].ino = i, IsCall(call'[p]), SameKind(call[p], call'[p]),
         \A j \in Ino \ {i} : /\ Entries(j)' = Entries(j) /\ disk'.inode[j] = disk.inode[j]
                              /\ j \in ram.imap => j \in ram'.imap,
         disk'.inode[i] = disk.inode[i] \/ Changes(call[p]),
         Users(i) # {} \/ Entries(i)' # {} => i \in ram'.imap,
         \A e, f \in Entries(i)' : e = f,
         \A q \in CallsOn(i) : CallOK(i, q)'
  PROVE  BlocksOK'
<1>1. \A q \in Task \ {p} : call'[q] = call[q]
  BY DEF StepOf
<1>2. Users(i)' = Users(i)
  BY DEF Users
<1>3. CallsOn(i)' = CallsOn(i) /\ p \in CallsOn(i)
  BY <1>1 DEF CallsOn, SameKind
<1>4. InodeOK(i) /\ \A q \in CallsOn(i) : q \in Task
  BY DEF BlocksOK, CallsOn
<1>5. \A q \in CallsOn(i) : /\ Creates(call'[q]) <=> Creates(call[q])
                            /\ Loaded(call'[q]) <=> Loaded(call[q])
                            /\ Changes(call'[q]) <=> Changes(call[q])
  BY <1>1, <1>4 DEF SameKind
<1>6. (\A q \in CallsOn(i)' : ~Loaded(call'[q]) /\ ~Creates(call'[q])) =>
        ram'.inode[i].cnt = Cardinality(Users(i)')
  BY <1>2, <1>3, <1>4, <1>5 DEF InodeOK
<1>7. ram'.inode[i].cnt > 0 /\ (\A q \in CallsOn(i)' : ~Changes(call'[q])) =>
        disk'.inode[i] = Pure(ram'.inode[i])
  BY <1>3, <1>4, <1>5 DEF InodeOK
<1>8. InodeOK(i)'
  BY <1>2, <1>3, <1>6, <1>7 DEF InodeOK
<1>9. ASSUME NEW j \in Ino \ {i}
      PROVE  Untouched(p, j)
  BY <1>1, <1>9 DEF Untouched, Elsewhere, SameKind
<1>10. IsFileOf(file'[p])
  BY ProcessTypes
<1>11. QED
  BY <1>8, <1>9, <1>10, InodeStepKeeps

(* Where the directory stays as it is, the other calls on the inode are    *)
(* not concerned.                                                          *)
LEMMA OthersOK ==
  ASSUME BlocksOK, NEW p \in Task, StepOf(p), file' = file, ram'.inode = ram.inode,
         NEW i \in Ino, call[p].ino = i, IsCall(call'[p]), SameKind(call[p], call'[p]),
         disk'.entry = disk.entry, disk'.inode[i] = disk.inode[i] \/ Creates(call[p]),
         CallOK(i, p)'
  PROVE  \A q \in CallsOn(i) : CallOK(i, q)'
<1>1. \A q \in Task \ {p} : call'[q] = call[q]
  BY DEF StepOf
<1>2. Users(i)' = Users(i) /\ Entries(i)' = Entries(i)
  BY DEF Users, Entries
<1>3. CallsOn(i)' = CallsOn(i) /\ p \in CallsOn(i) /\ \A q \in CallsOn(i) : q \in Task
  BY <1>1 DEF CallsOn, SameKind
<1>4. \A q \in CallsOn(i) : CallOK(i, q) /\ IsCall(call[q])
  BY <1>3, ProcessTypes DEF BlocksOK, InodeOK
<1>5. \A q \in CallsOn(i) : /\ Deletes(call'[q]) <=> Deletes(call[q])
                            /\ Loaded(call'[q]) <=> Loaded(call[q])
  BY <1>1, <1>3 DEF SameKind
<1>6. ASSUME NEW q \in CallsOn(i), q # p
      PROVE  CallOK(i, q)'
  <2>1. CallOK(i, q) /\ call'[q] = call[q] /\ IsCall(call[q])
    BY <1>1, <1>3, <1>4, <1>6
  <2>2. (\A r \in CallsOn(i) : ~Deletes(call[r])) => \A r \in CallsOn(i)' : ~Deletes(call'[r])
    BY <1>3, <1>5
  <2>3. (\A r \in CallsOn(i) : Loaded(call[r]) => r = q)
          => \A r \in CallsOn(i)' : Loaded(call'[r]) => r = q
    BY <1>3, <1>5
  <2>4. call[q].op = "imap" => disk'.inode[i] = disk.inode[i]
    <3>1. ASSUME Creates(call[p]), call[q].op = "imap"
          PROVE  FALSE
      <4>1. Creates(call[q])
        BY <2>1, <3>1, CallKinds
      <4>2. Users(i) = {p} /\ Users(i) = {q}
        BY <1>3, <1>4, <2>1, <3>1, <4>1 DEF CallOK
      <4>3. QED
        BY <1>6, <4>2
    <3>2. QED
      BY <3>1
  <2>5. QED
    BY <1>2, <2>1, <2>2, <2>3, <2>4 DEF CallOK
<1>7. QED
  BY <1>6

LEMMA CallKeeps ==
  ASSUME BlocksOK, NEW p \in Task, StepOf(p), BitsStep(p),
         IsRam(ram'), IsDisk(disk'), file' = file, ram'.inode = ram.inode,
         NEW i \in Ino, call[p].ino = i, IsCall(call'[p]), SameKind(call[p], call'[p]),
         disk'.entry = disk.entry,
         \A j \in Ino \ {i} : /\ disk'.inode[j] = disk.inode[j]
                              /\ j \in ram.imap => j \in ram'.imap,
         disk'.inode[i] = disk.inode[i] \/ Creates(call[p]),
         ram'.imap = ram.imap \/ (Users(i) = {} /\ Entries(i) = {}),
         CallOK(i, p)'
  PROVE  BlocksOK'
<1>1. \A q \in CallsOn(i) : CallOK(i, q)'
  BY OthersOK
<1>2. \A j \in Ino : Entries(j)' = Entries(j)
  BY DEF Entries
<1>3. InodeOK(i)
  BY DEF BlocksOK
<1>4. Users(i) # {} \/ Entries(i)' # {} => i \in ram'.imap
  BY <1>2, <1>3 DEF InodeOK
<1>5. \A e, f \in Entries(i)' : e = f
  BY <1>2, <1>3 DEF InodeOK
<1>6. disk'.inode[i] = disk.inode[i] \/ Changes(call[p])
  BY DEF Changes
<1>7. \A j \in Ino \ {i} : /\ Entries(j)' = Entries(j) /\ disk'.inode[j] = disk.inode[j]
                           /\ j \in ram.imap => j \in ram'.imap
  BY <1>2
<1>8. QED
  BY <1>1, <1>4, <1>5, <1>6, <1>7, PointKeeps

(* A step that leaves the bitmaps alone.                                   *)
LEMMA BitsSame ==
  ASSUME NEW p, ram'.bmap = ram.bmap, disk'.bmap = disk.bmap, ram'.imap = ram.imap,
         disk'.imap = disk.imap, call[p].op \notin {"first", "bitmap", "free"},
         Numbers(call[p]) => Numbers(call'[p])
  PROVE  BitsStep(p)
BY DEF BitsStep, Writes

LEMMA OnStays ==
  ASSUME BlocksOK, NEW p \in Task, StepOf(p), file' = file, SameKind(call[p], call'[p]),
         NEW i \in Ino, call[p].ino = i
  PROVE  /\ CallsOn(i)' = CallsOn(i) /\ p \in CallsOn(i) /\ Users(i)' = Users(i)
         /\ (\A r \in CallsOn(i) : ~Deletes(call[r])) => \A r \in CallsOn(i)' : ~Deletes(call'[r])
         /\ (\A r \in CallsOn(i) : Loaded(call[r]) => r = p)
              => \A r \in CallsOn(i)' : Loaded(call'[r]) => r = p
<1>1. CallsOn(i)' = CallsOn(i) /\ p \in CallsOn(i) /\ Users(i)' = Users(i)
  BY DEF CallsOn, Users, StepOf, SameKind
<1>2. \A r \in CallsOn(i) : /\ Deletes(call'[r]) <=> Deletes(call[r])
                            /\ Loaded(call'[r]) <=> Loaded(call[r])
  BY DEF CallsOn, StepOf, SameKind
<1>3. QED
  BY <1>1, <1>2

LEMMA SectorReadKeeps ==
  ASSUME BlocksOK, NEW p \in Task, SectorRead(p)
  PROVE  BlocksOK'
<1> DEFINE c == call[p]
           img == [k \in InodeSector(Target(c)) |-> disk.inode[k]]
           d == [op |-> "syncw", what |-> c.what, ino |-> c.ino, img |-> img]
<1>1. /\ c.op = "sync" /\ ram' = ram /\ disk' = disk /\ file' = file
      /\ call' = [call EXCEPT ![p] = d]
  BY DEF SectorRead, At
<1> HIDE DEF img
<1>2. /\ IsRam(ram) /\ IsDisk(disk) /\ DOMAIN file = Task /\ DOMAIN call = Task
      /\ IsCall(c)
  BY ProcessTypes
<1>3. c.what \in {"write", "parent", "create", "deparent", "delete"} /\ c.ino \in Ino
  BY <1>1, <1>2 DEF IsCall, IsWrite, IsRead, NoCall, Point
<1>4. PICK i \in Ino : i = c.ino
  BY <1>3
<1>5. IsCall(d) /\ d.op = "syncw"
  BY <1>3 DEF IsCall, Point
<1>6. SameKind(c, d)
  BY <1>1, <1>3 DEF SameKind, Creates, Deletes, Loaded, Changes
<1>7. StepOf(p) /\ call'[p] = d
  BY <1>1, <1>2 DEF StepOf
<1>8. BitsStep(p)
  BY <1>1, <1>6, <1>7, BitsSame DEF Numbers, SameKind
<1>9. CallOK(i, p)
  BY <1>3, <1>4, OnOwn
<1>10. CallOK(i, p)'
  <2>1. Entries(i)' = Entries(i) /\ ram' = ram /\ disk' = disk /\ file' = file
    BY <1>1 DEF Entries
  <2>2. /\ Users(i)' = Users(i)
        /\ (\A r \in CallsOn(i) : ~Deletes(call[r])) => \A r \in CallsOn(i)' : ~Deletes(call'[r])
        /\ (\A r \in CallsOn(i) : Loaded(call[r]) => r = p)
             => \A r \in CallsOn(i)' : Loaded(call'[r]) => r = p
    BY <1>6, <1>7, <1>4, <2>1, OnStays
  <2>3. ~HasEntry(d) /\ ~HasEntry(c) /\ d.op \notin {"imap", "enread", "entry", "unentry"}
    BY <1>1 DEF HasEntry
  <2>4. d.what = c.what
    OBVIOUS
  <2> HIDE DEF d
  <2>5. QED
    BY <1>6, <1>7, <1>9, <2>1, <2>2, <2>3, <2>4 DEF CallOK, SameKind
<1>11. ram' = ram /\ disk' = disk /\ file' = file
  BY <1>1
<1>12. /\ IsRam(ram') /\ IsDisk(disk') /\ ram'.inode = ram.inode /\ disk'.entry = disk.entry
       /\ disk'.inode = disk.inode /\ ram'.imap = ram.imap
  BY <1>2, <1>11
<1>13. IsCall(call'[p]) /\ SameKind(call[p], call'[p]) /\ call[p].ino = i
  BY <1>5, <1>6, <1>7, <1>4
<1> HIDE DEF c, d
<1>14. QED
  BY <1>3, <1>7, <1>8, <1>10, <1>11, <1>12, <1>13, CallKeeps

LEMMA EntryReadKeeps ==
  ASSUME BlocksOK, NEW p \in Task, EntryRead(p)
  PROVE  BlocksOK'
<1> DEFINE c == call[p]
           e == <<c.name, c.ino>>
           op == IF c.op = "enread" THEN "entry" ELSE "unentry"
           img == IF c.op = "enread" THEN disk.entry \cup {e} ELSE disk.entry \ {e}
           d == [op |-> op, what |-> c.what, ino |-> c.ino, name |-> c.name,
                 old |-> disk.entry, img |-> img]
<1>1. /\ c.op \in {"enread", "deread"} /\ ram' = ram /\ disk' = disk /\ file' = file
      /\ call' = [call EXCEPT ![p] = d]
  BY DEF EntryRead, At
<1> HIDE DEF img, op
<1>2. /\ IsRam(ram) /\ IsDisk(disk) /\ DOMAIN file = Task /\ DOMAIN call = Task
      /\ IsCall(c)
  BY ProcessTypes
<1>3. /\ <<c.op, c.what>> \in {<<"enread", "parent">>, <<"deread", "deparent">>}
      /\ c.ino \in Ino
  BY <1>1, <1>2 DEF IsCall, IsWrite, IsRead, NoCall, Point
<1>4. PICK i \in Ino : i = c.ino
  BY <1>3
<1>5. <<d.op, d.what>> \in {<<"entry", "parent">>, <<"unentry", "deparent">>}
  BY <1>3 DEF op
<1>6. IsCall(d)
  BY <1>3, <1>5 DEF IsCall, Point
<1>7. SameKind(c, d)
  BY <1>3, <1>5 DEF SameKind, Creates, Deletes, Loaded, Changes
<1>8. StepOf(p) /\ call'[p] = d
  BY <1>1, <1>2 DEF StepOf
<1>9. BitsStep(p)
  <2>1. ram'.bmap = ram.bmap /\ disk'.bmap = disk.bmap /\ ram'.imap = ram.imap
        /\ disk'.imap = disk.imap
    BY <1>1
  <2>2. Numbers(c) => Numbers(d)
    BY <1>3, <1>5 DEF Numbers, Creates
  <2> HIDE DEF d
  <2>3. QED
    BY <1>3, <1>8, <2>1, <2>2, BitsSame
<1>10. CallOK(i, p)
  BY <1>3, <1>4, OnOwn
<1>11. ram' = ram /\ disk' = disk /\ file' = file
  BY <1>1
<1>12. CallOK(i, p)'
  <2>1. Entries(i)' = Entries(i)
    BY <1>11 DEF Entries
  <2>2. /\ Users(i)' = Users(i)
        /\ (\A r \in CallsOn(i) : ~Deletes(call[r])) => \A r \in CallsOn(i)' : ~Deletes(call'[r])
        /\ (\A r \in CallsOn(i) : Loaded(call[r]) => r = p)
             => \A r \in CallsOn(i)' : Loaded(call'[r]) => r = p
    BY <1>4, <1>7, <1>8, <1>11, OnStays
  <2>3. /\ d.op = "entry" => c.op = "enread"
        /\ d.op = "unentry" => c.op = "deread"
        /\ HasEntry(d) => HasEntry(c)
        /\ ~HasEntry(d) => ~HasEntry(c)
        /\ d.op \notin {"imap", "enread"}
    BY <1>3 DEF HasEntry, op
  <2>4. d.what = c.what /\ d.name = c.name /\ d.old = disk.entry
    OBVIOUS
  <2>5. /\ d.op = "entry" => d.img = d.old \cup {<<d.name, i>>}
        /\ d.op = "unentry" => d.img = d.old \ {<<d.name, i>>}
    BY <1>3, <1>4 DEF op, img
  <2> HIDE DEF d
  <2>6. QED
    BY <1>7, <1>8, <1>10, <1>11, <2>1, <2>2, <2>3, <2>4, <2>5 DEF CallOK, SameKind
<1>13. /\ IsRam(ram') /\ IsDisk(disk') /\ ram'.inode = ram.inode /\ disk'.entry = disk.entry
       /\ disk'.inode = disk.inode /\ ram'.imap = ram.imap
  BY <1>2, <1>11
<1>14. IsCall(call'[p]) /\ SameKind(call[p], call'[p]) /\ call[p].ino = i
  BY <1>4, <1>6, <1>7, <1>8
<1> HIDE DEF c, d
<1>15. QED
  BY <1>8, <1>9, <1>11, <1>12, <1>13, <1>14, CallKeeps

LEMMA NumberReleasedKeeps ==
  ASSUME BlocksOK, NEW p \in Task, NumberReleased(p)
  PROVE  BlocksOK'
<1> DEFINE c == call[p]
           d == [op |-> "sync", what |-> "delete", ino |-> c.ino]
<1>1. /\ c.op = "ifree" /\ file' = file /\ disk' = SetDiskImap(disk, ram.imap)
      /\ Becomes(p, Out(ram, d, "none"))
  BY DEF NumberReleased, At, SetDiskImap
<1>2. /\ IsRam(ram) /\ IsDisk(disk) /\ DOMAIN file = Task /\ IsCall(c)
  BY ProcessTypes
<1>3. c.what = "unlink" /\ c.ino \in Ino
  BY <1>1, <1>2 DEF IsCall, IsWrite, IsRead, NoCall, Point
<1>4. PICK i \in Ino : i = c.ino
  BY <1>3
<1>5. IsCall(d)
  BY <1>3 DEF IsCall, Point
<1>6. SameKind(c, d)
  BY <1>1, <1>3 DEF SameKind, Creates, Deletes, Loaded, Changes
<1>7. d.op = "sync" /\ d.what = "delete"
  OBVIOUS
<1> HIDE DEF d
<1>8. /\ ram' = ram /\ call'[p] = d /\ DOMAIN call' = Task
      /\ \A q \in Task \ {p} : call'[q] = call[q]
  BY <1>1, BecomesIs, OutIs
<1>9. /\ IsDisk(disk') /\ disk'.bmap = disk.bmap /\ disk'.imap = ram.imap
      /\ disk'.inode = disk.inode /\ disk'.entry = disk.entry
  BY <1>1, <1>2, DiskImapSet
<1>10. StepOf(p)
  BY <1>1, <1>2, <1>8 DEF StepOf
<1>11. BitsStep(p)
  BY <1>1, <1>8, <1>9 DEF BitsStep, Writes
<1>12. CallOK(i, p)
  BY <1>3, <1>4, OnOwn
<1>13. CallOK(i, p)'
  <2>1. Entries(i)' = Entries(i)
    BY <1>9 DEF Entries
  <2>2. /\ Users(i)' = Users(i)
        /\ (\A r \in CallsOn(i) : Loaded(call[r]) => r = p)
             => \A r \in CallsOn(i)' : Loaded(call'[r]) => r = p
    BY <1>1, <1>4, <1>6, <1>8, <1>10, OnStays
  <2>3. /\ ~HasEntry(d) /\ ~HasEntry(c) /\ ~Creates(d) /\ Deletes(c) /\ Loaded(c)
        /\ d.op \notin {"imap", "enread", "entry", "unentry"}
    BY <1>1, <1>3, <1>7 DEF HasEntry, Creates, Deletes, Loaded
  <2>4. QED
    BY <1>7, <1>8, <1>12, <2>1, <2>2, <2>3 DEF CallOK
<1>14. IsCall(call'[p]) /\ SameKind(call[p], call'[p]) /\ call[p].ino = i
  BY <1>4, <1>5, <1>6, <1>8
<1>15. IsRam(ram') /\ ram'.inode = ram.inode /\ ram'.imap = ram.imap /\ file' = file
  BY <1>1, <1>2, <1>8
<1>16. QED
  BY <1>9, <1>10, <1>11, <1>13, <1>14, <1>15, CallKeeps

LEMMA EntryWrittenKeeps ==
  ASSUME BlocksOK, mishap' = "none", NEW p \in Task, EntryWritten(p)
  PROVE  BlocksOK'
<1> DEFINE c == call[p]
           d == [op |-> "sync", what |-> c.what, ino |-> c.ino]
           h == IF disk.entry # c.old THEN "sector"
                ELSE IF c.op = "entry" /\ Found(c.name) # {} THEN "twice" ELSE "none"
<1>1. /\ c.op \in {"entry", "unentry"} /\ file' = file /\ disk' = SetDiskEntry(disk, c.img)
      /\ Becomes(p, Out(ram, d, h))
  BY DEF EntryWritten, At, SetDiskEntry
<1>2. /\ IsRam(ram) /\ IsDisk(disk) /\ DOMAIN file = Task /\ IsCall(c)
  BY ProcessTypes
<1>3. /\ <<c.op, c.what>> \in {<<"entry", "parent">>, <<"unentry", "deparent">>}
      /\ c.ino \in Ino
  BY <1>1, <1>2 DEF IsCall, IsWrite, IsRead, NoCall, Point
<1>4. PICK i \in Ino : i = c.ino
  BY <1>3
<1>5. IsCall(d)
  BY <1>3 DEF IsCall, Point
<1>6. SameKind(c, d)
  BY <1>3 DEF SameKind, Creates, Deletes, Loaded, Changes
<1>7. d.op = "sync" /\ d.what = c.what
  OBVIOUS
<1> HIDE DEF d
<1>8. /\ ram' = ram /\ call'[p] = d /\ DOMAIN call' = Task
      /\ \A q \in Task \ {p} : call'[q] = call[q]
      /\ mishap' = h
  <2> HIDE DEF h
  <2>1. QED
    BY <1>1, BecomesIs, OutIs
<1>9. disk.entry = c.old
  BY <1>8
<1> HIDE DEF h
<1>10. /\ IsDisk(disk') /\ disk'.bmap = disk.bmap /\ disk'.imap = disk.imap
       /\ disk'.inode = disk.inode /\ disk'.entry = c.img
  BY <1>1, <1>2, DiskEntrySet
<1>11. StepOf(p)
  BY <1>1, <1>2, <1>8 DEF StepOf
<1>12. BitsStep(p)
  <2>1. Numbers(c) => Numbers(d)
    BY <1>3, <1>7 DEF Numbers, Creates
  <2>2. QED
    BY <1>1, <1>8, <1>10, <2>1, BitsSame
<1>13. CallOK(i, p) /\ p \in CallsOn(i) /\ InodeOK(i) /\ \A q \in CallsOn(i) : q \in Task
  BY <1>3, <1>4, OnOwn DEF BlocksOK, CallsOn
<1>14. /\ c.op = "entry" => disk'.entry = disk.entry \cup {<<c.name, i>>}
       /\ c.op = "unentry" => disk'.entry = disk.entry \ {<<c.name, i>>}
  BY <1>9, <1>10, <1>13 DEF CallOK
<1>15. \A j \in Ino \ {i} : Entries(j)' = Entries(j)
  BY <1>3, <1>14 DEF Entries
<1>16. /\ CallsOn(i)' = CallsOn(i) /\ Users(i)' = Users(i)
       /\ (\A r \in CallsOn(i) : ~Deletes(call[r])) => \A r \in CallsOn(i)' : ~Deletes(call'[r])
       /\ \A r \in CallsOn(i) : Loaded(call'[r]) <=> Loaded(call[r])
  <2>1. \A r \in CallsOn(i) : Loaded(call'[r]) <=> Loaded(call[r])
    BY <1>6, <1>8, <1>13 DEF SameKind
  <2>2. QED
    BY <1>1, <1>4, <1>6, <1>8, <1>11, <2>1, OnStays
<1>17. ram' = ram /\ disk'.inode = disk.inode /\ file' = file
  BY <1>1, <1>8, <1>10
<1>18. CASE c.op = "entry"
  <2>1. c.what = "parent" /\ Creates(c)
    BY <1>3, <1>18 DEF Creates
  <2>2. Entries(i) = {} /\ Users(i) = {p} /\ \A q \in CallsOn(i) : ~Deletes(call[q])
    BY <1>13, <1>18, <2>1 DEF CallOK
  <2>3. \A e, f \in Entries(i)' : e = f
    BY <1>14, <1>18, <2>2 DEF Entries
  <2>4. i \in ram'.imap
    BY <1>13, <1>17, <2>2 DEF InodeOK
  <2>5. ASSUME NEW q \in CallsOn(i)
        PROVE  CallOK(i, q)'
    <3>1. CASE q = p
      <4>1. ~Deletes(d) /\ ~HasEntry(d) /\ ~Loaded(d)
        BY <1>7, <2>1 DEF Deletes, HasEntry, Loaded
      <4>2. d.op \notin {"imap", "enread", "entry", "unentry"}
        BY <1>7
      <4>3. Creates(c) /\ CallOK(i, p) /\ d.what = "parent"
        BY <1>7, <1>13, <2>1
      <4>4. QED
        BY <1>8, <1>16, <1>17, <2>2, <3>1, <4>1, <4>2, <4>3 DEF CallOK
    <3>2. CASE q # p
      <4>1. call'[q] = call[q] /\ IsCall(call[q]) /\ CallOK(i, q)
        BY <1>8, <1>13, <2>5, <3>2, ProcessTypes DEF InodeOK
      <4>2. ~Deletes(call[q]) /\ ~Creates(call[q])
        BY <2>2, <2>5, <3>2, <4>1 DEF CallOK
      <4>3. ~HasEntry(call[q]) /\ ~Loaded(call[q])
            /\ call[q].op \notin {"imap", "enread", "entry"}
        BY <4>1, <4>2, CallKinds
      <4>4. QED
        BY <1>17, <4>1, <4>2, <4>3 DEF CallOK, HasEntry, Creates, Deletes, Loaded
    <3>3. QED
      BY <3>1, <3>2
  <2>6. /\ IsRam(ram') /\ ram'.inode = ram.inode /\ IsCall(call'[p])
        /\ SameKind(call[p], call'[p]) /\ call[p].ino = i
    BY <1>2, <1>4, <1>5, <1>6, <1>8, <1>17
  <2>7. \A j \in Ino \ {i} : /\ Entries(j)' = Entries(j) /\ disk'.inode[j] = disk.inode[j]
                             /\ j \in ram.imap => j \in ram'.imap
    BY <1>15, <1>17
  <2>8. disk'.inode[i] = disk.inode[i]
    BY <1>17
  <2>9. QED
    BY <1>10, <1>11, <1>12, <1>17, <2>3, <2>4, <2>5, <2>6, <2>7, <2>8, PointKeeps
<1>19. CASE c.op = "unentry"
  <2>1. c.what = "deparent" /\ Deletes(c) /\ HasEntry(c)
    BY <1>3, <1>19 DEF Deletes, HasEntry
  <2>2. Entries(i) \subseteq {<<c.name, i>>} /\ Users(i) = {}
    BY <1>13, <2>1 DEF CallOK
  <2>3. Entries(i)' = {}
    BY <1>14, <1>19, <2>2 DEF Entries
  <2>4. ASSUME NEW q \in CallsOn(i)
        PROVE  CallOK(i, q)'
    <3>1. CASE q = p
      <4>1. ~Creates(d) /\ ~HasEntry(d) /\ ~Loaded(d)
        BY <1>7, <2>1 DEF Creates, HasEntry, Loaded
      <4>2. d.op \notin {"imap", "enread", "entry", "unentry"}
        BY <1>7
      <4>3. d.what = "deparent"
        BY <1>7, <2>1
      <4>4. QED
        BY <1>8, <1>16, <2>2, <2>3, <3>1, <4>1, <4>2, <4>3 DEF CallOK
    <3>2. CASE q # p
      <4>1. call'[q] = call[q] /\ CallOK(i, q)
        BY <1>8, <1>13, <3>2 DEF InodeOK
      <4>2. (\A r \in CallsOn(i) : Loaded(call[r]) => r = q)
              => \A r \in CallsOn(i)' : Loaded(call'[r]) => r = q
        BY <1>16
      <4>3. QED
        BY <1>16, <1>17, <2>3, <4>1, <4>2 DEF CallOK
    <3>3. QED
      BY <3>1, <3>2
  <2>5. /\ IsRam(ram') /\ ram'.inode = ram.inode /\ IsCall(call'[p])
        /\ SameKind(call[p], call'[p]) /\ call[p].ino = i
    BY <1>2, <1>4, <1>5, <1>6, <1>8, <1>17
  <2>6. \A j \in Ino \ {i} : /\ Entries(j)' = Entries(j) /\ disk'.inode[j] = disk.inode[j]
                             /\ j \in ram.imap => j \in ram'.imap
    BY <1>15, <1>17
  <2>7. disk'.inode[i] = disk.inode[i]
    BY <1>17
  <2>8. QED
    BY <1>10, <1>11, <1>12, <1>17, <2>2, <2>3, <2>4, <2>5, <2>6, <2>7, PointKeeps
<1>20. QED
  BY <1>1, <1>18, <1>19

(* inode_sync and inode_delete write no other inode than their own, unless *)
(* the number is cut.                                                      *)
LEMMA TargetIs ==
  ASSUME NEW c, c.ino \in Ino, ~Cut(c),
         c.what \in {"write", "parent", "create", "deparent", "delete"}
  PROVE  Target(c) = IF c.what \in {"parent", "deparent"} THEN 0 ELSE c.ino
<1>1. InoMod \in Nat \ {0} /\ c.ino \in Nat
  BY BlocksAssumption
<1>2. c.what \in {"write", "create"} => c.ino < InoMod
  BY <1>1 DEF Cut, Syncing
<1>3. 0 % InoMod = 0 /\ (c.ino < InoMod => c.ino % InoMod = c.ino)
  BY <1>1
<1>4. QED
  BY <1>2, <1>3 DEF Target, Syncing

LEMMA AfterSyncIsOut ==
  ASSUME NEW c, c.what \in {"write", "parent", "create", "deparent", "delete"}
  PROVE  /\ c.what = "write" => AfterSync(c) = Out(ram, NoCall, "none")
         /\ c.what = "parent" => AfterSync(c) =
              Out(ram, [op |-> "sync", what |-> "create", ino |-> c.ino], "none")
         /\ c.what = "create" => AfterSync(c) =
              Out(ram, [op |-> "imap", what |-> "create", ino |-> c.ino], "none")
         /\ c.what = "deparent" => AfterSync(c) =
              Out(ram, [op |-> "load", what |-> "unlink", ino |-> c.ino], "none")
         /\ c.what = "delete" => AfterSync(c) =
              Out(SetInode(ram, c.ino, NewInode), NoCall, "none")
<1>1. CASE c.what = "write"
  BY <1>1 DEF AfterSync
<1>2. CASE c.what = "parent"
  BY <1>2 DEF AfterSync
<1>3. CASE c.what = "create"
  BY <1>3 DEF AfterSync
<1>4. CASE c.what = "deparent"
  BY <1>4 DEF AfterSync
<1>5. CASE c.what = "delete"
  BY <1>5 DEF AfterSync, SetInode
<1>6. QED
  BY <1>1, <1>2, <1>3, <1>4, <1>5

LEMMA AfterSyncDomain ==
  ASSUME NEW c, c.what \in {"write", "parent", "create", "deparent", "delete"}
  PROVE  "mishap" \in DOMAIN AfterSync(c)
<1>1. \A x, y, z : "mishap" \in DOMAIN Out(x, y, z)
  BY DEF Out
<1>2. CASE c.what = "write"
  BY <1>1, <1>2 DEF AfterSync
<1>3. CASE c.what = "parent"
  BY <1>1, <1>3 DEF AfterSync
<1>4. CASE c.what = "create"
  BY <1>1, <1>4 DEF AfterSync
<1>5. CASE c.what = "deparent"
  BY <1>1, <1>5 DEF AfterSync
<1>6. CASE c.what = "delete"
  BY <1>1, <1>6 DEF AfterSync
<1>7. QED
  BY <1>2, <1>3, <1>4, <1>5, <1>6

(* What c.what says is stored in the sector of inode i.                    *)
Stored(c, j) ==
  IF c.what \in {"write", "create"} /\ j = c.ino THEN Pure(ram.inode[j])
  ELSE IF c.what = "delete" /\ j = c.ino THEN NewInode ELSE disk.inode[j]

LEMMA SectorWrittenIs ==
  ASSUME BlocksOK, mishap' = "none", NEW p \in Task, SectorWritten(p),
         NEW c, c = call[p]
  PROVE  /\ c.op = "syncw" /\ c.ino \in Ino
         /\ c.what \in {"write", "parent", "create", "deparent", "delete"}
         /\ ram' = AfterSync(c).mem /\ call'[p] = AfterSync(c).c
         /\ DOMAIN call' = Task /\ (\A q \in Task \ {p} : call'[q] = call[q])
         /\ IsDisk(disk') /\ disk'.bmap = disk.bmap /\ disk'.imap = disk.imap
         /\ disk'.entry = disk.entry
         /\ \A j \in Ino : disk'.inode[j] = Stored(c, j)
<1> DEFINE t == Target(c)
           out == AfterSync(c)
           lost == \E k \in DOMAIN c.img \ {t} : disk.inode[k] # c.img[k]
           inodes == [k \in DOMAIN disk.inode |->
                        IF k = t THEN pure_inode(c)
                        ELSE IF k \in DOMAIN c.img THEN c.img[k] ELSE disk.inode[k]]
           h == IF lost THEN [out EXCEPT !.mishap = "sector"]
                ELSE IF Cut(c) THEN [out EXCEPT !.mishap = "cut"] ELSE out
<1>1. c.op = "syncw" /\ disk' = SetDiskInode(disk, inodes) /\ Becomes(p, h)
  <2>1. disk' = SetDiskInode(disk, inodes)
    BY Zenon DEF SectorWritten, SetDiskInode
  <2>2. Becomes(p, h)
    BY Zenon DEF SectorWritten
  <2>3. QED
    BY <2>1, <2>2 DEF SectorWritten, At
<1> HIDE DEF inodes
<1>2. /\ IsRam(ram) /\ IsDisk(disk) /\ IsCall(c)
  BY ProcessTypes
<1>3. c.what \in {"write", "parent", "create", "deparent", "delete"} /\ c.ino \in Ino
  BY <1>1, <1>2 DEF IsCall, IsWrite, IsRead, NoCall, Point
<1>4. "mishap" \in DOMAIN out
  BY <1>3, AfterSyncDomain
<1>5. /\ ram' = h.mem /\ call'[p] = h.c /\ mishap' = h.mishap
      /\ DOMAIN call' = Task /\ \A q \in Task \ {p} : call'[q] = call[q]
  <2> HIDE DEF h
  <2>1. QED
    BY <1>1, BecomesIs
<1>6. ~lost /\ ~Cut(c)
  <2> HIDE DEF lost, out
  <2>1. QED
    BY <1>4, <1>5
<1>7. ram' = out.mem /\ call'[p] = out.c
  <2> HIDE DEF lost, out
  <2>1. QED
    BY <1>5, <1>6
<1>8. t = IF c.what \in {"parent", "deparent"} THEN 0 ELSE c.ino
  BY <1>3, <1>6, TargetIs
<1> HIDE DEF t
<1>9. \A j \in Ino : inodes[j] = IF j = t THEN pure_inode(c) ELSE disk.inode[j]
  BY <1>2, <1>6 DEF IsDisk, inodes
<1>10. /\ c.what \in {"write", "create"} => pure_inode(c) = Pure(ram.inode[c.ino])
       /\ c.what = "delete" => pure_inode(c) = NewInode
  BY DEF pure_inode, Syncing, Pure
<1>11. 0 \notin Ino
  BY BlocksAssumption
<1>12. \A j \in Ino : inodes[j] = Stored(c, j)
  <2>1. CASE c.what \in {"parent", "deparent"}
    BY <1>8, <1>9, <1>11, <2>1 DEF Stored
  <2>2. CASE c.what \in {"write", "create"}
    BY <1>8, <1>9, <1>10, <2>2 DEF Stored
  <2>3. CASE c.what = "delete"
    BY <1>8, <1>9, <1>10, <2>3 DEF Stored
  <2>4. QED
    BY <1>3, <2>1, <2>2, <2>3
<1>13. \A j \in Ino : IsInode(inodes[j]) /\ inodes[j].cnt = 0
  BY <1>2, <1>12, PureInode, NewInodeIs DEF Stored, IsDisk, IsRam
<1>14. DOMAIN inodes = Ino \cup {0}
  BY <1>2 DEF IsDisk, inodes
<1>15. /\ IsDisk(disk') /\ disk'.bmap = disk.bmap /\ disk'.imap = disk.imap
       /\ disk'.entry = disk.entry /\ disk'.inode = inodes
  <2>1. disk' = SetDiskInode(disk, inodes)
    BY <1>1
  <2>2. QED
    BY <1>2, <1>13, <1>14, <2>1, DiskInodeSet
<1> HIDE DEF out, lost, h
<1>16. QED
  BY <1>1, <1>3, <1>5, <1>7, <1>12, <1>15 DEF out

(* No call of another process creates or deletes a file that p writes, or  *)
(* one that p creates.                                                     *)
LEMMA OthersWithUser ==
  ASSUME BlocksOK, NEW p \in Task, NEW i \in Ino, p \in Users(i),
         NEW q \in CallsOn(i), q # p
  PROVE  /\ CallOK(i, q) /\ IsCall(call[q]) /\ q \in Task
         /\ ~Creates(call[q]) /\ ~Deletes(call[q]) /\ ~Loaded(call[q])
         /\ ~HasEntry(call[q]) /\ call[q].op \notin {"imap", "enread", "entry"}
<1>1. CallOK(i, q) /\ IsCall(call[q]) /\ q \in Task
  BY ProcessTypes DEF BlocksOK, InodeOK, CallsOn
<1>2. ~Creates(call[q]) /\ ~Deletes(call[q])
  BY <1>1 DEF CallOK
<1>3. QED
  BY <1>1, <1>2, CallKinds

(* The end of file_write.                                                  *)
LEMMA WriteSyncedKeeps ==
  ASSUME BlocksOK, mishap' = "none", NEW p \in Task, SectorWritten(p),
         call[p].what = "write"
  PROVE  BlocksOK'
<1> DEFINE c == call[p]
           pos == (ram.inode[c.ino].size - 1) % PosMod
<1>1. PICK i \in Ino : i = c.ino
  BY SectorWrittenIs
<1>2. /\ c.op = "syncw"
      /\ DOMAIN call' = Task /\ \A q \in Task \ {p} : call'[q] = call[q]
  BY SectorWrittenIs
<1>3. ram' = ram /\ call'[p] = NoCall
  <2>1. ram' = AfterSync(c).mem /\ call'[p] = AfterSync(c).c
    BY SectorWrittenIs
  <2>2. AfterSync(c) = Out(ram, NoCall, "none")
    BY DEF AfterSync
  <2>3. QED
    BY <2>1, <2>2, OutIs
<1>4. /\ IsDisk(disk') /\ disk'.bmap = disk.bmap /\ disk'.imap = disk.imap
      /\ disk'.entry = disk.entry /\ \A j \in Ino : disk'.inode[j] = Stored(c, j)
  BY SectorWrittenIs
<1>5. CallOK(i, p) /\ file[p].ino = i /\ p \in CallsOn(i)
  BY <1>1, OnOwn DEF CallOK
<1>6. /\ IsRam(ram) /\ IsDisk(disk) /\ DOMAIN file = Task /\ IsCall(c) /\ IsFileOf(file[p])
      /\ file[p] # NoFile /\ i # 0
  <2>1. 0 \notin Ino
    BY BlocksAssumption
  <2>2. QED
    BY <1>5, <2>1, ProcessTypes
<1>7. file' = [file EXCEPT ![p].pos = pos]
  BY Zenon DEF SectorWritten
<1> HIDE DEF c, pos
<1>8. /\ DOMAIN file' = Task /\ \A q \in Task \ {p} : file'[q] = file[q]
      /\ file'[p].ino = file[p].ino /\ IsFileOf(file'[p])
  BY <1>6, <1>7 DEF IsFileOf
<1>9. StepOf(p) /\ IsCall(call'[p])
  BY <1>2, <1>3, <1>8 DEF StepOf, IsCall
<1>10. BitsStep(p)
  <2>1. ~Numbers(call[p])
    BY <1>2 DEF Numbers, Creates, c
  <2>2. QED
    BY <1>2, <1>3, <1>4, <2>1, BitsSame DEF c
<1>11. \A j \in Ino : Entries(j)' = Entries(j)
  BY <1>4 DEF Entries
<1>12. ASSUME NEW j \in Ino \ {i}
       PROVE  Untouched(p, j)
  <2>1. disk'.inode[j] = disk.inode[j]
    BY <1>1, <1>4 DEF Stored, c
  <2>2. Elsewhere(call[p], j) /\ Elsewhere(call'[p], j)
    BY <1>1, <1>3 DEF Elsewhere, NoCall, c
  <2>3. QED
    BY <1>3, <1>8, <1>9, <1>11, <2>1, <2>2 DEF Untouched, StepOf
<1>13. InodeOK(i)'
  <2>1. Users(i)' = Users(i) /\ p \in Users(i)
    BY <1>5, <1>8 DEF Users
  <2>2. CallsOn(i)' = CallsOn(i) \ {p} /\ \A q \in CallsOn(i) : q \in Task
    BY <1>2, <1>3 DEF CallsOn, NoCall
  <2>3. ASSUME NEW q \in CallsOn(i)'
        PROVE  CallOK(i, q)' /\ ~Creates(call[q]) /\ ~Loaded(call[q])
    <3>1. /\ CallOK(i, q) /\ q \in Task
          /\ ~Creates(call[q]) /\ ~Deletes(call[q]) /\ ~Loaded(call[q])
          /\ ~HasEntry(call[q]) /\ call[q].op \notin {"imap", "enread", "entry"}
      BY <2>1, <2>2, OthersWithUser
    <3>2. call'[q] = call[q] /\ file'[q] = file[q]
      BY <1>2, <1>8, <2>2, <3>1
    <3>3. QED
      BY <3>1, <3>2 DEF CallOK, Creates, Deletes, Loaded, HasEntry
  <2>4. disk'.inode[i] = Pure(ram'.inode[i])
    BY <1>1, <1>3, <1>4 DEF Stored, c
  <2>5. ram.inode[i].cnt = Cardinality(Users(i))
    <3>1. ~Creates(call[p]) /\ ~Loaded(call[p])
      BY <1>2 DEF Creates, Loaded, c
    <3>2. InodeOK(i)
      BY DEF BlocksOK
    <3>3. QED
      BY <2>2, <2>3, <3>1, <3>2 DEF InodeOK
  <2>6. /\ Users(i)' # {} \/ Entries(i)' # {} => i \in ram'.imap
        /\ \A e, f \in Entries(i)' : e = f
    BY <1>3, <1>11, <2>1 DEF BlocksOK, InodeOK
  <2>7. QED
    BY <1>3, <2>1, <2>3, <2>4, <2>5, <2>6 DEF InodeOK
<1>14. IsRam(ram')
  BY <1>3, <1>6
<1>15. QED
  BY <1>4, <1>8, <1>9, <1>10, <1>12, <1>13, <1>14, InodeStepKeeps

(* The parent directory's inode is on the disk, or that of the new file.   *)
LEMMA SyncedKeeps ==
  ASSUME BlocksOK, mishap' = "none", NEW p \in Task, SectorWritten(p),
         call[p].what \in {"parent", "create", "deparent"}
  PROVE  BlocksOK'
<1> DEFINE c == call[p]
           op == IF c.what = "parent" THEN "sync"
                 ELSE IF c.what = "create" THEN "imap" ELSE "load"
           what == IF c.what = "deparent" THEN "unlink" ELSE "create"
           d == [op |-> op, what |-> what, ino |-> c.ino]
<1>1. PICK i \in Ino : i = c.ino
  BY SectorWrittenIs
<1>2. /\ c.op = "syncw"
      /\ DOMAIN call' = Task /\ \A q \in Task \ {p} : call'[q] = call[q]
  BY SectorWrittenIs
<1>3. ram' = ram /\ call'[p] = d
  <2>1. ram' = AfterSync(c).mem /\ call'[p] = AfterSync(c).c
    BY SectorWrittenIs
  <2>2. AfterSync(c) = Out(ram, d, "none")
    BY DEF AfterSync
  <2> HIDE DEF d
  <2>3. QED
    BY <2>1, <2>2, OutIs
<1>4. /\ IsDisk(disk') /\ disk'.bmap = disk.bmap /\ disk'.imap = disk.imap
      /\ disk'.entry = disk.entry /\ \A j \in Ino : disk'.inode[j] = Stored(c, j)
  BY SectorWrittenIs
<1>5. /\ IsRam(ram) /\ IsDisk(disk) /\ DOMAIN file = Task /\ DOMAIN call = Task
      /\ IsCall(c)
  BY ProcessTypes
<1>6. file' = file
  BY DEF SectorWritten
<1>7. d.op = op /\ d.what = what /\ d.ino = i
  BY <1>1
<1>8. IsCall(d)
  BY <1>1 DEF IsCall, Point
<1> HIDE DEF d
<1>9. SameKind(c, d)
  BY <1>1, <1>2, <1>7 DEF SameKind, Creates, Deletes, Loaded, Changes
<1>10. StepOf(p)
  BY <1>2, <1>5, <1>6 DEF StepOf
<1>11. BitsStep(p)
  <2>1. Numbers(c) => Numbers(d)
    BY <1>2, <1>9 DEF Numbers, SameKind
  <2>2. QED
    BY <1>2, <1>3, <1>4, <2>1, BitsSame
<1>12. CallOK(i, p)
  BY <1>1, OnOwn
<1>13. disk'.inode[i] = IF c.what = "create" THEN Pure(ram.inode[i]) ELSE disk.inode[i]
  BY <1>1, <1>4 DEF Stored
<1>14. CallOK(i, p)'
  <2>1. Entries(i)' = Entries(i)
    BY <1>4 DEF Entries
  <2>2. /\ Users(i)' = Users(i)
        /\ (\A r \in CallsOn(i) : ~Deletes(call[r])) => \A r \in CallsOn(i)' : ~Deletes(call'[r])
    BY <1>1, <1>3, <1>6, <1>9, <1>10, OnStays
  <2>3. /\ ~HasEntry(d) /\ ~HasEntry(c) /\ ~Loaded(d)
        /\ d.op \notin {"enread", "entry", "unentry"}
        /\ d.op = "imap" => c.what = "create"
        /\ d.what \notin {"write", "open"}
    BY <1>2, <1>7 DEF HasEntry, Loaded
  <2>4. c.what = "create" => disk'.inode[i] = ram.inode[i]
    <3>1. c.what = "create" => ram.inode[i].cnt = 0
      BY <1>12 DEF CallOK, Creates
    <3>2. IsInode(ram.inode[i])
      BY <1>5 DEF IsRam
    <3>3. QED
      BY <1>13, <3>1, <3>2, PureInode
  <2>5. QED
    BY <1>3, <1>9, <1>12, <2>1, <2>2, <2>3, <2>4 DEF CallOK, SameKind
<1>15. disk'.inode[i] = disk.inode[i] \/ Creates(call[p])
  BY <1>13 DEF Creates
<1>16. \A j \in Ino \ {i} : /\ disk'.inode[j] = disk.inode[j]
                            /\ j \in ram.imap => j \in ram'.imap
  BY <1>1, <1>3, <1>4 DEF Stored
<1>17. /\ IsRam(ram') /\ ram'.inode = ram.inode /\ ram'.imap = ram.imap
       /\ IsCall(call'[p]) /\ SameKind(call[p], call'[p]) /\ call[p].ino = i
  BY <1>1, <1>3, <1>5, <1>8, <1>9
<1>18. QED
  BY <1>4, <1>6, <1>10, <1>11, <1>14, <1>15, <1>16, <1>17, CallKeeps

(* The end of inode_release.                                               *)
LEMMA DeletedKeeps ==
  ASSUME BlocksOK, mishap' = "none", NEW p \in Task, SectorWritten(p),
         call[p].what = "delete"
  PROVE  BlocksOK'
<1> DEFINE c == call[p]
<1>1. PICK i \in Ino : i = c.ino
  BY SectorWrittenIs
<1>2. /\ c.op = "syncw"
      /\ DOMAIN call' = Task /\ \A q \in Task \ {p} : call'[q] = call[q]
  BY SectorWrittenIs
<1>3. ram' = SetInode(ram, i, NewInode) /\ call'[p] = NoCall
  <2>1. ram' = AfterSync(c).mem /\ call'[p] = AfterSync(c).c
    BY SectorWrittenIs
  <2>2. AfterSync(c) = Out(SetInode(ram, i, NewInode), NoCall, "none")
    BY <1>1 DEF AfterSync, SetInode
  <2>3. QED
    BY <2>1, <2>2, OutIs
<1>4. /\ IsDisk(disk') /\ disk'.bmap = disk.bmap /\ disk'.imap = disk.imap
      /\ disk'.entry = disk.entry /\ \A j \in Ino : disk'.inode[j] = Stored(c, j)
  BY SectorWrittenIs
<1>5. /\ IsRam(ram) /\ IsDisk(disk) /\ DOMAIN file = Task /\ IsCall(c) /\ IsFileOf(file[p])
  BY ProcessTypes
<1>6. /\ IsRam(ram') /\ ram'.bmap = ram.bmap /\ ram'.imap = ram.imap
      /\ ram'.inode[i] = NewInode /\ \A j \in Ino : j # i => ram'.inode[j] = ram.inode[j]
  BY <1>3, <1>5, InodeChanged, NewInodeIs
<1>7. file' = file
  BY DEF SectorWritten
<1>8. CallOK(i, p) /\ p \in CallsOn(i) /\ Loaded(c) /\ Deletes(c)
  BY <1>1, OnOwn DEF Loaded, Deletes
<1>9. StepOf(p) /\ IsCall(call'[p])
  BY <1>2, <1>3, <1>5, <1>7 DEF StepOf, IsCall
<1>10. BitsStep(p)
  <2>1. ~Numbers(call[p])
    BY <1>2 DEF Numbers, Creates
  <2>2. QED
    BY <1>2, <1>4, <1>6, <2>1, BitsSame
<1>11. \A j \in Ino : Entries(j)' = Entries(j)
  BY <1>4 DEF Entries
<1>12. ASSUME NEW j \in Ino \ {i}
       PROVE  Untouched(p, j)
  <2>1. disk'.inode[j] = disk.inode[j]
    BY <1>1, <1>4 DEF Stored
  <2>2. Elsewhere(call[p], j) /\ Elsewhere(call'[p], j)
    BY <1>1, <1>3 DEF Elsewhere, NoCall
  <2>3. QED
    BY <1>6, <1>7, <1>9, <1>11, <2>1, <2>2 DEF Untouched, StepOf
<1>13. InodeOK(i)'
  <2>1. Users(i)' = {} /\ Users(i) = {}
    BY <1>7, <1>8 DEF CallOK, Users
  <2>2. CallsOn(i)' = CallsOn(i) \ {p} /\ \A q \in CallsOn(i) : q \in Task
    BY <1>2, <1>3 DEF CallsOn, NoCall
  <2>3. ASSUME NEW q \in CallsOn(i)'
        PROVE  CallOK(i, q)'
    <3>1. CallOK(i, q) /\ q \in Task /\ call'[q] = call[q] /\ file'[q] = file[q]
          /\ IsCall(call[q])
      BY <1>2, <1>7, <2>2, ProcessTypes DEF BlocksOK, InodeOK
    <3>2. ~Creates(call[q]) /\ ~Loaded(call[q])
      BY <1>8, <2>1, <2>2, <3>1 DEF CallOK
    <3>3. call[q].op # "imap"
      BY <3>1, <3>2, CallKinds
    <3>4. QED
      BY <1>11, <2>1, <3>1, <3>2, <3>3 DEF CallOK, Creates, Loaded
  <2>4. ram'.inode[i].cnt = 0 /\ Cardinality(Users(i)') = 0
    BY <1>6, <2>1, NewInodeIs, FS_EmptySet
  <2>5. /\ Users(i)' # {} \/ Entries(i)' # {} => i \in ram'.imap
        /\ \A e, f \in Entries(i)' : e = f
    BY <1>6, <1>11, <2>1 DEF BlocksOK, InodeOK
  <2>6. ~(ram'.inode[i].cnt > 0)
    BY <2>4
  <2>7. QED
    BY <2>3, <2>4, <2>5, <2>6 DEF InodeOK
<1>14. IsFileOf(file'[p])
  BY <1>5, <1>7
<1>15. QED
  BY <1>4, <1>6, <1>9, <1>10, <1>12, <1>13, <1>14, InodeStepKeeps

(* No call writes or creates a file that no process has open.              *)
LEMMA OthersNoUser ==
  ASSUME BlocksOK, NEW i \in Ino, Users(i) = {}, NEW q \in CallsOn(i)
  PROVE  /\ CallOK(i, q) /\ IsCall(call[q]) /\ q \in Task
         /\ ~Creates(call[q]) /\ call[q].what # "write"
         /\ call[q].op \notin {"imap", "enread", "entry"}
<1>1. CallOK(i, q) /\ IsCall(call[q]) /\ q \in Task
  BY ProcessTypes DEF BlocksOK, InodeOK, CallsOn
<1>2. ~Creates(call[q]) /\ call[q].what # "write"
  BY <1>1 DEF CallOK, Users
<1>3. QED
  BY <1>1, <1>2, CallKinds

LEMMA UnlinkKeeps ==
  ASSUME BlocksOK, NEW p \in Task, NEW name \in Name, sys_unlink(p, name)
  PROVE  BlocksOK'
<1>1. call[p] = NoCall /\ ram' = ram /\ disk' = disk /\ file' = file
  BY DEF sys_unlink, Idle
<1>2. PICK i \in Found(name) :
        /\ ~InUse(i)
        /\ call' = [call EXCEPT ![p] = [op |-> "deread", what |-> "deparent", ino |-> i,
                                        name |-> name]]
  BY DEF sys_unlink
<1>3. i \in Ino /\ <<name, i>> \in Entries(i) /\ Users(i) = {}
  BY <1>2 DEF Found, Entries, InUse, Users
<1> DEFINE d == [op |-> "deread", what |-> "deparent", ino |-> i, name |-> name]
<1>4. /\ IsRam(ram) /\ IsDisk(disk) /\ DOMAIN file = Task /\ DOMAIN call = Task
      /\ IsFileOf(file[p])
  BY ProcessTypes
<1>5. StepOf(p) /\ call'[p] = d
  BY <1>1, <1>2, <1>4 DEF StepOf
<1>6. /\ IsCall(d) /\ d.ino = i /\ d.name = name /\ d.op = "deread" /\ d.what = "deparent"
  BY <1>3 DEF IsCall, Point
<1> HIDE DEF d
<1>7. BitsStep(p)
  <2>1. ~Numbers(call[p])
    BY <1>1 DEF Numbers, Creates, NoCall
  <2>2. QED
    BY <1>1, <2>1, BitsSame DEF NoCall
<1>8. \A j \in Ino : Entries(j)' = Entries(j) /\ Users(j)' = Users(j)
  BY <1>1 DEF Entries, Users
<1>9. ASSUME NEW j \in Ino \ {i}
      PROVE  Untouched(p, j)
  <2>1. Elsewhere(call[p], j) /\ Elsewhere(call'[p], j)
    BY <1>1, <1>5, <1>6, <1>9 DEF Elsewhere, NoCall
  <2>2. QED
    BY <1>1, <1>5, <1>8, <2>1 DEF Untouched, StepOf
<1>10. InodeOK(i)'
  <2>1. InodeOK(i)
    BY <1>3 DEF BlocksOK
  <2>2. CallsOn(i)' = CallsOn(i) \cup {p} /\ p \notin CallsOn(i)
    BY <1>1, <1>5, <1>6 DEF CallsOn, StepOf, NoCall
  <2>3. \A q \in CallsOn(i) : q \in Task /\ call'[q] = call[q] /\ file'[q] = file[q]
    BY <1>1, <1>5, <2>2 DEF CallsOn, StepOf
  <2>4. ~Loaded(d) /\ Deletes(d) /\ ~Creates(d) /\ HasEntry(d) /\ Changes(d)
    BY <1>6 DEF Loaded, Deletes, Creates, HasEntry, Changes
  <2>5. CallOK(i, p)'
    <3>1. Entries(i) \subseteq {<<name, i>>}
      BY <1>3, <2>1 DEF InodeOK
    <3>2. QED
      BY <1>3, <1>5, <1>6, <1>8, <2>4, <3>1 DEF CallOK
  <2>6. ASSUME NEW q \in CallsOn(i)
        PROVE  CallOK(i, q)'
    <3>1. CallOK(i, q) /\ ~Creates(call[q]) /\ call[q].op # "imap"
      BY <1>3, OthersNoUser
    <3>2. (\A r \in CallsOn(i) : Loaded(call[r]) => r = q)
            => \A r \in CallsOn(i)' : Loaded(call'[r]) => r = q
      BY <1>5, <2>2, <2>3, <2>4
    <3>3. QED
      BY <1>1, <1>3, <1>8, <2>3, <3>1, <3>2 DEF CallOK, Creates
  <2>7. (\A q \in CallsOn(i)' : ~Loaded(call'[q]) /\ ~Creates(call'[q])) =>
          ram'.inode[i].cnt = Cardinality(Users(i)')
    BY <1>1, <1>3, <1>8, <2>1, <2>2, <2>3 DEF InodeOK
  <2>8. ~(\A q \in CallsOn(i)' : ~Changes(call'[q]))
    BY <1>5, <2>2, <2>4
  <2>9. /\ Users(i)' # {} \/ Entries(i)' # {} => i \in ram'.imap
        /\ \A e, f \in Entries(i)' : e = f
    BY <1>1, <1>3, <1>8, <2>1 DEF InodeOK
  <2>10. QED
    BY <2>2, <2>5, <2>6, <2>7, <2>8, <2>9 DEF InodeOK
<1>11. QED
  BY <1>1, <1>3, <1>4, <1>5, <1>6, <1>7, <1>9, <1>10, InodeStepKeeps

(* The users of a file change at the end of a call, when no other call     *)
(* creates or deletes it.                                                  *)
LEMMA UsersChange ==
  ASSUME BlocksOK, NEW p \in Task, StepOf(p), BitsStep(p), NEW i \in Ino,
         call'[p] = NoCall, call[p].what = "none" \/ call[p].ino = i,
         IsDisk(disk'), disk'.inode = disk.inode, disk'.entry = disk.entry,
         IsRam(ram'), ram'.imap = ram.imap,
         \A j \in Ino : j # i => ram'.inode[j] = ram.inode[j],
         i \in ram.imap, IsFileOf(file'[p]), file[p].ino \in {0, i}, file'[p].ino \in {0, i},
         \A q \in CallsOn(i) \ {p} : ~Creates(call[q]) /\ ~Deletes(call[q]),
         ram'.inode[i].cnt = Cardinality(Users(i)'),
         ram'.inode[i].cnt > 0 /\ (\A q \in CallsOn(i) \ {p} : ~Changes(call[q])) =>
           disk.inode[i] = Pure(ram'.inode[i])
  PROVE  BlocksOK'
<1>1. IsCall(call'[p])
  BY DEF IsCall
<1>2. \A j \in Ino : Entries(j)' = Entries(j)
  BY DEF Entries
<1>3. ASSUME NEW j \in Ino \ {i}
      PROVE  Untouched(p, j)
  <2>1. file[p].ino # j /\ file'[p].ino # j
    BY <1>3, BlocksAssumption
  <2>2. Elsewhere(call[p], j) /\ Elsewhere(call'[p], j)
    BY <1>3 DEF Elsewhere, NoCall
  <2>3. QED
    BY <1>2, <1>3, <2>1, <2>2 DEF Untouched, StepOf
<1>4. CallsOn(i)' = CallsOn(i) \ {p} /\ \A q \in CallsOn(i) : q \in Task
  BY DEF CallsOn, StepOf, NoCall
<1>5. \A q \in CallsOn(i)' : q \in CallsOn(i) /\ call'[q] = call[q] /\ file'[q] = file[q]
  BY <1>4 DEF StepOf
<1>6. ASSUME NEW q \in CallsOn(i)'
      PROVE  CallOK(i, q)' /\ (Changes(call'[q]) <=> Changes(call[q]))
  <2>1. CallOK(i, q) /\ IsCall(call[q]) /\ ~Creates(call[q]) /\ ~Deletes(call[q])
    BY <1>4, <1>5, ProcessTypes DEF BlocksOK, InodeOK
  <2>2. ~Loaded(call[q]) /\ ~HasEntry(call[q]) /\ call[q].op \notin {"imap", "enread", "entry"}
    BY <2>1, CallKinds
  <2>3. QED
    BY <1>5, <2>1, <2>2 DEF CallOK, Creates, Deletes, Loaded, HasEntry
<1>7. /\ i \in ram'.imap
      /\ \A e, f \in Entries(i)' : e = f
  BY <1>2 DEF BlocksOK, InodeOK
<1>8. ram'.inode[i].cnt > 0 /\ (\A q \in CallsOn(i)' : ~Changes(call'[q])) =>
        disk'.inode[i] = Pure(ram'.inode[i])
  BY <1>4, <1>6
<1>9. InodeOK(i)'
  BY <1>6, <1>7, <1>8 DEF InodeOK
<1>10. QED
  BY <1>1, <1>3, <1>9, InodeStepKeeps

(* A process opens or closes a file that no call creates or deletes.       *)
LEMMA UserKeeps ==
  ASSUME BlocksOK, NEW p \in Task, StepOf(p), NEW i \in Ino,
         call'[p] = NoCall, call[p].what \in {"none", "open"},
         call[p].what = "none" \/ call[p].ino = i,
         disk' = disk, IsRam(ram'), ram'.bmap = ram.bmap, ram'.imap = ram.imap,
         \A j \in Ino : j # i => ram'.inode[j] = ram.inode[j],
         i \in ram.imap, IsFileOf(file'[p]), file[p].ino \in {0, i}, file'[p].ino \in {0, i},
         \A q \in CallsOn(i) : ~Creates(call[q]) /\ ~Deletes(call[q]),
         ram'.inode[i].cnt = Cardinality(Users(i)'),
         ram'.inode[i].cnt > 0 /\ (\A q \in CallsOn(i) : ~Changes(call[q])) =>
           disk.inode[i] = Pure(ram'.inode[i])
  PROVE  BlocksOK'
<1>1. IsDisk(disk) /\ IsCall(call[p])
  BY ProcessTypes
<1>2. ~Changes(call[p]) /\ ~Creates(call[p]) /\ ~Loaded(call[p])
      /\ call[p].op \notin {"first", "bitmap"}
  <2>1. ~Changes(call[p]) /\ ~Creates(call[p]) /\ ~Deletes(call[p])
    BY DEF Changes, Creates, Deletes
  <2>2. QED
    BY <1>1, <2>1, CallKinds
<1>3. BitsStep(p)
  BY <1>2, BitsSame DEF Numbers, Loaded
<1>4. ram'.inode[i].cnt > 0 /\ (\A q \in CallsOn(i) \ {p} : ~Changes(call[q])) =>
        disk.inode[i] = Pure(ram'.inode[i])
  BY <1>2
<1>5. QED
  BY <1>1, <1>3, <1>4, UsersChange

LEMMA FileOpenKeeps ==
  ASSUME BlocksOK, mishap' = "none", NEW p \in Task, NEW name \in Name, NEW wr \in BOOLEAN,
         file_open(p, name, wr)
  PROVE  BlocksOK'
<1>1. call[p] = NoCall /\ file[p].ino = 0 /\ disk' = disk
  BY DEF file_open, Idle
<1>2. PICK i \in Found(name) :
        \/ /\ ram.inode[i].cnt > 0
           /\ Becomes(p, Out([ram EXCEPT !.inode[i].cnt = @ + 1], NoCall, "none"))
           /\ Opened(p, i, name, wr)
        \/ /\ ram.inode[i].cnt = 0
           /\ Becomes(p, Out(ram, [op |-> "load", what |-> "open", ino |-> i,
                                   name |-> name, wr |-> wr], "none"))
           /\ UNCHANGED file
  BY DEF file_open
<1>3. i \in Ino /\ <<name, i>> \in Entries(i)
  BY <1>2 DEF Found, Entries
<1>4. /\ IsRam(ram) /\ IsDisk(disk) /\ DOMAIN file = Task /\ DOMAIN call = Task
      /\ IsFileOf(file[p])
  BY ProcessTypes
<1>5. i \in ram.imap /\ InodeOK(i)
  BY <1>3 DEF BlocksOK, InodeOK
<1>6. CASE /\ ram.inode[i].cnt > 0
           /\ Becomes(p, Out([ram EXCEPT !.inode[i].cnt = @ + 1], NoCall, "none"))
           /\ Opened(p, i, name, wr)
  <2> DEFINE x == [ram.inode[i] EXCEPT !.cnt = @ + 1]
             f == [ino |-> i, name |-> name, pos |-> 0, wr |-> wr]
  <2>1. Becomes(p, Out(SetInode(ram, i, x), NoCall, "none"))
    BY <1>6, Zenon DEF SetInode
  <2>2. IsInode(x) /\ x.cnt = ram.inode[i].cnt + 1 /\ Pure(x) = Pure(ram.inode[i])
    <3>1. SUFFICES ASSUME NEW s, s = ram.inode[i].cnt + 1
          PROVE  IsInode(x) /\ x.cnt = s /\ Pure(x) = Pure(ram.inode[i])
      OBVIOUS
    <3>2. x = [ram.inode[i] EXCEPT !.cnt = s]
      BY <3>1
    <3>3. IsInode(ram.inode[i])
      BY <1>3, <1>4 DEF IsRam
    <3> HIDE DEF x
    <3>4. QED
      BY <3>2, <3>3, CntOfInode
  <2> HIDE DEF x
  <2>3. /\ ram' = SetInode(ram, i, x) /\ call'[p] = NoCall
        /\ DOMAIN call' = Task /\ \A q \in Task \ {p} : call'[q] = call[q]
    BY <2>1, BecomesIs, OutIs
  <2>4. /\ IsRam(ram') /\ ram'.bmap = ram.bmap /\ ram'.imap = ram.imap
        /\ ram'.inode[i] = x /\ \A j \in Ino : j # i => ram'.inode[j] = ram.inode[j]
    BY <1>3, <1>4, <2>2, <2>3, InodeChanged
  <2>5. file' = [file EXCEPT ![p] = f]
    BY <1>6 DEF Opened
  <2>6. IsFileOf(f) /\ f.ino = i
    BY <1>3 DEF IsFileOf
  <2> HIDE DEF f
  <2>7. StepOf(p) /\ file'[p] = f
    BY <1>4, <2>3, <2>5 DEF StepOf
  <2>8. \A q \in CallsOn(i) : CallOK(i, q) /\ IsCall(call[q])
    BY <1>5, ProcessTypes DEF InodeOK, CallsOn
  <2>9. \A q \in CallsOn(i) : ~Creates(call[q]) /\ ~Loaded(call[q])
    <3>1. ASSUME NEW q \in CallsOn(i), Creates(call[q])
          PROVE  FALSE
      BY <1>6, <2>8, <3>1 DEF CallOK
    <3>2. ASSUME NEW q \in CallsOn(i), Loaded(call[q])
          PROVE  FALSE
      <4>1. Deletes(call[q]) /\ ~HasEntry(call[q])
        BY <2>8, <3>2, CallKinds DEF Loaded, HasEntry, IsCall, IsWrite, IsRead, NoCall, Point
      <4>2. QED
        BY <1>3, <2>8, <4>1 DEF CallOK
    <3>3. QED
      BY <3>1, <3>2
  <2>10. ram.inode[i].cnt = Cardinality(Users(i))
    BY <1>5, <2>9 DEF InodeOK
  <2>11. IsFiniteSet(Users(i))
    BY FS_Subset, BlocksAssumption DEF Users
  <2>12. Users(i) # {}
    BY <1>6, <2>10, FS_EmptySet
  <2>13. \A q \in CallsOn(i) : ~Deletes(call[q])
    BY <2>8, <2>12 DEF CallOK
  <2>14. Users(i)' = Users(i) \cup {p} /\ p \notin Users(i)
    <3>1. 0 # i
      BY <1>3, BlocksAssumption
    <3>2. QED
      BY <1>1, <2>6, <2>7, <3>1 DEF Users, StepOf
  <2>15. Cardinality(Users(i)') = Cardinality(Users(i)) + 1
    BY <2>11, <2>14, FS_AddElement
  <2>16. ram'.inode[i].cnt = Cardinality(Users(i)')
    BY <2>2, <2>4, <2>10, <2>15
  <2>17. (\A q \in CallsOn(i) : ~Changes(call[q])) => disk.inode[i] = Pure(ram'.inode[i])
    BY <1>5, <1>6, <2>2, <2>4 DEF InodeOK
  <2>18. call[p].what = "none"
    BY <1>1 DEF NoCall
  <2>19. QED
    BY <1>1, <1>3, <1>5, <2>3, <2>4, <2>6, <2>7, <2>9, <2>13, <2>16, <2>17, <2>18, UserKeeps
<1>7. CASE /\ ram.inode[i].cnt = 0
           /\ Becomes(p, Out(ram, [op |-> "load", what |-> "open", ino |-> i,
                                   name |-> name, wr |-> wr], "none"))
           /\ UNCHANGED file
  <2> DEFINE d == [op |-> "load", what |-> "open", ino |-> i, name |-> name, wr |-> wr]
  <2>1. IsCall(d) /\ d.what = "open"
    BY <1>3 DEF IsCall, Point
  <2> HIDE DEF d
  <2>2. Becomes(p, Out(ram, d, "none"))
    BY <1>7, Zenon DEF d
  <2>3. /\ ram' = ram /\ call'[p] = d
        /\ DOMAIN call' = Task /\ \A q \in Task \ {p} : call'[q] = call[q]
    BY <2>2, BecomesIs, OutIs
  <2>4. StepOf(p) /\ file'[p] = file[p] /\ call[p].what = "none"
    BY <1>1, <1>4, <1>7, <2>3 DEF StepOf, NoCall
  <2>5. QED
    BY <1>1, <1>4, <2>1, <2>3, <2>4, PassiveKeeps
<1>8. QED
  BY <1>2, <1>6, <1>7

LEMMA CloseKeeps ==
  ASSUME BlocksOK, NEW p \in Task, sys_close(p)
  PROVE  BlocksOK'
<1> DEFINE x == IF ram.inode[file[p].ino].cnt = 1 THEN NewInode
                ELSE [ram.inode[file[p].ino] EXCEPT !.cnt = @ - 1]
<1>1. /\ call[p] = NoCall /\ file[p].ino # 0 /\ disk' = disk /\ call' = call
      /\ file' = [file EXCEPT ![p] = NoFile]
  BY DEF sys_close, Idle
<1>2. ram' = SetInode(ram, file[p].ino, x)
  BY Zenon DEF sys_close, SetInode
<1>3. /\ IsRam(ram) /\ IsDisk(disk) /\ DOMAIN file = Task /\ DOMAIN call = Task
      /\ file[p].ino \in Ino
  BY <1>1, ProcessTypes
<1>4. PICK i \in Ino : i = file[p].ino
  BY <1>3
<1>5. StepOf(p) /\ file'[p] = NoFile /\ IsFileOf(file'[p])
  BY <1>1, <1>3 DEF StepOf, IsFileOf
<1>6. InodeOK(i) /\ p \in Users(i)
  BY <1>4 DEF BlocksOK, Users
<1>7. \A q \in CallsOn(i) : ~Creates(call[q]) /\ ~Deletes(call[q]) /\ ~Loaded(call[q])
  <2>1. p \notin CallsOn(i)
    BY <1>1 DEF CallsOn, NoCall
  <2>2. QED
    BY <1>6, <2>1, OthersWithUser
<1>8. ram.inode[i].cnt = Cardinality(Users(i))
  BY <1>6, <1>7 DEF InodeOK
<1>9. IsFiniteSet(Users(i))
  BY FS_Subset, BlocksAssumption DEF Users
<1>10. Users(i)' = Users(i) \ {p}
  <2>1. 0 # i
    BY BlocksAssumption
  <2>2. QED
    BY <1>5, <2>1 DEF Users, StepOf, NoFile
<1>11. Cardinality(Users(i)') = ram.inode[i].cnt - 1
  BY <1>6, <1>8, <1>9, <1>10, FS_RemoveElement
<1>12. ram.inode[i].cnt \in Nat
  BY <1>8, <1>9, FS_CardinalityType
<1>13. /\ IsInode(x) /\ x.cnt = ram.inode[i].cnt - 1
       /\ x.cnt > 0 => Pure(x) = Pure(ram.inode[i])
  <2>1. CASE ram.inode[i].cnt = 1
    BY <1>4, <2>1, NewInodeIs
  <2>2. CASE ram.inode[i].cnt # 1
    <3>1. SUFFICES ASSUME NEW s, s = ram.inode[i].cnt - 1
          PROVE  IsInode(x) /\ x.cnt = s /\ Pure(x) = Pure(ram.inode[i])
      OBVIOUS
    <3>2. x = [ram.inode[i] EXCEPT !.cnt = s]
      BY <1>4, <2>2, <3>1
    <3>3. IsInode(ram.inode[i])
      BY <1>3 DEF IsRam
    <3> HIDE DEF x
    <3>4. QED
      BY <3>2, <3>3, CntOfInode
  <2>3. QED
    BY <2>1, <2>2
<1> HIDE DEF x
<1>14. /\ IsRam(ram') /\ ram'.bmap = ram.bmap /\ ram'.imap = ram.imap
       /\ ram'.inode[i] = x /\ \A j \in Ino : j # i => ram'.inode[j] = ram.inode[j]
  BY <1>2, <1>3, <1>4, <1>13, InodeChanged
<1>15. ram'.inode[i].cnt = Cardinality(Users(i)')
  BY <1>11, <1>13, <1>14
<1>16. ram'.inode[i].cnt > 0 /\ (\A q \in CallsOn(i) : ~Changes(call[q])) =>
         disk.inode[i] = Pure(ram'.inode[i])
  BY <1>6, <1>12, <1>13, <1>14 DEF InodeOK
<1>17. i \in ram.imap
  BY <1>6 DEF InodeOK
<1>18. file[p].ino \in {0, i} /\ file'[p].ino \in {0, i}
  BY <1>4, <1>5 DEF NoFile
<1>19. call'[p] = NoCall /\ call[p].what = "none"
  BY <1>1 DEF NoCall
<1>20. QED
  BY <1>1, <1>5, <1>7, <1>14, <1>15, <1>16, <1>17, <1>18, <1>19, UserKeeps

(* inode_open has read the inode for file_open.                            *)
LEMMA OpenReadKeeps ==
  ASSUME BlocksOK, mishap' = "none", NEW p \in Task, InodeRead(p), call[p].what = "open"
  PROVE  BlocksOK'
<1> DEFINE c == call[p]
           x == [disk.inode[c.ino] EXCEPT !.cnt = 1]
           m == [ram EXCEPT !.inode[c.ino] = x]
           f == [ino |-> c.ino, name |-> c.name, pos |-> 0, wr |-> c.wr]
           copies == ram.inode[c.ino].cnt > 0 \/ InUse(c.ino)
           unlinked == <<c.name, c.ino>> \notin disk.entry \/ Deleting(c.ino)
           h == IF copies THEN "copies" ELSE IF unlinked THEN "unlinked" ELSE "none"
<1>1. c.op = "load" /\ disk' = disk
  BY Zenon DEF InodeRead, At
<1>2. Becomes(p, Out(m, NoCall, h)) /\ file' = [file EXCEPT ![p] = f]
  <2>1. c.what # "unlink"
    OBVIOUS
  <2>2. QED
    BY <2>1, Zenon DEF InodeRead, Opened
<1>3. m = SetInode(ram, c.ino, x)
  BY Zenon DEF SetInode
<1> HIDE DEF m
<1>4. /\ ram' = m /\ call'[p] = NoCall /\ mishap' = h
      /\ DOMAIN call' = Task /\ \A q \in Task \ {p} : call'[q] = call[q]
  <2> HIDE DEF h
  <2>1. QED
    BY <1>2, BecomesIs, OutIs
<1>5. ~copies /\ ~unlinked
  <2> HIDE DEF copies, unlinked
  <2>1. QED
    BY <1>4
<1>6. /\ IsRam(ram) /\ IsDisk(disk) /\ DOMAIN file = Task /\ DOMAIN call = Task
      /\ c.ino \in Ino /\ CallOK(c.ino, p)
  BY ProcessTypes, OnOwn
<1>7. PICK i \in Ino : i = c.ino
  BY <1>6
<1>8. IsFileOf(f) /\ f.ino = i
  BY <1>7 DEF IsFileOf
<1> HIDE DEF f
<1>9. StepOf(p) /\ file'[p] = f
  BY <1>2, <1>4, <1>6 DEF StepOf
<1>10. IsInode(x) /\ x.cnt = 1 /\ Pure(x) = disk.inode[i]
  <2>1. IsInode(disk.inode[i]) /\ disk.inode[i].cnt = 0 /\ x = [disk.inode[i] EXCEPT !.cnt = 1]
    BY <1>6, <1>7 DEF IsDisk
  <2> HIDE DEF x
  <2>2. PICK y : y = disk.inode[i]
    OBVIOUS
  <2>3. IsInode(y) /\ y.cnt = 0 /\ x = [y EXCEPT !.cnt = 1]
    BY <2>1, <2>2
  <2>4. Pure(y) = y
    BY <2>3, PureInode
  <2>5. QED
    BY <2>2, <2>3, <2>4, CntOfInode
<1> HIDE DEF x
<1>11. /\ IsRam(ram') /\ ram'.bmap = ram.bmap /\ ram'.imap = ram.imap
       /\ ram'.inode[i] = x /\ \A j \in Ino : j # i => ram'.inode[j] = ram.inode[j]
  BY <1>3, <1>4, <1>6, <1>7, <1>10, InodeChanged
<1>12. Users(i) = {} /\ file[p].ino = 0
  <2>1. Users(i) = {}
    BY <1>5, <1>7 DEF InUse, Users
  <2>2. QED
    BY <1>6, <2>1 DEF CallOK
<1>13. Users(i)' = {p}
  <2>1. 0 # i
    BY BlocksAssumption
  <2>2. QED
    BY <1>8, <1>9, <1>12 DEF Users, StepOf
<1>14. ram'.inode[i].cnt = Cardinality(Users(i)')
  BY <1>10, <1>11, <1>13, FS_Singleton
<1>15. \A q \in CallsOn(i) : ~Creates(call[q]) /\ ~Deletes(call[q])
  <2>1. \A q \in CallsOn(i) : q \in Task /\ call[q].ino = i /\ ~Creates(call[q])
    BY <1>12, OthersNoUser DEF CallsOn
  <2>2. QED
    BY <1>5, <1>7, <2>1 DEF Deleting, Deletes
<1>16. i \in ram.imap
  <2>1. <<c.name, i>> \in Entries(i)
    BY <1>5, <1>7 DEF Entries
  <2>2. QED
    BY <2>1 DEF BlocksOK, InodeOK
<1>17. disk.inode[i] = Pure(ram'.inode[i])
  BY <1>10, <1>11
<1>18. file[p].ino \in {0, i} /\ file'[p].ino \in {0, i} /\ IsFileOf(file'[p])
  BY <1>8, <1>9, <1>12
<1>19. call'[p] = NoCall /\ call[p].what \in {"none", "open"} /\ call[p].ino = i
  BY <1>4, <1>7
<1> HIDE DEF c
<1>20. QED
  BY <1>1, <1>9, <1>11, <1>14, <1>15, <1>16, <1>17, <1>18, <1>19, UserKeeps

-----------------------------------------------------------------------------
(* Numbers are taken and blocks and numbers given back.                    *)
SetImap(m, v) == [m EXCEPT !.imap = v]

LEMMA ImapChanged ==
  ASSUME NEW m, IsRam(m), NEW v, v \subseteq Ino, NEW n, n = SetImap(m, v)
  PROVE  IsRam(n) /\ n.bmap = m.bmap /\ n.imap = v /\ n.inode = m.inode
<1>1. m = [bmap |-> m.bmap, imap |-> m.imap, inode |-> m.inode]
  BY DEF IsRam
<1>2. n = [bmap |-> m.bmap, imap |-> v, inode |-> m.inode]
  BY ONLY <1>1, n = SetImap(m, v) DEF SetImap
<1>3. QED
  BY <1>2 DEF IsRam

SetBmap(m, v) == [m EXCEPT !.bmap = v]

LEMMA BmapChanged ==
  ASSUME NEW m, IsRam(m), NEW v, v \subseteq Block, NEW n, n = SetBmap(m, v)
  PROVE  IsRam(n) /\ n.bmap = v /\ n.imap = m.imap /\ n.inode = m.inode
<1>1. m = [bmap |-> m.bmap, imap |-> m.imap, inode |-> m.inode]
  BY DEF IsRam
<1>2. n = [bmap |-> v, imap |-> m.imap, inode |-> m.inode]
  BY ONLY <1>1, n = SetBmap(m, v) DEF SetBmap
<1>3. QED
  BY <1>2 DEF IsRam

LEMMA FileCreateKeeps ==
  ASSUME BlocksOK, mishap' = "none", NEW p \in Task, NEW name \in Name, file_create(p, name)
  PROVE  BlocksOK'
<1> DEFINE i == Min(Ino \ ram.imap)
           numbered == SetImap(ram, ram.imap \cup {i})
           f == [ino |-> i, name |-> name, pos |-> 0, wr |-> TRUE]
           d == [op |-> "enread", what |-> "parent", ino |-> i, name |-> name]
<1>1. call[p] = NoCall /\ file[p].ino = 0 /\ disk' = disk
  BY DEF file_create, Idle
<1>2. ram.imap # Ino
  BY DEF file_create
<1>3. /\ ram' = [ram EXCEPT !.imap = @ \cup {i}, !.inode[i] = NewInode]
      /\ file' = [file EXCEPT ![p] = f] /\ call' = [call EXCEPT ![p] = d]
      /\ ~Deleting(i)
  BY <1>2 DEF file_create
<1>4. ram' = SetInode(numbered, i, NewInode)
  BY <1>3, Zenon DEF SetInode, SetImap
<1>5. /\ IsRam(ram) /\ IsDisk(disk) /\ DOMAIN file = Task /\ DOMAIN call = Task
  BY ProcessTypes
<1>6. i \in Ino /\ i \notin ram.imap
  <2>1. Ino \ ram.imap # {} /\ Ino \ ram.imap \subseteq Nat
    BY <1>2, <1>5, BlocksAssumption DEF IsRam
  <2>2. QED
    BY <2>1, MinOf
<1> HIDE <1>3 DEF i
<1>7. /\ IsRam(numbered) /\ numbered.bmap = ram.bmap /\ numbered.imap = ram.imap \cup {i}
      /\ numbered.inode = ram.inode
  <2>1. ram.imap \cup {i} \subseteq Ino
    BY <1>5, <1>6 DEF IsRam
  <2>2. QED
    BY <1>5, <2>1, ImapChanged
<1>8. PICK k \in Ino : k = i
  BY <1>6
<1>9. ram' = SetInode(numbered, k, NewInode)
  BY <1>4, <1>8
<1> HIDE DEF numbered
<1>10. /\ IsRam(ram') /\ ram'.bmap = ram.bmap /\ ram'.imap = ram.imap \cup {k}
       /\ ram'.inode[k] = NewInode /\ \A j \in Ino : j # k => ram'.inode[j] = ram.inode[j]
  BY <1>7, <1>8, <1>9, InodeChanged, NewInodeIs
<1>11. IsFileOf(f) /\ f.ino = k
  BY <1>8 DEF IsFileOf
<1>12. IsCall(d) /\ d.op = "enread" /\ d.what = "parent" /\ d.ino = k
  BY <1>8 DEF IsCall, Point
<1>13. file' = [file EXCEPT ![p] = f] /\ call' = [call EXCEPT ![p] = d]
  BY <1>3
<1> HIDE DEF f, d
<1>14. StepOf(p) /\ file'[p] = f /\ call'[p] = d
  BY <1>5, <1>13 DEF StepOf
<1>15. BitsStep(p)
  <2>1. Numbers(call'[p])
    BY <1>12, <1>14 DEF Numbers, Creates
  <2>2. call[p].op \notin {"first", "bitmap", "free"}
    BY <1>1 DEF NoCall
  <2>3. QED
    BY <1>1, <1>10, <2>1, <2>2 DEF BitsStep, Writes
<1>16. \A j \in Ino : Entries(j)' = Entries(j)
  BY <1>1 DEF Entries
<1>17. ASSUME NEW j \in Ino \ {k}
       PROVE  Untouched(p, j)
  <2>1. file[p].ino # j /\ file'[p].ino # j
    BY <1>1, <1>11, <1>14, <1>17, BlocksAssumption
  <2>2. Elsewhere(call[p], j) /\ Elsewhere(call'[p], j)
    BY <1>1, <1>12, <1>14, <1>17 DEF Elsewhere, NoCall
  <2>3. QED
    BY <1>1, <1>10, <1>14, <1>16, <1>17, <2>1, <2>2 DEF Untouched, StepOf
<1>18. InodeOK(k)'
  <2>1. Users(k) = {} /\ Entries(k) = {}
    BY <1>6, <1>8 DEF BlocksOK, InodeOK
  <2>2. Users(k)' = {p}
    BY <1>11, <1>14, <2>1 DEF Users, StepOf
  <2>3. CallsOn(k)' = CallsOn(k) \cup {p} /\ p \notin CallsOn(k)
    BY <1>1, <1>12, <1>14 DEF CallsOn, StepOf, NoCall
  <2>4. \A q \in CallsOn(k) : q \in Task /\ call'[q] = call[q] /\ file'[q] = file[q]
    BY <1>14, <2>3 DEF CallsOn, StepOf
  <2>5. \A q \in CallsOn(k) : ~Deletes(call[q])
    BY <1>3, <1>8 DEF CallsOn, Deleting, Deletes
  <2>6. ~Loaded(d) /\ ~Deletes(d) /\ Creates(d) /\ ~HasEntry(d)
    BY <1>12 DEF Loaded, Deletes, Creates, HasEntry
  <2>7. CallOK(k, p)'
    <3>1. \A q \in CallsOn(k)' : ~Deletes(call'[q])
      BY <1>14, <2>3, <2>4, <2>5, <2>6
    <3>2. ram'.inode[k].cnt = 0
      BY <1>10, NewInodeIs
    <3>3. QED
      BY <1>12, <1>14, <1>16, <2>1, <2>2, <2>6, <3>1, <3>2 DEF CallOK
  <2>8. ASSUME NEW q \in CallsOn(k)
        PROVE  CallOK(k, q)'
    <3>1. /\ CallOK(k, q) /\ IsCall(call[q]) /\ ~Creates(call[q]) /\ call[q].what # "write"
          /\ call[q].op \notin {"imap", "enread", "entry"}
      BY <2>1, OthersNoUser
    <3>2. ~Loaded(call[q]) /\ ~HasEntry(call[q])
      BY <2>5, <3>1, CallKinds
    <3>3. QED
      BY <2>4, <2>5, <3>1, <3>2 DEF CallOK, Creates, Deletes, Loaded, HasEntry
  <2>9. k \in ram'.imap /\ \A e, g \in Entries(k)' : e = g
    BY <1>10, <1>16, <2>1
  <2>10. ~(\A q \in CallsOn(k)' : ~Creates(call'[q])) /\ ~(\A q \in CallsOn(k)' : ~Changes(call'[q]))
    BY <1>14, <2>3, <2>6 DEF Changes
  <2>11. QED
    BY <2>3, <2>7, <2>8, <2>9, <2>10 DEF InodeOK
<1>19. IsCall(call'[p]) /\ IsFileOf(file'[p]) /\ IsDisk(disk')
  BY <1>1, <1>5, <1>11, <1>12, <1>14
<1>20. QED
  BY <1>10, <1>14, <1>15, <1>17, <1>18, <1>19, InodeStepKeeps

(* The end of file_create: the new inode has its one user.                 *)
LEMMA CreateDoneKeeps ==
  ASSUME BlocksOK, NEW p \in Task, CreateDone(p)
  PROVE  BlocksOK'
<1> DEFINE c == call[p]
           x == [ram.inode[c.ino] EXCEPT !.cnt = 1]
<1>1. c.op = "imap" /\ file' = file /\ disk' = SetDiskImap(disk, ram.imap)
  BY DEF CreateDone, At, SetDiskImap
<1>2. Becomes(p, Out(SetInode(ram, c.ino, x), NoCall, "none"))
  BY Zenon DEF CreateDone, SetInode
<1>3. /\ ram' = SetInode(ram, c.ino, x) /\ call'[p] = NoCall
      /\ DOMAIN call' = Task /\ \A q \in Task \ {p} : call'[q] = call[q]
  <2> HIDE DEF x
  <2>1. QED
    BY <1>2, BecomesIs, OutIs
<1>4. /\ IsRam(ram) /\ IsDisk(disk) /\ DOMAIN file = Task /\ DOMAIN call = Task
      /\ IsCall(c) /\ IsFileOf(file[p])
  BY ProcessTypes
<1>5. c.what = "create" /\ c.ino \in Ino
  BY <1>1, <1>4 DEF IsCall, IsWrite, IsRead, NoCall, Point
<1>6. PICK i \in Ino : i = c.ino
  BY <1>5
<1>7. /\ Users(i) = {p} /\ ram.inode[i].cnt = 0 /\ disk.inode[i] = ram.inode[i]
      /\ \A q \in CallsOn(i) : ~Deletes(call[q])
  <2>1. CallOK(i, p)
    BY <1>5, <1>6, OnOwn
  <2>2. QED
    BY <1>1, <1>5, <2>1 DEF CallOK, Creates
<1>8. IsInode(x) /\ x.cnt = 1 /\ Pure(x) = disk.inode[i]
  <2>1. PICK y : y = ram.inode[i]
    OBVIOUS
  <2>2. IsInode(y) /\ y.cnt = 0 /\ x = [y EXCEPT !.cnt = 1]
    BY <1>4, <1>6, <1>7, <2>1 DEF IsRam
  <2> HIDE DEF x
  <2>3. Pure(y) = y
    BY <2>2, PureInode
  <2>4. QED
    BY <1>7, <2>1, <2>2, <2>3, CntOfInode
<1> HIDE DEF x
<1>9. /\ IsRam(ram') /\ ram'.bmap = ram.bmap /\ ram'.imap = ram.imap
      /\ ram'.inode[i] = x /\ \A j \in Ino : j # i => ram'.inode[j] = ram.inode[j]
  BY <1>3, <1>4, <1>6, <1>8, InodeChanged
<1>10. /\ IsDisk(disk') /\ disk'.bmap = disk.bmap /\ disk'.imap = ram.imap
       /\ disk'.inode = disk.inode /\ disk'.entry = disk.entry
  BY <1>1, <1>4, DiskImapSet
<1>11. StepOf(p)
  BY <1>1, <1>3, <1>4 DEF StepOf
<1>12. BitsStep(p)
  BY <1>1, <1>9, <1>10 DEF BitsStep, Writes
<1>13. \A q \in CallsOn(i) \ {p} : ~Creates(call[q]) /\ ~Deletes(call[q])
  <2>1. p \in Users(i)
    BY <1>7
  <2>2. QED
    BY <2>1, OthersWithUser
<1>14. Users(i)' = {p}
  BY <1>1, <1>7 DEF Users
<1>15. ram'.inode[i].cnt = Cardinality(Users(i)')
  BY <1>8, <1>9, <1>14, FS_Singleton
<1>16. disk.inode[i] = Pure(ram'.inode[i])
  BY <1>8, <1>9
<1>17. i \in ram.imap /\ file[p].ino = i
  BY <1>7 DEF BlocksOK, InodeOK, Users
<1>18. file[p].ino \in {0, i} /\ file'[p].ino \in {0, i} /\ IsFileOf(file'[p])
  BY <1>1, <1>4, <1>17
<1>19. call[p].ino = i
  BY <1>6
<1> HIDE DEF c
<1>20. QED
  BY <1>3, <1>9, <1>10, <1>11, <1>12, <1>13, <1>15, <1>16, <1>17, <1>18, <1>19, UsersChange

(* inode_release goes on: a block or the number is given back, and the bit *)
(* is about to be written to the disk.                                     *)
IsRelease(c) ==
  {"op", "what", "ino", "bit", "todo"} \subseteq DOMAIN c /\ c.what = "unlink" /\ c.ino \in Ino

Frees(m, i, n, c) ==
  /\ IsRam(n) /\ n.inode = m.inode /\ IsCall(c)
  /\ c.what = "unlink" /\ c.ino = i /\ c.op \in {"free", "ifree"}
  /\ \A b \in Differ(n.bmap, m.bmap) : Writes(c, b)
  /\ n.imap = m.imap \/ (n.imap = m.imap \ {i} /\ c.op = "ifree")

LEMMA FreeNextIs ==
  ASSUME NEW m, IsRam(m), NEW c, IsRelease(c), NEW out, out = FreeNext(m, c)
  PROVE  Frees(m, c.ino, out.mem, out.c)
<1>1. CASE c.todo # <<>>
  <2> DEFINE b == Head(c.todo)
             n == SetBmap(m, m.bmap \ {b})
             d == [c EXCEPT !.op = "free", !.bit = b, !.todo = Tail(@)]
  <2>1. out = Out(n, d, "none")
    BY <1>1, Zenon DEF FreeNext, SetBmap
  <2>2. {"op", "what", "ino", "bit", "todo"} \subseteq DOMAIN d
        /\ d.op = "free" /\ d.what = "unlink" /\ d.ino = c.ino /\ d.bit = b
    <3> DEFINE t == Tail(c.todo)
    <3>1. d = [c EXCEPT !.op = "free", !.bit = b, !.todo = t]
      OBVIOUS
    <3> HIDE DEF b, t
    <3>2. QED
      BY <3>1 DEF IsRelease
  <2> HIDE DEF d, b
  <2>3. IsCall(d)
    BY <2>2 DEF IsCall, Point, IsRelease
  <2>4. IsRam(n) /\ n.bmap = m.bmap \ {b} /\ n.imap = m.imap /\ n.inode = m.inode
    <3>1. m.bmap \ {b} \subseteq Block
      BY DEF IsRam
    <3>2. QED
      BY <3>1, BmapChanged
  <2> HIDE DEF n
  <2>5. out.mem = n /\ out.c = d
    BY <2>1, OutIs
  <2>6. QED
    BY <2>2, <2>3, <2>4, <2>5 DEF Frees, Differ, Writes, SameSector
<1>2. CASE c.todo = <<>>
  <2> DEFINE n == SetImap(m, m.imap \ {c.ino})
             d == [op |-> "ifree", what |-> "unlink", ino |-> c.ino]
  <2>1. out = Out(n, d, "none")
    BY <1>2, Zenon DEF FreeNext, SetImap
  <2>2. IsCall(d) /\ d.op = "ifree" /\ d.what = "unlink" /\ d.ino = c.ino
    BY DEF IsCall, Point, IsRelease
  <2> HIDE DEF d
  <2>3. IsRam(n) /\ n.bmap = m.bmap /\ n.imap = m.imap \ {c.ino} /\ n.inode = m.inode
    <3>1. m.imap \ {c.ino} \subseteq Ino
      BY DEF IsRam
    <3>2. QED
      BY <3>1, ImapChanged
  <2> HIDE DEF n
  <2>4. out.mem = n /\ out.c = d
    BY <2>1, OutIs
  <2>5. QED
    BY <2>2, <2>3, <2>4 DEF Frees, Differ
<1>3. QED
  BY <1>1, <1>2

LEMMA ReleasingIs ==
  ASSUME NEW m, IsRam(m), NEW i \in Ino, NEW table, NEW out, out = Releasing(m, i, table)
  PROVE  Frees(m, i, out.mem, out.c)
<1>1. PICK todo : out = FreeNext(m, [op |-> "free", what |-> "unlink", ino |-> i, bit |-> 0,
                                     todo |-> todo])
  BY Zenon DEF Releasing
<1>2. PICK c : c = [op |-> "free", what |-> "unlink", ino |-> i, bit |-> 0, todo |-> todo]
  OBVIOUS
<1>3. IsRelease(c) /\ c.ino = i
  BY <1>2 DEF IsRelease
<1>4. out = FreeNext(m, c)
  BY <1>1, <1>2
<1>5. Frees(m, c.ino, out.mem, out.c)
  BY ONLY IsRam(m), <1>3, <1>4, FreeNextIs
<1>6. QED
  BY <1>3, <1>5

(* From the loading of the inode to the release of its number.             *)
LEMMA ReleaseKeeps ==
  ASSUME BlocksOK, NEW p \in Task, StepOf(p), BitsStep(p), file' = file, NEW i \in Ino,
         call[p].what = "unlink", call[p].ino = i,
         IsCall(call'[p]), call'[p].what = "unlink", call'[p].ino = i, Loaded(call'[p]),
         \A q \in CallsOn(i) : Loaded(call[q]) => q = p,
         IsRam(ram'), ram'.inode[i].cnt = 1,
         \A j \in Ino : j # i => ram'.inode[j] = ram.inode[j],
         IsDisk(disk'), disk'.inode = disk.inode, disk'.entry = disk.entry,
         ram'.imap = ram.imap \/ ram'.imap = ram.imap \ {i}
  PROVE  BlocksOK'
<1>1. IsCall(call[p]) /\ IsFileOf(file'[p])
  BY ProcessTypes
<1>2. \A j \in Ino : Entries(j)' = Entries(j) /\ Users(j)' = Users(j)
  BY DEF Entries, Users
<1>3. ASSUME NEW j \in Ino \ {i}
      PROVE  Untouched(p, j)
  <2>1. Elsewhere(call[p], j) /\ Elsewhere(call'[p], j)
    BY <1>3 DEF Elsewhere
  <2>2. QED
    BY <1>2, <1>3, <2>1 DEF Untouched, StepOf
<1>4. CallsOn(i)' = CallsOn(i) /\ p \in CallsOn(i) /\ \A q \in CallsOn(i) : q \in Task
  BY DEF CallsOn, StepOf
<1>5. Users(i) = {} /\ Entries(i) = {}
  <2>1. CallOK(i, p) /\ Deletes(call[p])
    BY <1>4 DEF BlocksOK, InodeOK, Deletes
  <2>2. ~HasEntry(call[p])
    BY <1>1 DEF HasEntry, IsCall, IsWrite, IsRead, NoCall, Point
  <2>3. QED
    BY <2>1, <2>2 DEF CallOK
<1>6. Deletes(call'[p]) /\ ~Creates(call'[p]) /\ ~HasEntry(call'[p])
      /\ call'[p].op \notin {"imap", "enread", "entry", "unentry"}
  BY DEF Deletes, Creates, HasEntry, Loaded
<1>7. ASSUME NEW q \in CallsOn(i)'
      PROVE  CallOK(i, q)'
  <2>1. CASE q = p
    <3>1. \A r \in CallsOn(i)' : Loaded(call'[r]) => r = p
      BY <1>4 DEF StepOf
    <3>2. QED
      BY <1>2, <1>5, <1>6, <2>1, <3>1 DEF CallOK
  <2>2. CASE q # p
    <3>1. /\ CallOK(i, q) /\ ~Creates(call[q]) /\ call[q].op # "imap"
          /\ call'[q] = call[q] /\ file'[q] = file[q] /\ ~Loaded(call[q])
      BY <1>4, <1>5, <2>2, OthersNoUser DEF StepOf
    <3>2. QED
      BY <1>2, <1>5, <3>1 DEF CallOK, Creates, Loaded
  <2>3. QED
    BY <2>1, <2>2
<1>8. InodeOK(i)'
  <2>1. ~(\A q \in CallsOn(i)' : ~Loaded(call'[q])) /\ ~(\A q \in CallsOn(i)' : ~Changes(call'[q]))
    BY <1>4, <1>6 DEF Changes
  <2>2. Users(i)' = {} /\ Entries(i)' = {}
    BY <1>2, <1>5
  <2>3. QED
    BY <1>7, <2>1, <2>2 DEF InodeOK
<1>9. QED
  BY <1>1, <1>3, <1>8, InodeStepKeeps

(* The bits after a step of inode_release that writes none to the disk.    *)
LEMMA FreesBits ==
  ASSUME BlocksOK, NEW p \in Task, NEW i, call[p].op \notin {"first", "bitmap", "free", "ifree"},
         ~Creates(call[p]), NEW m, m.bmap = ram.bmap, m.imap = ram.imap,
         Frees(m, i, ram', call'[p]), disk' = disk
  PROVE  BitsStep(p)
<1>1. ASSUME NEW b \in Differ(ram'.bmap, disk'.bmap)
      PROVE  \/ b \in Differ(ram.bmap, disk.bmap) /\ ~Writes(call[p], b)
             \/ Writes(call'[p], b)
  BY <1>1 DEF Frees, Differ, Writes
<1>2. ram'.imap # disk'.imap =>
        (ram.imap # disk.imap /\ ~Numbers(call[p])) \/ Numbers(call'[p])
  BY DEF Frees, Numbers
<1>3. QED
  BY <1>1, <1>2 DEF BitsStep

LEMMA ReleaseTableKeeps ==
  ASSUME BlocksOK, NEW p \in Task, ReleaseTable(p)
  PROVE  BlocksOK'
<1>1. call[p].op = "table" /\ disk' = disk /\ file' = file
  BY Zenon DEF ReleaseTable, At
<1>2. /\ IsRam(ram) /\ IsDisk(disk) /\ DOMAIN file = Task /\ IsCall(call[p])
  BY ProcessTypes
<1>3. call[p].what = "unlink" /\ call[p].ino \in Ino
  BY <1>1, <1>2 DEF IsCall, IsWrite, IsRead, NoCall, Point
<1>4. PICK i \in Ino : i = call[p].ino
  BY <1>3
<1>5. PICK table : Becomes(p, Releasing(ram, i, table))
  BY <1>4, Zenon DEF ReleaseTable
<1>6. PICK out : out = Releasing(ram, i, table)
  OBVIOUS
<1>7. /\ ram' = out.mem /\ call'[p] = out.c
      /\ DOMAIN call' = Task /\ \A q \in Task \ {p} : call'[q] = call[q]
  BY <1>5, <1>6, BecomesIs
<1>8. Frees(ram, i, ram', call'[p])
  BY <1>2, <1>6, <1>7, ReleasingIs
<1>9. StepOf(p)
  BY <1>1, <1>2, <1>7 DEF StepOf
<1>10. BitsStep(p)
  BY <1>1, <1>3, <1>8, FreesBits DEF Creates
<1>11. ram.inode[i].cnt = 1 /\ \A q \in CallsOn(i) : Loaded(call[q]) => q = p
  BY <1>1, <1>3, <1>4, OnOwn DEF CallOK, Loaded
<1>12. Loaded(call'[p])
  BY <1>8 DEF Frees, Loaded
<1>13. QED
  BY <1>1, <1>2, <1>3, <1>4, <1>8, <1>9, <1>10, <1>11, <1>12, ReleaseKeeps DEF Frees

LEMMA BlockReleasedKeeps ==
  ASSUME BlocksOK, NEW p \in Task, BlockReleased(p)
  PROVE  BlocksOK'
<1> DEFINE c == call[p]
           bits_on_disk == bitmap_sync(ram.bmap, disk.bmap, c.bit)
<1>1. c.op = "free" /\ disk' = SetDiskBmap(disk, bits_on_disk) /\ file' = file
      /\ Becomes(p, FreeNext(ram, c))
  BY DEF BlockReleased, At, SetDiskBmap
<1>2. /\ IsRam(ram) /\ IsDisk(disk) /\ DOMAIN file = Task /\ IsCall(c)
  BY ProcessTypes
<1>3. c.what = "unlink" /\ c.ino \in Ino /\ IsRelease(c)
  BY <1>1, <1>2 DEF IsCall, IsWrite, IsRead, NoCall, Point, IsRelease
<1>4. PICK i \in Ino : i = c.ino
  BY <1>3
<1>5. PICK out : out = FreeNext(ram, c)
  OBVIOUS
<1>6. /\ ram' = out.mem /\ call'[p] = out.c
      /\ DOMAIN call' = Task /\ \A q \in Task \ {p} : call'[q] = call[q]
  BY <1>1, <1>5, BecomesIs
<1>7. Frees(ram, i, ram', call'[p])
  BY <1>2, <1>3, <1>4, <1>5, <1>6, FreeNextIs
<1> HIDE DEF bits_on_disk
<1>8. /\ IsDisk(disk') /\ disk'.bmap = bits_on_disk /\ disk'.imap = disk.imap
      /\ disk'.inode = disk.inode /\ disk'.entry = disk.entry
  BY <1>1, <1>2, DiskBmapSet
<1>9. StepOf(p)
  BY <1>1, <1>2, <1>6 DEF StepOf
<1>10. BitsStep(p)
  <2>1. ASSUME NEW b \in Differ(ram'.bmap, disk'.bmap)
        PROVE  \/ b \in Differ(ram.bmap, disk.bmap) /\ ~Writes(call[p], b)
               \/ Writes(call'[p], b)
    <3>1. CASE b \in Differ(ram'.bmap, ram.bmap)
      BY <1>7, <3>1 DEF Frees
    <3>2. CASE b \notin Differ(ram'.bmap, ram.bmap)
      <4>1. b \in Differ(ram.bmap, disk'.bmap)
        BY <2>1, <3>2 DEF Differ
      <4>2. QED
        BY <1>8, <4>1 DEF Writes, Differ, bitmap_sync, bits_on_disk
    <3>3. QED
      BY <3>1, <3>2
  <2>2. ram'.imap # disk'.imap =>
          (ram.imap # disk.imap /\ ~Numbers(call[p])) \/ Numbers(call'[p])
    BY <1>1, <1>3, <1>7, <1>8 DEF Frees, Numbers, Creates
  <2>3. QED
    BY <2>1, <2>2 DEF BitsStep
<1>11. ram.inode[i].cnt = 1 /\ \A q \in CallsOn(i) : Loaded(call[q]) => q = p
  BY <1>1, <1>3, <1>4, OnOwn DEF CallOK, Loaded
<1>12. Loaded(call'[p])
  BY <1>7 DEF Frees, Loaded
<1>13. QED
  BY <1>1, <1>3, <1>4, <1>7, <1>8, <1>9, <1>10, <1>11, <1>12, ReleaseKeeps DEF Frees

(* inode_open has read the inode for inode_release.                        *)
LEMMA UnlinkReadKeeps ==
  ASSUME BlocksOK, mishap' = "none", NEW p \in Task, InodeRead(p), call[p].what = "unlink"
  PROVE  BlocksOK'
<1> DEFINE c == call[p]
           x == [disk.inode[c.ino] EXCEPT !.cnt = 1]
           m == [ram EXCEPT !.inode[c.ino] = x]
           copies == ram.inode[c.ino].cnt > 0 \/ InUse(c.ino)
           d == [op |-> "table", what |-> "unlink", ino |-> c.ino]
           out == IF copies THEN Out(m, c, "unlinked")
                  ELSE IF m.inode[c.ino].sect[Direct] # 0 THEN Out(m, d, "none")
                  ELSE Releasing(m, c.ino, <<>>)
<1>1. c.op = "load" /\ disk' = disk
  BY Zenon DEF InodeRead, At
<1>2. Becomes(p, out) /\ file' = file
  <2>1. c.what # "open"
    OBVIOUS
  <2>2. QED
    BY <2>1, Zenon DEF InodeRead
<1>3. m = SetInode(ram, c.ino, x)
  BY Zenon DEF SetInode
<1> HIDE DEF m, out
<1>4. /\ ram' = out.mem /\ call'[p] = out.c /\ mishap' = out.mishap
      /\ DOMAIN call' = Task /\ \A q \in Task \ {p} : call'[q] = call[q]
  BY <1>2, BecomesIs
<1>5. ~copies
  <2>1. ASSUME copies
        PROVE  out = Out(m, c, "unlinked")
    BY <2>1 DEF out
  <2> HIDE DEF copies
  <2>2. QED
    BY <1>4, <2>1, OutIs
<1>6. /\ IsRam(ram) /\ IsDisk(disk) /\ DOMAIN file = Task
      /\ c.ino \in Ino /\ CallOK(c.ino, p)
  BY ProcessTypes, OnOwn
<1>7. PICK i \in Ino : i = c.ino
  BY <1>6
<1>8. IsInode(x) /\ x.cnt = 1
  <2>1. PICK y : y = disk.inode[i]
    OBVIOUS
  <2>2. IsInode(y) /\ x = [y EXCEPT !.cnt = 1]
    BY <1>6, <1>7, <2>1 DEF IsDisk
  <2> HIDE DEF x
  <2>3. QED
    BY <2>2, CntOfInode
<1> HIDE DEF x
<1>9. /\ IsRam(m) /\ m.bmap = ram.bmap /\ m.imap = ram.imap
      /\ m.inode[i] = x /\ \A j \in Ino : j # i => m.inode[j] = ram.inode[j]
  BY <1>3, <1>6, <1>7, <1>8, InodeChanged
<1>10. StepOf(p)
  BY <1>2, <1>4, <1>6 DEF StepOf
<1>11. \A q \in CallsOn(i) : ~Loaded(call[q])
  <2>1. ram.inode[i].cnt # 1
    BY <1>5, <1>7
  <2>2. QED
    BY <2>1 DEF BlocksOK, InodeOK, CallOK
<1>12. call[p].op = "load" /\ ~Creates(call[p]) /\ call[p].ino = i
  BY <1>1, <1>7 DEF Creates
<1>13. CASE out = Out(m, d, "none")
  <2>1. IsCall(d) /\ d.op = "table" /\ d.what = "unlink" /\ d.ino = i
    BY <1>7 DEF IsCall, Point
  <2> HIDE DEF d
  <2>2. ram' = m /\ call'[p] = d
    BY <1>4, <1>13, OutIs
  <2>3. BitsStep(p)
    BY <1>1, <1>9, <1>12, <2>2, BitsSame DEF Numbers
  <2>4. Loaded(call'[p])
    BY <2>1, <2>2 DEF Loaded
  <2> HIDE DEF c, copies
  <2>5. QED
    BY <1>1, <1>2, <1>6, <1>8, <1>9, <1>10, <1>11, <1>12, <2>1, <2>2, <2>3, <2>4, ReleaseKeeps
<1>14. CASE out = Releasing(m, c.ino, <<>>)
  <2>1. PICK r : r = Releasing(m, i, <<>>)
    OBVIOUS
  <2>2. out = r
    BY <1>7, <1>14, <2>1
  <2>3. Frees(m, i, ram', call'[p])
    BY <1>4, <1>9, <2>1, <2>2, ReleasingIs
  <2>4. BitsStep(p)
    BY <1>1, <1>9, <1>12, <2>3, FreesBits
  <2>5. Loaded(call'[p])
    BY <2>3 DEF Frees, Loaded
  <2>6. /\ IsRam(ram') /\ ram'.inode = m.inode /\ IsCall(call'[p])
        /\ call'[p].what = "unlink" /\ call'[p].ino = i
        /\ ram'.imap = ram.imap \/ ram'.imap = ram.imap \ {i}
    BY <1>9, <2>3 DEF Frees
  <2> HIDE DEF c, copies
  <2>7. QED
    BY <1>1, <1>2, <1>6, <1>8, <1>9, <1>10, <1>11, <1>12, <2>4, <2>5, <2>6, ReleaseKeeps
<1>15. QED
  BY <1>5, <1>13, <1>14 DEF out

LEMMA InodeReadKeeps ==
  ASSUME BlocksOK, mishap' = "none", NEW p \in Task, InodeRead(p)
  PROVE  BlocksOK'
<1>1. call[p].what \in {"open", "unlink"}
  BY Zenon DEF InodeRead
<1>2. QED
  BY <1>1, OpenReadKeeps, UnlinkReadKeeps

LEMMA SectorWrittenKeeps ==
  ASSUME BlocksOK, mishap' = "none", NEW p \in Task, SectorWritten(p)
  PROVE  BlocksOK'
<1>1. call[p].what \in {"write", "parent", "create", "deparent", "delete"}
  BY SectorWrittenIs
<1>2. QED
  BY <1>1, WriteSyncedKeeps, SyncedKeeps, DeletedKeeps

-----------------------------------------------------------------------------
LEMMA BlocksInitOK ==
  BlocksInit => BlocksInv
<1> SUFFICES ASSUME BlocksInit
             PROVE  BlocksOK
  BY DEF BlocksInv
<1>1. 0 \notin Ino
  BY BlocksAssumption
<1>2. \A p \in Task : call[p] = NoCall /\ file[p] = NoFile
  BY DEF BlocksInit
<1>3. /\ ram = [bmap |-> {}, imap |-> {}, inode |-> [i \in Ino \cup {0} |-> NewInode]]
      /\ disk = [bmap |-> {}, imap |-> {}, inode |-> [i \in Ino \cup {0} |-> NewInode],
                 blk |-> [b \in Block \cup {0} |-> NoSector], entry |-> {}]
  BY Zenon DEF BlocksInit
<1>4. BlocksTypes
  <2>1. IsRam(ram)
    BY <1>3, NewInodeIs DEF IsRam
  <2>2. IsDisk(disk)
    BY <1>3, NewInodeIs DEF IsDisk
  <2>3. QED
    BY <1>2, <2>1, <2>2 DEF BlocksTypes, IsCall, IsFileOf, BlocksInit
<1>5. BitmapsOK
  BY <1>3 DEF BitmapsOK, Differ
<1>6. ASSUME NEW i \in Ino
      PROVE  InodeOK(i)
  <2>1. Users(i) = {} /\ CallsOn(i) = {} /\ Entries(i) = {}
    BY <1>1, <1>2, <1>3 DEF Users, CallsOn, Entries, NoCall, NoFile
  <2>2. ram.inode[i].cnt = 0
    BY <1>3, NewInodeIs
  <2>3. QED
    BY <2>1, <2>2, FS_EmptySet DEF InodeOK
<1>7. QED
  BY <1>4, <1>5, <1>6 DEF BlocksOK

LEMMA BlocksStepOK ==
  BlocksInv /\ [BlocksNext]_blocks_vars => BlocksInv'
<1> SUFFICES ASSUME BlocksInv, [BlocksNext]_blocks_vars, mishap' = "none"
             PROVE  BlocksOK'
  BY DEF BlocksInv
<1>1. CASE UNCHANGED blocks_vars
  <2>1. BlocksOK
    BY <1>1 DEF BlocksInv, blocks_vars
  <2>2. ram' = ram /\ disk' = disk /\ file' = file /\ call' = call
    BY <1>1 DEF blocks_vars
  <2>3. BlocksTypes'
    BY <2>1, <2>2 DEF BlocksOK, BlocksTypes
  <2>4. BitmapsOK'
    BY <2>1, <2>2 DEF BlocksOK, BitmapsOK, Pending
  <2>5. ASSUME NEW i \in Ino
        PROVE  InodeOK(i)'
    <3>1. /\ Users(i)' = Users(i) /\ Entries(i)' = Entries(i) /\ CallsOn(i)' = CallsOn(i)
          /\ InodeOK(i)
      BY <2>1, <2>2 DEF BlocksOK, Users, Entries, CallsOn
    <3>2. \A p \in CallsOn(i) : CallOK(i, p)'
      BY <2>2, <3>1 DEF InodeOK, CallOK
    <3>3. QED
      BY <2>2, <3>1, <3>2 DEF InodeOK
  <2>6. QED
    BY <2>3, <2>4, <2>5 DEF BlocksOK
<1>2. CASE BlocksNext
  <2>1. PICK p \in Task :
          \/ \E name \in Name : file_create(p, name)
          \/ \E name \in Name : \/ sys_unlink(p, name)
                                \/ \E wr \in BOOLEAN : file_open(p, name, wr)
          \/ (\E n \in WriteCounts : file_write(p, n)) \/ (\E n \in ReadCounts : file_read(p, n))
          \/ \E pos \in Seeks : sys_lseek(p, pos)
          \/ sys_close(p)
          \/ BitSynced(p) \/ GetTable(p) \/ PutTable(p) \/ WriteChunk(p)
          \/ SectorRead(p) \/ SectorWritten(p)
          \/ ReadTable(p) \/ ReadChunk(p) \/ ReadDone(p)
          \/ EntryRead(p) \/ EntryWritten(p) \/ CreateDone(p) \/ InodeRead(p)
          \/ ReleaseTable(p) \/ BlockReleased(p) \/ NumberReleased(p)
    BY <1>2, Zenon DEF BlocksNext
  <2>2. mishap = "none"
    <3>1. CASE \E name \in Name : file_create(p, name)
      BY <3>1, Zenon DEF file_create, Idle
    <3>2. CASE \E name \in Name : sys_unlink(p, name)
      BY <3>2, Zenon DEF sys_unlink, Idle
    <3>3. CASE \E name \in Name : \E wr \in BOOLEAN : file_open(p, name, wr)
      BY <3>3, Zenon DEF file_open, Idle
    <3>4. CASE \E n \in WriteCounts : file_write(p, n)
      BY <3>4, Zenon DEF file_write, Idle
    <3>5. CASE \E n \in ReadCounts : file_read(p, n)
      BY <3>5, Zenon DEF file_read, Idle
    <3>6. CASE \E pos \in Seeks : sys_lseek(p, pos)
      BY <3>6, Zenon DEF sys_lseek, Idle
    <3>7. CASE sys_close(p)
      BY <3>7, Zenon DEF sys_close, Idle
    <3>8. CASE BitSynced(p) \/ GetTable(p) \/ PutTable(p) \/ WriteChunk(p)
      BY <3>8, Zenon DEF BitSynced, GetTable, PutTable, WriteChunk, At
    <3>9. CASE SectorRead(p) \/ SectorWritten(p)
      BY <3>9, Zenon DEF SectorRead, SectorWritten, At
    <3>10. CASE ReadTable(p) \/ ReadChunk(p) \/ ReadDone(p)
      BY <3>10, Zenon DEF ReadTable, ReadChunk, ReadDone, At
    <3>11. CASE EntryRead(p) \/ EntryWritten(p) \/ CreateDone(p) \/ InodeRead(p)
      BY <3>11, Zenon DEF EntryRead, EntryWritten, CreateDone, InodeRead, At
    <3>12. CASE ReleaseTable(p) \/ BlockReleased(p) \/ NumberReleased(p)
      BY <3>12, Zenon DEF ReleaseTable, BlockReleased, NumberReleased, At
    <3>13. QED
      BY <2>1, <3>1, <3>2, <3>3, <3>4, <3>5, <3>6, <3>7, <3>8, <3>9, <3>10, <3>11, <3>12, Zenon
  <2>3. BlocksOK
    BY <2>2 DEF BlocksInv
  <2>4. CASE \E name \in Name : file_create(p, name)
    BY <2>3, <2>4, FileCreateKeeps
  <2>5. CASE \E name \in Name : sys_unlink(p, name)
    BY <2>3, <2>5, UnlinkKeeps
  <2>6. CASE \E name \in Name : \E wr \in BOOLEAN : file_open(p, name, wr)
    BY <2>3, <2>6, FileOpenKeeps
  <2>7. CASE \E n \in WriteCounts : file_write(p, n)
    BY <2>3, <2>7, FileWriteKeeps
  <2>8. CASE \E n \in ReadCounts : file_read(p, n)
    BY <2>3, <2>8, FileReadKeeps
  <2>9. CASE \E pos \in Seeks : sys_lseek(p, pos)
    BY <2>3, <2>9, LseekKeeps
  <2>10. CASE sys_close(p)
    BY <2>3, <2>10, CloseKeeps
  <2>11. CASE BitSynced(p)
    BY <2>3, <2>11, BitSyncedKeeps
  <2>12. CASE GetTable(p)
    BY <2>3, <2>12, GetTableKeeps
  <2>13. CASE PutTable(p)
    BY <2>3, <2>13, PutTableKeeps
  <2>14. CASE WriteChunk(p)
    BY <2>3, <2>14, WriteChunkKeeps
  <2>15. CASE SectorRead(p)
    BY <2>3, <2>15, SectorReadKeeps
  <2>16. CASE SectorWritten(p)
    BY <2>3, <2>16, SectorWrittenKeeps
  <2>17. CASE ReadTable(p)
    BY <2>3, <2>17, ReadTableKeeps
  <2>18. CASE ReadChunk(p)
    BY <2>3, <2>18, ReadChunkKeeps
  <2>19. CASE ReadDone(p)
    BY <2>3, <2>19, ReadDoneKeeps
  <2>20. CASE EntryRead(p)
    BY <2>3, <2>20, EntryReadKeeps
  <2>21. CASE EntryWritten(p)
    BY <2>3, <2>21, EntryWrittenKeeps
  <2>22. CASE CreateDone(p)
    BY <2>3, <2>22, CreateDoneKeeps
  <2>23. CASE InodeRead(p)
    BY <2>3, <2>23, InodeReadKeeps
  <2>24. CASE ReleaseTable(p)
    BY <2>3, <2>24, ReleaseTableKeeps
  <2>25. CASE BlockReleased(p)
    BY <2>3, <2>25, BlockReleasedKeeps
  <2>26. CASE NumberReleased(p)
    BY <2>3, <2>26, NumberReleasedKeeps
  <2>27. QED
    BY <2>1, <2>4, <2>5, <2>6, <2>7, <2>8, <2>9, <2>10, <2>11, <2>12, <2>13, <2>14, <2>15,
       <2>16, <2>17, <2>18, <2>19, <2>20, <2>21, <2>22, <2>23, <2>24, <2>25, <2>26, Zenon
<1>3. QED
  BY <1>1, <1>2

(* In every state before a mishap, i_open_cnts is the number of files that *)
(* processes have open, a file that is created or deleted is in no other   *)
(* process's hands, and what memory and disk have differently is what some *)
(* call under way is about to write.                                       *)
THEOREM BlocksInvariant == BlocksSpec => []BlocksInv
<1>1. BlocksInit => BlocksInv
  BY BlocksInitOK
<1>2. BlocksInv /\ [BlocksNext]_blocks_vars => BlocksInv'
  BY BlocksStepOK
<1>3. QED
  BY <1>1, <1>2, PTL DEF BlocksSpec

(* What file_write, file_create and inode_release changed is on the disk   *)
(* when the call returns, up to the first mishap, of which the store of an *)
(* inode whose number inode_sync cuts is one: the bitmaps when no call is  *)
(* under way, and the inode of an open file when none is under way on it.  *)
THEOREM DisksAreUpToDate == BlocksSpec => []DiskUpToDate
<1>1. BlocksInv => DiskUpToDate
  <2> SUFFICES ASSUME BlocksOK
               PROVE  /\ (\A p \in Task : call[p] = NoCall) =>
                           disk.bmap = ram.bmap /\ disk.imap = ram.imap
                      /\ \A i \in Ino :
                           ram.inode[i].cnt > 0
                             /\ (\A p \in Task : call[p] # NoCall => call[p].ino # i)
                           => disk.inode[i] = [ram.inode[i] EXCEPT !.cnt = 0]
    BY DEF BlocksInv, DiskUpToDate
  <2>1. ASSUME \A p \in Task : call[p] = NoCall
        PROVE  disk.bmap = ram.bmap /\ disk.imap = ram.imap
    <3>1. \A p \in Task : call[p].op = "none" /\ call[p].what = "none"
      BY <2>1 DEF NoCall
    <3>2. \A b : ~Pending(b)
      BY <3>1 DEF Pending
    <3>3. \A p \in Task : ~Creates(call[p]) /\ call[p].op # "ifree"
      BY <3>1 DEF Creates
    <3>4. Differ(ram.bmap, disk.bmap) = {} /\ ram.imap = disk.imap
      BY <3>2, <3>3 DEF BlocksOK, BitmapsOK
    <3>5. QED
      BY <3>4 DEF Differ
  <2>2. ASSUME NEW i \in Ino, ram.inode[i].cnt > 0,
               \A p \in Task : call[p] # NoCall => call[p].ino # i
        PROVE  disk.inode[i] = Pure(ram.inode[i])
    <3>1. CallsOn(i) = {}
      BY <2>2 DEF CallsOn, NoCall
    <3>2. QED
      BY <2>2, <3>1 DEF BlocksOK, InodeOK
  <2>3. QED
    BY <2>1, <2>2 DEF Pure
<1>2. QED
  BY <1>1, BlocksInvariant, PTL
=============================================================================
