-------------------------- MODULE FileTableProofs ---------------------------
(***************************************************************************)
(* For any number of processes, entries, descriptors and inodes: no entry  *)
(* points to an inode that has been freed, and as long as no entry was     *)
(* picked by two calls and no file shared through fork, all counts are     *)
(* exact.                                                                  *)
(*                                                                         *)
(* The loops of fork and exit go through a descriptor table; the invariant *)
(* is therefore stated of a record of files, descriptor tables and calls   *)
(* under way that are its parameters, and holds after each of their        *)
(* rounds.                                                                 *)
(***************************************************************************)
EXTENDS FileTable, FiniteSetTheorems, WellFoundedInduction, TLAPS

(* What files, a descriptor table and a call under way consist of.         *)
InodeRec == [i_no : File \cup {NULL}, cnt : 0 .. CntMod - 1, write_deny : BOOLEAN]

EntryRec == [inode : Inode \cup {NULL, PipePage}, pos : 0 .. CntMod - 1,
             flag : Flag \cup {"PIPE_FLAG", "none"}]

FilesType == [table : [Slot -> EntryRec], inode : [Inode -> InodeRec],
              open : Seq(Inode), fault : BOOLEAN]

TableType == {t \in [0 .. MAX_FILES_OPEN_PER_PROC - 1 -> -1 .. MAX_FILE_OPEN - 1] :
                \A fd \in Fd : t[fd] \in Slot \cup {-1}}

Loading == {"open", "load"}
Creating == {"create", "created"}
Releasing == {"release", "close"}

CallType ==
  {c \in [op : {"none", "unlink"} \cup Loading \cup Creating \cup Releasing,
          slot : Slot \cup {0}, ino : Inode \cup {NULL}, file : File \cup {NULL},
          flag : Flag \cup {"none"}] :
     /\ c.op \in Loading \cup Creating \cup Releasing => c.ino \in Inode
     /\ c.op \in {"open"} \cup Creating => c.slot \in Slot /\ c.flag \in Flag
     /\ c.op # "none" => c.file \in File
     /\ c.op \in {"none", "unlink"} => c.ino = NULL}

(* The list of open inodes has none twice, and only counted ones.          *)
ListOK(m) ==
  /\ \A j, k \in DOMAIN m.open : m.open[j] = m.open[k] => j = k
  /\ \A k \in DOMAIN m.open : m.inode[m.open[k]].cnt >= 1

EntriesOf(m, i) == {s \in Slot : m.table[s].inode = i}
ReleasersOf(b, i) == {p \in Proc : b[p].op \in Releasing /\ b[p].ino = i}
Made(b, i) == \E p \in Proc : b[p].op \in Creating /\ b[p].ino = i
Uses(m, b, i) == Cardinality(EntriesOf(m, i)) + Cardinality(ReleasersOf(b, i))

(* An inode that is being read or made belongs to that call alone.         *)
CallOK(m, b, p) ==
  b[p].op \in Loading \cup Creating =>
    /\ \A q \in Proc \ {p} : b[q].ino # b[p].ino
    /\ \A k \in DOMAIN m.open : m.open[k] # b[p].ino
    /\ b[p].op \in Loading => m.inode[b[p].ino] = NoInode
    /\ \A s \in Slot : m.table[s].inode = b[p].ino => b[p].op \in Creating /\ s = b[p].slot

CallsOK(m, b) == \A p \in Proc : CallOK(m, b, p)

(* An inode is counted at least once for each entry and each unlink.       *)
HeldOK(m, b) == \A i \in Inode : ~Made(b, i) => m.inode[i].cnt >= Uses(m, b, i)

RefsTo(fds, s) == {pf \in Proc \X Fd : fds[pf[1]][pf[2]] = s}

(* What apart adds: about the inodes, an entry, and a call under way.      *)
CountOK(m, b) == \A i \in Inode : ~Made(b, i) => m.inode[i].cnt = Uses(m, b, i)

EntryOK(m, fds, lst, s) ==
  /\ m.table[s].inode = PipePage =>
       /\ m.table[s].flag = "PIPE_FLAG"
       /\ m.table[s].pos = Cardinality(RefsTo(fds, s)) + lst[s]
  /\ m.table[s].inode = NULL => RefsTo(fds, s) = {}
  /\ m.table[s].inode \in Inode =>
       m.table[s].flag # "PIPE_FLAG" /\ \A x, y \in RefsTo(fds, s) : x = y

PickOK(m, fds, b, p) ==
  /\ b[p].op = "open" =>
       /\ m.table[b[p].slot].inode = NULL
       /\ \A q \in Proc \ {p} : b[q].op = "open" => b[q].slot # b[p].slot
  /\ b[p].op \in Creating =>
       m.table[b[p].slot].inode = b[p].ino /\ RefsTo(fds, b[p].slot) = {}

ExactOK(m, fds, b, lst) ==
  /\ CountOK(m, b)
  /\ \A s \in Slot : EntryOK(m, fds, lst, s)
  /\ \A p \in Proc : PickOK(m, fds, b, p)

(* A process that has not been born or has exited has nothing open.        *)
DeadOK(fds, liv, b) ==
  \A p \in Proc \ liv : b[p] = NotBusy /\ \A fd \in Fd : fds[p][fd] = -1

Types ==
  /\ files \in FilesType /\ fd_table \in [Proc -> TableType] /\ busy \in [Proc -> CallType]
  /\ live \subseteq Proc /\ exists \subseteq File /\ inode_bitmap \subseteq File
  /\ lost \in [Slot -> Nat] /\ apart \in BOOLEAN

Sound(m, fds, b, lst, ap) ==
  /\ ListOK(m) /\ CallsOK(m, b) /\ HeldOK(m, b)
  /\ ap => ExactOK(m, fds, b, lst)

FilesInv ==
  /\ Types /\ DeadOK(fd_table, live, busy)
  /\ Sound(files, fd_table, busy, lost, apart)

-----------------------------------------------------------------------------
(* A non-empty set of naturals has a least element.                        *)
LEMMA LeastNat ==
  ASSUME NEW S \in SUBSET Nat, S # {}
  PROVE  \E m \in S : \A n \in S : m <= n
<1> DEFINE T == {0 .. n : n \in S}
<1>1. T \subseteq FiniteSubsetsOf(Nat) /\ T # {}
  <2>1. \A n \in S : 0 .. n \in FiniteSubsetsOf(Nat)
    BY FS_Interval DEF FiniteSubsetsOf
  <2>2. QED
    BY <2>1
<1>2. IsWellFoundedOn(StrictSubsetOrdering(Nat), FiniteSubsetsOf(Nat))
  BY FS_StrictSubsetOrderingWellFounded
<1>3. PICK x \in T : \A y \in T : ~(<<y, x>> \in StrictSubsetOrdering(Nat))
  <2> HIDE DEF T
  <2>1. QED
    BY <1>1, <1>2, WFMin
<1>4. PICK m \in S : x = 0 .. m
  BY <1>3
<1>5. ASSUME NEW n \in S, n < m
      PROVE  FALSE
  <2>1. /\ 0 .. n \subseteq 0 .. m /\ 0 .. n # 0 .. m
        /\ 0 .. n \in SUBSET Nat /\ 0 .. m \in SUBSET Nat
    <3>1. m \in 0 .. m /\ m \notin 0 .. n
      BY <1>5
    <3>2. QED
      BY <1>5, <3>1
  <2>2. <<0 .. n, 0 .. m>> \in StrictSubsetOrdering(Nat)
    BY <2>1 DEF StrictSubsetOrdering
  <2>3. QED
    BY <1>3, <1>4, <2>2
<1>6. QED
  BY <1>5

LEMMA LeastIs ==
  ASSUME NEW S \in SUBSET Nat, S # {}
  PROVE  Least(S) \in S
BY LeastNat DEF Least

(* A loop over the descriptors exists as a function of the descriptor,     *)
(* however many there are: the shortest one that did not could be extended *)
(* from the one before it.                                                 *)
LEMMA LoopExists ==
  ASSUME NEW base \in FilesType, NEW hi \in Nat, hi >= 2,
         NEW step \in [3 .. hi -> [FilesType -> FilesType]]
  PROVE  \E f \in [2 .. hi -> FilesType] :
           f[2] = base /\ \A k \in 3 .. hi : f[k] = step[k][f[k - 1]]
<1> DEFINE Loop(f, n) == /\ f \in [2 .. n -> FilesType] /\ f[2] = base
                         /\ \A k \in 3 .. n : f[k] = step[k][f[k - 1]]
           S == {n \in 2 .. hi : ~\E f : Loop(f, n)}
<1>1. ASSUME S # {}
      PROVE  FALSE
  <2>1. S \in SUBSET Nat
    OBVIOUS
  <2>2. PICK n \in S : \A k \in S : n <= k
    BY <1>1, <2>1, LeastNat
  <2>3. n \in 2 .. hi /\ ~\E f : Loop(f, n)
    BY <2>2
  <2>4. n # 2
    <3>1. Loop([k \in 2 .. 2 |-> base], 2)
      OBVIOUS
    <3>2. QED
      BY <2>3, <3>1
  <2>5. n - 1 \in 2 .. hi /\ n \in 3 .. hi
    BY <2>3, <2>4
  <2>6. PICK f : Loop(f, n - 1)
    <3>1. n - 1 \notin S
      <4> HIDE DEF S
      <4>1. QED
        BY <2>2, <2>5
    <3> HIDE DEF Loop
    <3>2. QED
      BY <2>5, <3>1
  <2> DEFINE g == [k \in 2 .. n |-> IF k = n THEN step[n][f[n - 1]] ELSE f[k]]
  <2>7. Loop(g, n)
    <3>1. f \in [2 .. n - 1 -> FilesType] /\ f[n - 1] \in FilesType /\ f[2] = base
      BY <2>5, <2>6
    <3>2. step[n][f[n - 1]] \in FilesType
      <4>1. step[n] \in [FilesType -> FilesType]
        BY <2>5
      <4>2. QED
        BY <3>1, <4>1
    <3>3. g \in [2 .. n -> FilesType] /\ g[2] = base
      BY <2>3, <2>4, <3>1, <3>2
    <3>4. ASSUME NEW k \in 3 .. n
          PROVE  g[k] = step[k][g[k - 1]]
      <4>1. k - 1 \in 2 .. n /\ k - 1 # n /\ g[k - 1] = f[k - 1]
        BY <2>3, <3>4
      <4>2. k # n => k \in 3 .. n - 1 /\ g[k] = f[k]
        BY <2>3, <3>4
      <4>3. k # n => f[k] = step[k][f[k - 1]]
        BY <2>6, <4>2
      <4>4. k = n => g[k] = step[n][f[n - 1]]
        BY <2>3
      <4>5. QED
        BY <4>1, <4>2, <4>3, <4>4
    <3>5. QED
      BY <3>3, <3>4
  <2> HIDE DEF g, Loop
  <2>8. QED
    BY <2>3, <2>7
<1>2. hi \in 2 .. hi
  OBVIOUS
<1>3. \E f : Loop(f, hi)
  <2>1. hi \notin S
    <3> HIDE DEF S
    <3>1. QED
      BY <1>1
  <2>2. QED
    BY <1>2, <2>1
<1>4. QED
  BY <1>3

LEMMA Sizes ==
  /\ MAX_FILES_OPEN_PER_PROC - 1 \in Nat /\ MAX_FILES_OPEN_PER_PROC - 1 >= 3
  /\ Fd = 3 .. MAX_FILES_OPEN_PER_PROC - 1
  /\ MAX_FILE_OPEN - 1 \in Nat /\ MAX_FILE_OPEN - 1 >= 2
  /\ CntMod \in Nat /\ CntMod > 2 /\ Slot \in SUBSET Nat /\ Fd \in SUBSET Nat /\ Inode \in SUBSET Nat
  /\ 0 \notin Inode /\ -1 \notin Inode /\ 0 \notin Slot /\ -1 \notin Slot
BY FileAssumption DEF Fd, Slot, Inode

(* The rounds of a loop over the open descriptors of t, each doing act.    *)
LEMMA RoundsExist ==
  ASSUME files \in FilesType, NEW t \in TableType,
         NEW act \in [Slot -> [FilesType -> FilesType]]
  PROVE  \E c \in [2 .. MAX_FILES_OPEN_PER_PROC - 1 -> FilesType] :
           /\ c[2] = files
           /\ \A fd \in Fd : c[fd] = IF t[fd] = -1 THEN c[fd - 1] ELSE act[t[fd]][c[fd - 1]]
<1> DEFINE hi == MAX_FILES_OPEN_PER_PROC - 1
           step == [k \in 3 .. hi |-> [m \in FilesType |->
                      IF t[k] = -1 THEN m ELSE act[t[k]][m]]]
<1>1. hi \in Nat /\ hi >= 3 /\ Fd = 3 .. hi
  BY Sizes
<1>2. \A fd \in 3 .. hi : t[fd] \in Slot \cup {-1}
  BY <1>1 DEF TableType
<1> HIDE DEF hi
<1>3. step \in [3 .. hi -> [FilesType -> FilesType]]
  BY <1>2
<1>4. \A k \in 3 .. hi, m \in FilesType : step[k][m] = IF t[k] = -1 THEN m ELSE act[t[k]][m]
  OBVIOUS
<1> HIDE DEF step
<1>5. PICK f \in [2 .. hi -> FilesType] :
        f[2] = files /\ \A k \in 3 .. hi : f[k] = step[k][f[k - 1]]
  <2>1. hi \in Nat /\ hi >= 2 /\ files \in FilesType
    BY <1>1
  <2>2. QED
    BY ONLY <1>3, <2>1, LoopExists
<1>6. ASSUME NEW k \in 3 .. hi
      PROVE  f[k] = IF t[k] = -1 THEN f[k - 1] ELSE act[t[k]][f[k - 1]]
  <2>1. k - 1 \in 2 .. hi /\ f[k - 1] \in FilesType
    BY <1>1, <1>5, <1>6
  <2>2. QED
    BY <1>4, <1>5, <2>1
<1>7. QED
  BY <1>1, <1>5, <1>6 DEF hi

LEMMA ClosedRounds ==
  ASSUME files \in FilesType, NEW t \in TableType,
         \A m \in FilesType, s \in Slot : CloseEntry(m, s) \in FilesType
  PROVE  /\ Closed(t)[2] = files
         /\ \A fd \in Fd : Closed(t)[fd] = IF t[fd] = -1 THEN Closed(t)[fd - 1]
                                           ELSE CloseEntry(Closed(t)[fd - 1], t[fd])
<1> DEFINE hi == MAX_FILES_OPEN_PER_PROC - 1
           Rounds(c) == c = [fd \in 2 .. hi |->
                               IF fd = 2 THEN files ELSE IF t[fd] = -1 THEN c[fd - 1]
                               ELSE CloseEntry(c[fd - 1], t[fd])]
           act == [s \in Slot |-> [m \in FilesType |-> CloseEntry(m, s)]]
<1>1. Closed(t) = CHOOSE c : Rounds(c)
  BY DEF Closed
<1>2. hi \in Nat /\ hi >= 3 /\ Fd = 3 .. hi
  BY Sizes
<1>3. \A fd \in Fd : t[fd] \in Slot \cup {-1}
  BY DEF TableType
<1>4. act \in [Slot -> [FilesType -> FilesType]]
  OBVIOUS
<1>5. \A s \in Slot, m \in FilesType : act[s][m] = CloseEntry(m, s)
  OBVIOUS
<1> HIDE DEF act
<1>6. PICK f \in [2 .. hi -> FilesType] :
        /\ f[2] = files
        /\ \A fd \in Fd : f[fd] = IF t[fd] = -1 THEN f[fd - 1] ELSE act[t[fd]][f[fd - 1]]
  <2>1. files \in FilesType /\ t \in TableType
    OBVIOUS
  <2>2. QED
    BY ONLY <1>4, <2>1, RoundsExist DEF hi
<1> HIDE DEF hi
<1>7. ASSUME NEW k \in 2 .. hi
      PROVE  f[k] = IF k = 2 THEN files ELSE IF t[k] = -1 THEN f[k - 1]
                    ELSE CloseEntry(f[k - 1], t[k])
  <2>1. k # 2 => k \in Fd /\ k - 1 \in 2 .. hi /\ f[k - 1] \in FilesType
    BY <1>2, <1>6
  <2>2. k # 2 /\ t[k] # -1 => act[t[k]][f[k - 1]] = CloseEntry(f[k - 1], t[k])
    BY <1>3, <1>5, <2>1
  <2>3. QED
    BY <1>6, <2>1, <2>2
<1>8. Rounds(f)
  BY <1>6, <1>7
<1>9. Rounds(Closed(t))
  BY <1>1, <1>8
<1> HIDE DEF Rounds
<1>10. ASSUME NEW k \in 2 .. hi
      PROVE  Closed(t)[k] = IF k = 2 THEN files ELSE IF t[k] = -1 THEN Closed(t)[k - 1]
                            ELSE CloseEntry(Closed(t)[k - 1], t[k])
  BY <1>9 DEF Rounds
<1>11. QED
  BY <1>2, <1>10

LEMMA CountedRounds ==
  ASSUME files \in FilesType, NEW t \in TableType,
         \A m \in FilesType, s \in Slot : CountEntry(m, s) \in FilesType
  PROVE  /\ Counted(t)[2] = files
         /\ \A fd \in Fd : Counted(t)[fd] = IF t[fd] = -1 THEN Counted(t)[fd - 1]
                                           ELSE CountEntry(Counted(t)[fd - 1], t[fd])
<1> DEFINE hi == MAX_FILES_OPEN_PER_PROC - 1
           Rounds(c) == c = [fd \in 2 .. hi |->
                               IF fd = 2 THEN files ELSE IF t[fd] = -1 THEN c[fd - 1]
                               ELSE CountEntry(c[fd - 1], t[fd])]
           act == [s \in Slot |-> [m \in FilesType |-> CountEntry(m, s)]]
<1>1. Counted(t) = CHOOSE c : Rounds(c)
  BY DEF Counted
<1>2. hi \in Nat /\ hi >= 3 /\ Fd = 3 .. hi
  BY Sizes
<1>3. \A fd \in Fd : t[fd] \in Slot \cup {-1}
  BY DEF TableType
<1>4. act \in [Slot -> [FilesType -> FilesType]]
  OBVIOUS
<1>5. \A s \in Slot, m \in FilesType : act[s][m] = CountEntry(m, s)
  OBVIOUS
<1> HIDE DEF act
<1>6. PICK f \in [2 .. hi -> FilesType] :
        /\ f[2] = files
        /\ \A fd \in Fd : f[fd] = IF t[fd] = -1 THEN f[fd - 1] ELSE act[t[fd]][f[fd - 1]]
  <2>1. files \in FilesType /\ t \in TableType
    OBVIOUS
  <2>2. QED
    BY ONLY <1>4, <2>1, RoundsExist DEF hi
<1> HIDE DEF hi
<1>7. ASSUME NEW k \in 2 .. hi
      PROVE  f[k] = IF k = 2 THEN files ELSE IF t[k] = -1 THEN f[k - 1]
                    ELSE CountEntry(f[k - 1], t[k])
  <2>1. k # 2 => k \in Fd /\ k - 1 \in 2 .. hi /\ f[k - 1] \in FilesType
    BY <1>2, <1>6
  <2>2. k # 2 /\ t[k] # -1 => act[t[k]][f[k - 1]] = CountEntry(f[k - 1], t[k])
    BY <1>3, <1>5, <2>1
  <2>3. QED
    BY <1>6, <2>1, <2>2
<1>8. Rounds(f)
  BY <1>6, <1>7
<1>9. Rounds(Counted(t))
  BY <1>1, <1>8
<1> HIDE DEF Rounds
<1>10. ASSUME NEW k \in 2 .. hi
      PROVE  Counted(t)[k] = IF k = 2 THEN files ELSE IF t[k] = -1 THEN Counted(t)[k - 1]
                            ELSE CountEntry(Counted(t)[k - 1], t[k])
  BY <1>9 DEF Rounds
<1>11. QED
  BY <1>2, <1>10

-----------------------------------------------------------------------------
(* What the operations on the record of files do.                          *)

LEMMA Removed ==
  ASSUME NEW l \in Seq(Inode), NEW i
  PROVE  /\ list_remove(l, i) \in Seq(Inode)
         /\ (\A j, k \in DOMAIN l : l[j] = l[k] => j = k) =>
              /\ \A j, k \in DOMAIN list_remove(l, i) :
                   list_remove(l, i)[j] = list_remove(l, i)[k] => j = k
              /\ \A k \in DOMAIN list_remove(l, i) :
                   list_remove(l, i)[k] # i /\ \E j \in DOMAIN l : l[j] = list_remove(l, i)[k]
<1> DEFINE k == CHOOSE j \in DOMAIN l : l[j] = i
           r == SubSeq(l, 1, k - 1) \o SubSeq(l, k + 1, Len(l))
<1>1. CASE \E j \in DOMAIN l : l[j] = i
  <2>1. k \in DOMAIN l /\ l[k] = i /\ DOMAIN l = 1 .. Len(l) /\ Len(l) \in Nat
    BY <1>1
  <2>2. list_remove(l, i) = r
    BY <1>1 DEF list_remove
  <2> HIDE DEF k
  <2> DEFINE a == SubSeq(l, 1, k - 1)
             b == SubSeq(l, k + 1, Len(l))
  <2>3. /\ a \in Seq(Inode) /\ Len(a) = k - 1 /\ \A n \in 1 .. k - 1 : a[n] = l[n]
        /\ b \in Seq(Inode) /\ Len(b) = Len(l) - k
        /\ \A n \in 1 .. Len(l) - k : b[n] = l[n + k]
    <3>1. /\ a \in Seq(Inode) /\ Len(a) = k - 1 /\ \A n \in 1 .. k - 1 : a[n] = l[n]
      BY ONLY <2>1, l \in Seq(Inode)
    <3>2. /\ b \in Seq(Inode) /\ Len(b) = Len(l) - k
      BY ONLY <2>1, l \in Seq(Inode)
    <3>3. \A n \in 1 .. Len(l) - k : b[n] = l[n + k]
      BY ONLY <2>1, l \in Seq(Inode)
    <3>4. QED
      BY <3>1, <3>2, <3>3
  <2>4. r = a \o b
    OBVIOUS
  <2> HIDE DEF a, b, r
  <2>5. r \in Seq(Inode) /\ Len(r) = Len(l) - 1
    <3>1. a \o b \in Seq(Inode) /\ Len(a \o b) = Len(a) + Len(b)
      BY <2>3
    <3>2. QED
      BY <2>1, <2>3, <2>4, <3>1
  <2>6. ASSUME NEW n \in 1 .. Len(r)
        PROVE  r[n] = l[IF n < k THEN n ELSE n + 1]
    <3>1. r = a \o b /\ n \in 1 .. Len(l) - 1
      BY <2>5, <2>4
    <3>2. n < k => n \in 1 .. Len(a) /\ r[n] = a[n]
      BY <2>1, <2>3, <3>1
    <3>3. ASSUME ~(n < k)
          PROVE  r[n] = l[n + 1]
      <4>1. /\ n - Len(a) \in 1 .. Len(b) /\ n - Len(a) + k = n + 1
            /\ n \in 1 .. Len(a) + Len(b) /\ ~(n <= Len(a))
        BY <2>1, <2>3, <3>1, <3>3, SMTT(20)
      <4>2. r[n] = b[n - Len(a)]
        BY <2>3, <3>1, <4>1
      <4>3. QED
        BY <2>3, <4>1, <4>2
    <3>4. QED
      BY <2>1, <2>3, <3>1, <3>2, <3>3
  <2>7. ASSUME \A x, y \in DOMAIN l : l[x] = l[y] => x = y,
               NEW n \in DOMAIN r
        PROVE  r[n] # i /\ \E j \in DOMAIN l : l[j] = r[n]
    <3>1. (IF n < k THEN n ELSE n + 1) \in DOMAIN l /\ (IF n < k THEN n ELSE n + 1) # k
      BY <2>1, <2>5
    <3>2. QED
      BY <2>1, <2>5, <2>6, <2>7, <3>1
  <2>8. ASSUME \A x, y \in DOMAIN l : l[x] = l[y] => x = y,
               NEW n \in DOMAIN r, NEW o \in DOMAIN r, r[n] = r[o]
        PROVE  n = o
    <3>1. /\ (IF n < k THEN n ELSE n + 1) \in DOMAIN l
          /\ (IF o < k THEN o ELSE o + 1) \in DOMAIN l
          /\ n \in 1 .. Len(r) /\ o \in 1 .. Len(r)
      BY <2>1, <2>5
    <3>2. (IF n < k THEN n ELSE n + 1) = (IF o < k THEN o ELSE o + 1)
      BY <2>6, <2>8, <3>1
    <3>3. QED
      BY <2>1, <3>1, <3>2
  <2>9. QED
    BY <2>2, <2>5, <2>7, <2>8
<1>2. CASE ~\E j \in DOMAIN l : l[j] = i
  BY <1>2 DEF list_remove
<1>3. QED
  BY <1>1, <1>2

LEMMA Fields ==
  ASSUME NEW m \in FilesType, NEW x, NEW y
  PROVE  /\ [m EXCEPT !.inode = x, !.open = y].table = m.table
         /\ [m EXCEPT !.inode = x, !.open = y].inode = x
         /\ [m EXCEPT !.inode = x, !.open = y].open = y
         /\ [m EXCEPT !.inode = x].table = m.table
         /\ [m EXCEPT !.inode = x].inode = x
         /\ [m EXCEPT !.inode = x].open = m.open
         /\ [m EXCEPT !.table = x].table = x
         /\ [m EXCEPT !.table = x].inode = m.inode
         /\ [m EXCEPT !.table = x].open = m.open
         /\ [m EXCEPT !.inode = x, !.table = y].table = y
         /\ [m EXCEPT !.inode = x, !.table = y].inode = x
         /\ [m EXCEPT !.inode = x, !.table = y].open = m.open
         /\ [m EXCEPT !.fault = x].table = m.table
         /\ [m EXCEPT !.fault = x].inode = m.inode
         /\ [m EXCEPT !.fault = x].open = m.open
<1>1. m = [table |-> m.table, inode |-> m.inode, open |-> m.open, fault |-> m.fault]
  BY DEF FilesType
<1>2. QED
  BY <1>1

LEMMA FieldTypes ==
  ASSUME NEW m \in FilesType
  PROVE  /\ m.inode \in [Inode -> InodeRec] /\ m.open \in Seq(Inode)
         /\ m.table \in [Slot -> EntryRec] /\ m.fault \in BOOLEAN
BY DEF FilesType

(* The files with one inode's record replaced, and with one entry's.       *)
LEMMA FilesWith ==
  ASSUME NEW m \in FilesType, NEW i \in Inode,
         NEW r \in InodeRec
  PROVE  [m EXCEPT !.inode = [m.inode EXCEPT ![i] = r]] \in FilesType
BY DEF FilesType

LEMMA FilesListed ==
  ASSUME NEW m \in FilesType, NEW i \in Inode,
         NEW r \in InodeRec,
         NEW l \in Seq(Inode)
  PROVE  [m EXCEPT !.inode = [m.inode EXCEPT ![i] = r], !.open = l] \in FilesType
BY DEF FilesType

LEMMA EntryWith ==
  ASSUME NEW m \in FilesType, NEW s \in Slot, NEW e \in EntryRec
  PROVE  [m EXCEPT !.table = [m.table EXCEPT ![s] = e]] \in FilesType
BY DEF FilesType

LEMMA CountIn == \A n \in 0 .. CntMod - 1 :
  /\ (n + 1) % CntMod \in 0 .. CntMod - 1 /\ (n - 1) % CntMod \in 0 .. CntMod - 1
  /\ n + 1 < CntMod => (n + 1) % CntMod = n + 1
  /\ n >= 1 => (n - 1) % CntMod = n - 1
<1>1. CntMod \in Nat /\ CntMod > 2
  BY Sizes
<1>2. QED
  BY <1>1

(* An inode's record with another count.                                   *)
LEMMA WithCnt ==
  ASSUME NEW r \in InodeRec, NEW n \in 0 .. CntMod - 1
  PROVE  [r EXCEPT !.cnt = n] \in InodeRec /\ [r EXCEPT !.cnt = n].cnt = n
BY DEF InodeRec

LEMMA Records ==
  /\ \A r \in InodeRec : r.cnt \in 0 .. CntMod - 1
  /\ \A f \in File : [i_no |-> f, cnt |-> 1, write_deny |-> FALSE] \in InodeRec
  /\ NoInode \in InodeRec /\ NoInode.cnt = 0
BY Sizes DEF InodeRec, NoInode

(* One more use of an inode.                                               *)
LEMMA FoundFacts ==
  ASSUME NEW m \in FilesType, NEW i \in Inode
  PROVE  /\ inode_found(m, i) \in FilesType
         /\ inode_found(m, i).table = m.table /\ inode_found(m, i).open = m.open
         /\ \A j \in Inode \ {i} : inode_found(m, i).inode[j] = m.inode[j]
         /\ m.inode[i].cnt + 1 < CntMod => inode_found(m, i).inode[i].cnt = m.inode[i].cnt + 1
<1> DEFINE n == (m.inode[i].cnt + 1) % CntMod
           r == [m.inode[i] EXCEPT !.cnt = n]
<1>1. m.inode[i] \in InodeRec /\ m.inode \in [Inode -> InodeRec]
  BY FieldTypes
<1>2. n \in 0 .. CntMod - 1 /\ (m.inode[i].cnt + 1 < CntMod => n = m.inode[i].cnt + 1)
  BY <1>1, CountIn, Records
<1>3. inode_found(m, i) = [m EXCEPT !.inode = [m.inode EXCEPT ![i] = r]]
  BY <1>1 DEF inode_found
<1> HIDE DEF n
<1>4. r \in InodeRec /\ r.cnt = n
  BY <1>1, <1>2, WithCnt
<1> HIDE DEF r
<1>5. [m EXCEPT !.inode = [m.inode EXCEPT ![i] = r]] \in FilesType
  BY <1>4, FilesWith
<1>6. /\ inode_found(m, i).table = m.table /\ inode_found(m, i).open = m.open
      /\ inode_found(m, i).inode = [m.inode EXCEPT ![i] = r]
  BY <1>3, Fields
<1>7. QED
  BY <1>1, <1>2, <1>3, <1>4, <1>5, <1>6

(* An inode at the front of the list.                                      *)
LEMMA Pushed ==
  ASSUME NEW l \in Seq(Inode), NEW i \in Inode
  PROVE  /\ <<i>> \o l \in Seq(Inode)
         /\ \A k \in DOMAIN (<<i>> \o l) :
              (<<i>> \o l)[k] = i \/ \E j \in DOMAIN l : l[j] = (<<i>> \o l)[k]
         /\ (/\ \A j, k \in DOMAIN l : l[j] = l[k] => j = k
             /\ \A k \in DOMAIN l : l[k] # i)
            => \A j, k \in DOMAIN (<<i>> \o l) : (<<i>> \o l)[j] = (<<i>> \o l)[k] => j = k
<1> DEFINE r == <<i>> \o l
<1>1. /\ r \in Seq(Inode) /\ Len(r) = Len(l) + 1 /\ Len(l) \in Nat /\ DOMAIN l = 1 .. Len(l)
      /\ DOMAIN r = 1 .. Len(r)
  OBVIOUS
<1>2. r[1] = i
  OBVIOUS
<1>3. ASSUME NEW k \in 2 .. Len(r)
      PROVE  k - 1 \in DOMAIN l /\ r[k] = l[k - 1]
  BY <1>1
<1> HIDE DEF r
<1>4. \A k \in DOMAIN r : k = 1 \/ k \in 2 .. Len(r)
  BY <1>1
<1>5. \A k \in DOMAIN r : r[k] = i \/ \E j \in DOMAIN l : l[j] = r[k]
  BY <1>2, <1>3, <1>4
<1>6. ASSUME \A j, k \in DOMAIN l : l[j] = l[k] => j = k, \A k \in DOMAIN l : l[k] # i,
             NEW j \in DOMAIN r, NEW k \in DOMAIN r, r[j] = r[k]
      PROVE  j = k
  <2>1. CASE j = 1 \/ k = 1
    BY <1>2, <1>3, <1>4, <1>6, <2>1
  <2>2. CASE j # 1 /\ k # 1
    <3>1. j \in 2 .. Len(r) /\ k \in 2 .. Len(r)
      BY <1>4, <2>2
    <3>2. j - 1 = k - 1
      BY <1>3, <1>6, <3>1
    <3>3. QED
      BY <1>1, <3>1, <3>2
  <2>3. QED
    BY <2>1, <2>2
<1>7. QED
  BY <1>1, <1>5, <1>6 DEF r

(* An inode read from the disk.                                            *)
LEMMA LoadedFacts ==
  ASSUME NEW m \in FilesType, NEW i \in Inode, NEW f \in File
  PROVE  /\ inode_loaded(m, i, f) \in FilesType
         /\ inode_loaded(m, i, f).table = m.table
         /\ inode_loaded(m, i, f).open = <<i>> \o m.open
         /\ \A j \in Inode \ {i} : inode_loaded(m, i, f).inode[j] = m.inode[j]
         /\ inode_loaded(m, i, f).inode[i].cnt = 1
<1> DEFINE r == [i_no |-> f, cnt |-> 1, write_deny |-> FALSE]
           l == <<i>> \o m.open
           c == [m EXCEPT !.inode = [m.inode EXCEPT ![i] = r], !.open = l]
<1>1. r \in InodeRec /\ r.cnt = 1 /\ m.inode \in [Inode -> InodeRec]
  BY Records, FieldTypes
<1>2. l \in Seq(Inode)
  BY Pushed, FieldTypes
<1>3. inode_loaded(m, i, f) = c
  BY DEF inode_loaded
<1> HIDE DEF r, l
<1>4. c \in FilesType
  BY <1>1, <1>2, FilesListed
<1>5. c.table = m.table /\ c.open = l /\ c.inode = [m.inode EXCEPT ![i] = r]
  BY Fields
<1> HIDE DEF c
<1>6. QED
  BY <1>1, <1>3, <1>4, <1>5 DEF l

(* One use of an inode less.                                               *)
LEMMA CloseFacts ==
  ASSUME NEW m \in FilesType, NEW i \in Inode
  PROVE  /\ inode_close(m, i) \in FilesType
         /\ inode_close(m, i).table = m.table
         /\ \A j \in Inode \ {i} : inode_close(m, i).inode[j] = m.inode[j]
         /\ m.inode[i].cnt >= 1 => inode_close(m, i).inode[i].cnt = m.inode[i].cnt - 1
         /\ ListOK(m) => /\ ListOK(inode_close(m, i))
                         /\ \A k \in DOMAIN inode_close(m, i).open :
                              \E j \in DOMAIN m.open : m.open[j] = inode_close(m, i).open[k]
<1> DEFINE c == inode_close(m, i)
           n == (m.inode[i].cnt - 1) % CntMod
           r == [m.inode[i] EXCEPT !.cnt = n]
           l == list_remove(m.open, i)
           gone == [m EXCEPT !.inode = [m.inode EXCEPT ![i] = NoInode], !.open = l]
           kept == [m EXCEPT !.inode = [m.inode EXCEPT ![i] = r]]
<1>1. /\ m.inode[i] \in InodeRec /\ m.inode \in [Inode -> InodeRec] /\ m.open \in Seq(Inode)
      /\ m.inode[i].cnt \in 0 .. CntMod - 1
  BY FieldTypes, Records
<1>2. /\ n \in 0 .. CntMod - 1 /\ (m.inode[i].cnt >= 1 => n = m.inode[i].cnt - 1)
  BY <1>1, CountIn
<1>3. c = IF n = 0 THEN gone ELSE kept
  BY <1>1 DEF inode_close
<1> HIDE DEF c, n
<1>4. r \in InodeRec /\ r.cnt = n /\ NoInode \in InodeRec /\ NoInode.cnt = 0
  BY <1>1, <1>2, WithCnt, Records
<1>5. l \in Seq(Inode)
  BY <1>1, Removed
<1> HIDE DEF r, l
<1>6. c \in FilesType
  <2>1. gone \in FilesType
    BY <1>4, <1>5, FilesListed
  <2>2. kept \in FilesType
    BY <1>4, FilesWith
  <2>3. QED
    BY <1>3, <2>1, <2>2
<1>7. /\ c.table = m.table /\ \A j \in Inode \ {i} : c.inode[j] = m.inode[j]
      /\ c.inode[i].cnt = n
      /\ c.open = IF n = 0 THEN l ELSE m.open
  <2>1. gone.table = m.table /\ gone.open = l /\ gone.inode = [m.inode EXCEPT ![i] = NoInode]
    BY Fields
  <2>2. kept.table = m.table /\ kept.open = m.open /\ kept.inode = [m.inode EXCEPT ![i] = r]
    BY Fields
  <2> HIDE DEF gone, kept
  <2>3. QED
    BY <1>1, <1>3, <1>4, <2>1, <2>2
<1> HIDE DEF gone, kept
<1>8. ASSUME ListOK(m)
      PROVE  /\ ListOK(c)
             /\ \A k \in DOMAIN c.open : \E j \in DOMAIN m.open : m.open[j] = c.open[k]
  <2>1. CASE n = 0
    <3>1. /\ \A j, k \in DOMAIN c.open : c.open[j] = c.open[k] => j = k
          /\ \A k \in DOMAIN c.open :
               c.open[k] # i /\ \E j \in DOMAIN m.open : m.open[j] = c.open[k]
      BY <1>1, <1>7, <1>8, <2>1, Removed DEF ListOK, l
    <3>2. \A k \in DOMAIN c.open : c.inode[c.open[k]] = m.inode[c.open[k]]
      BY <1>6, <1>7, <3>1, FieldTypes
    <3>3. QED
      BY <1>8, <3>1, <3>2 DEF ListOK
  <2>2. CASE n # 0
    <3>1. c.open = m.open /\ c.inode[i].cnt >= 1
      BY <1>2, <1>7, <2>2
    <3>2. \A k \in DOMAIN c.open :
            c.open[k] \in Inode /\ (c.open[k] # i => c.inode[c.open[k]] = m.inode[c.open[k]])
      BY <1>6, <1>7, FieldTypes
    <3>3. QED
      BY <1>8, <3>1, <3>2 DEF ListOK
  <2>3. QED
    BY <2>1, <2>2
<1>9. QED
  BY <1>2, <1>6, <1>7, <1>8 DEF c

(* The open list of c has nothing that was not in m's.                     *)
Shorter(c, m) == \A k \in DOMAIN c.open : \E j \in DOMAIN m.open : m.open[j] = c.open[k]

LEMMA WithDeny ==
  ASSUME NEW r \in InodeRec, NEW d \in BOOLEAN
  PROVE  [r EXCEPT !.write_deny = d] \in InodeRec /\ [r EXCEPT !.write_deny = d].cnt = r.cnt
BY DEF InodeRec

LEMMA Entries ==
  ASSUME NEW e \in EntryRec
  PROVE  /\ e.inode \in Inode \cup {NULL, PipePage} /\ e.pos \in 0 .. CntMod - 1
         /\ e.flag \in Flag \cup {"PIPE_FLAG", "none"}
         /\ \A x \in Inode \cup {NULL, PipePage}, n \in 0 .. CntMod - 1 :
              /\ [inode |-> x, pos |-> n, flag |-> e.flag] \in EntryRec
              /\ [e EXCEPT !.inode = x] \in EntryRec
              /\ [e EXCEPT !.inode = x] = [inode |-> x, pos |-> e.pos, flag |-> e.flag]
              /\ [e EXCEPT !.pos = n] \in EntryRec
              /\ [e EXCEPT !.pos = n] = [inode |-> e.inode, pos |-> n, flag |-> e.flag]
<1>1. /\ e = [inode |-> e.inode, pos |-> e.pos, flag |-> e.flag]
      /\ e.inode \in Inode \cup {NULL, PipePage} /\ e.pos \in 0 .. CntMod - 1
      /\ e.flag \in Flag \cup {"PIPE_FLAG", "none"}
  BY DEF EntryRec
<1>2. ASSUME NEW x \in Inode \cup {NULL, PipePage}, NEW n \in 0 .. CntMod - 1
      PROVE  /\ [e EXCEPT !.inode = x] = [inode |-> x, pos |-> e.pos, flag |-> e.flag]
             /\ [e EXCEPT !.pos = n] = [inode |-> e.inode, pos |-> n, flag |-> e.flag]
  BY <1>1
<1>3. ASSUME NEW x \in Inode \cup {NULL, PipePage}, NEW n \in 0 .. CntMod - 1
      PROVE  /\ [inode |-> x, pos |-> n, flag |-> e.flag] \in EntryRec
             /\ [inode |-> x, pos |-> e.pos, flag |-> e.flag] \in EntryRec
             /\ [inode |-> e.inode, pos |-> n, flag |-> e.flag] \in EntryRec
  BY <1>1 DEF EntryRec
<1>4. QED
  BY <1>1, <1>2, <1>3

(* One descriptor less of an entry: a pipe's, a file's, and the wild       *)
(* access of an empty one.                                                 *)
LEMMA ClosedPipe ==
  ASSUME NEW m \in FilesType, NEW s \in Slot, is_pipe(m, s)
  PROVE  /\ CloseEntry(m, s) \in FilesType
         /\ \A t \in Slot \ {s} : CloseEntry(m, s).table[t] = m.table[t]
         /\ CloseEntry(m, s).inode = m.inode /\ CloseEntry(m, s).open = m.open
         /\ CloseEntry(m, s).table[s].flag = m.table[s].flag
         /\ CloseEntry(m, s).table[s].inode \in {m.table[s].inode, NULL}
         /\ m.table[s].pos >= 1 =>
              /\ CloseEntry(m, s).table[s].pos = m.table[s].pos - 1
              /\ CloseEntry(m, s).table[s].inode =
                   IF m.table[s].pos = 1 THEN NULL ELSE m.table[s].inode
<1> DEFINE n == (m.table[s].pos - 1) % CntMod
           x == IF n = 0 THEN NULL ELSE m.table[s].inode
           e == [inode |-> x, pos |-> n, flag |-> m.table[s].flag]
           c == [m EXCEPT !.table = [m.table EXCEPT ![s] = e]]
<1>1. m.table[s] \in EntryRec /\ m.table \in [Slot -> EntryRec]
  BY FieldTypes
<1>2. n \in 0 .. CntMod - 1 /\ (m.table[s].pos >= 1 => n = m.table[s].pos - 1)
  BY <1>1, Entries, CountIn
<1>3. x \in Inode \cup {NULL, PipePage} /\ x \in {m.table[s].inode, NULL}
  BY <1>1, Entries
<1>4. CloseEntry(m, s) = c
  BY <1>1 DEF CloseEntry
<1>5. m.table[s].pos \in 0 .. CntMod - 1 /\ CntMod \in Nat
  BY <1>1, Entries, Sizes
<1>6. m.table[s].pos >= 1 => x = IF m.table[s].pos = 1 THEN NULL ELSE m.table[s].inode
  BY <1>2, <1>5
<1> HIDE DEF n, x
<1>7. e \in EntryRec /\ e.inode = x /\ e.pos = n /\ e.flag = m.table[s].flag
  BY <1>1, <1>2, <1>3, Entries
<1> HIDE DEF e
<1>8. c \in FilesType
  BY <1>7, EntryWith
<1>9. c.table = [m.table EXCEPT ![s] = e] /\ c.inode = m.inode /\ c.open = m.open
  BY Fields
<1> HIDE DEF c
<1>10. c.table[s] = e /\ \A t \in Slot \ {s} : c.table[t] = m.table[t]
  BY <1>1, <1>9
<1>11. QED
  BY <1>2, <1>3, <1>4, <1>6, <1>7, <1>8, <1>9, <1>10

LEMMA ClosedFile ==
  ASSUME NEW m \in FilesType, NEW s \in Slot, ~is_pipe(m, s), m.table[s].inode \in Inode
  PROVE  /\ CloseEntry(m, s) \in FilesType
         /\ \A t \in Slot \ {s} : CloseEntry(m, s).table[t] = m.table[t]
         /\ CloseEntry(m, s).table[s].inode = NULL
         /\ \A j \in Inode \ {m.table[s].inode} : CloseEntry(m, s).inode[j] = m.inode[j]
         /\ m.inode[m.table[s].inode].cnt >= 1 =>
              CloseEntry(m, s).inode[m.table[s].inode].cnt = m.inode[m.table[s].inode].cnt - 1
         /\ ListOK(m) => ListOK(CloseEntry(m, s)) /\ Shorter(CloseEntry(m, s), m)
<1> DEFINE i == m.table[s].inode
           r == [m.inode[i] EXCEPT !.write_deny = FALSE]
           e == [m.table[s] EXCEPT !.inode = NULL]
           a == [m EXCEPT !.inode = [m.inode EXCEPT ![i] = r]]
           b == [m EXCEPT !.inode = [m.inode EXCEPT ![i] = r],
                          !.table = [m.table EXCEPT ![s] = e]]
<1>1. /\ m.table[s] \in EntryRec /\ m.table \in [Slot -> EntryRec] /\ i \in Inode
      /\ m.inode \in [Inode -> InodeRec] /\ m.inode[i] \in InodeRec /\ m.open \in Seq(Inode)
  BY FieldTypes
<1>2. r \in InodeRec /\ r.cnt = m.inode[i].cnt
  BY <1>1, WithDeny
<1>3. e \in EntryRec /\ e.inode = NULL
  <2>1. 0 \in 0 .. CntMod - 1
    BY Sizes
  <2>2. e \in EntryRec /\ e = [inode |-> NULL, pos |-> m.table[s].pos, flag |-> m.table[s].flag]
    BY <1>1, <2>1, Entries
  <2>3. QED
    BY <2>2
<1>4. CloseEntry(m, s) = inode_close(b, i)
  BY <1>1 DEF CloseEntry, file_close
<1> HIDE DEF r, e, i
<1>5. b \in FilesType
  <2>1. a \in FilesType /\ a.table = m.table
    BY <1>1, <1>2, FilesWith, Fields
  <2>2. b = [a EXCEPT !.table = [a.table EXCEPT ![s] = e]]
    BY <2>1
  <2> HIDE DEF a, b
  <2>3. QED
    BY <1>3, <2>1, <2>2, EntryWith
<1>6. /\ b.inode = [m.inode EXCEPT ![i] = r] /\ b.table = [m.table EXCEPT ![s] = e]
      /\ b.open = m.open
  BY Fields
<1> HIDE DEF b
<1>7. ListOK(m) => ListOK(b)
  <2>1. \A j \in Inode : b.inode[j].cnt = m.inode[j].cnt
    BY <1>1, <1>2, <1>6
  <2>2. QED
    BY <1>1, <1>6, <2>1 DEF ListOK
<1>8. /\ b.table[s].inode = NULL /\ \A t \in Slot \ {s} : b.table[t] = m.table[t]
      /\ b.inode[i].cnt = m.inode[i].cnt
      /\ \A j \in Inode \ {i} : b.inode[j] = m.inode[j]
  <2>1. b.table[s] = e /\ \A t \in Slot \ {s} : b.table[t] = m.table[t]
    BY ONLY <1>1, <1>6, s \in Slot
  <2>2. b.inode[i] = r /\ \A j \in Inode \ {i} : b.inode[j] = m.inode[j]
    BY ONLY <1>1, <1>6
  <2>3. QED
    BY ONLY <1>2, <1>3, <2>1, <2>2
<1>9. QED
  <2> DEFINE o == inode_close(b, i)
  <2>1. /\ o \in FilesType /\ o.table = b.table
        /\ \A j \in Inode \ {i} : o.inode[j] = b.inode[j]
        /\ b.inode[i].cnt >= 1 => o.inode[i].cnt = b.inode[i].cnt - 1
        /\ ListOK(b) => /\ ListOK(o)
                        /\ \A k \in DOMAIN o.open : \E j \in DOMAIN b.open : b.open[j] = o.open[k]
    BY ONLY <1>1, <1>5, CloseFacts
  <2> HIDE DEF o
  <2>2. /\ \A t \in Slot \ {s} : o.table[t] = m.table[t]
        /\ o.table[s].inode = NULL
    BY ONLY <1>8, <2>1
  <2>3. /\ \A j \in Inode \ {i} : o.inode[j] = m.inode[j]
        /\ m.inode[i].cnt >= 1 => o.inode[i].cnt = m.inode[i].cnt - 1
    BY ONLY <1>8, <2>1
  <2>4. ListOK(m) => ListOK(o) /\ Shorter(o, m)
    BY ONLY <1>6, <1>7, <2>1 DEF Shorter
  <2>5. CloseEntry(m, s) = o
    BY ONLY <1>4 DEF o
  <2>6. QED
    BY <2>1, <2>2, <2>3, <2>4, <2>5 DEF i

LEMMA ClosedNothing ==
  ASSUME NEW m \in FilesType, NEW s \in Slot, ~is_pipe(m, s), m.table[s].inode \notin Inode
  PROVE  /\ CloseEntry(m, s) \in FilesType /\ CloseEntry(m, s).table = m.table
         /\ CloseEntry(m, s).inode = m.inode /\ CloseEntry(m, s).open = m.open
<1>1. CloseEntry(m, s) = [m EXCEPT !.fault = TRUE]
  BY DEF CloseEntry, file_close
<1>2. [m EXCEPT !.fault = TRUE] \in FilesType
  BY DEF FilesType
<1>3. QED
  BY <1>1, <1>2, Fields

(* One descriptor more of an entry.                                        *)
LEMMA CountFacts ==
  ASSUME NEW m \in FilesType, NEW s \in Slot
  PROVE  /\ CountEntry(m, s) \in FilesType /\ CountEntry(m, s).open = m.open
         /\ \A t \in Slot : /\ CountEntry(m, s).table[t].inode = m.table[t].inode
                            /\ CountEntry(m, s).table[t].flag = m.table[t].flag
                            /\ t # s => CountEntry(m, s).table[t] = m.table[t]
         /\ is_pipe(m, s) => CountEntry(m, s).inode = m.inode
         /\ is_pipe(m, s) /\ m.table[s].pos + 1 < CntMod =>
              CountEntry(m, s).table[s].pos = m.table[s].pos + 1
         /\ ~is_pipe(m, s) => CountEntry(m, s).table = m.table
         /\ ~is_pipe(m, s) /\ m.table[s].inode \notin Inode => CountEntry(m, s).inode = m.inode
         /\ \A j \in Inode :
              /\ j # m.table[s].inode => CountEntry(m, s).inode[j] = m.inode[j]
              /\ ~is_pipe(m, s) /\ j = m.table[s].inode /\ m.inode[j].cnt + 1 < CntMod =>
                   CountEntry(m, s).inode[j].cnt = m.inode[j].cnt + 1
<1>1. CASE is_pipe(m, s)
  <2> DEFINE n == (m.table[s].pos + 1) % CntMod
             e == [m.table[s] EXCEPT !.pos = n]
             c == [m EXCEPT !.table = [m.table EXCEPT ![s] = e]]
  <2>1. m.table[s] \in EntryRec /\ m.table \in [Slot -> EntryRec]
    BY FieldTypes
  <2>2. n \in 0 .. CntMod - 1 /\ (m.table[s].pos + 1 < CntMod => n = m.table[s].pos + 1)
    BY <2>1, Entries, CountIn
  <2>3. CountEntry(m, s) = c
    BY <1>1, <2>1 DEF CountEntry, FilesType
  <2> HIDE DEF n
  <2>4. e \in EntryRec /\ e = [inode |-> m.table[s].inode, pos |-> n, flag |-> m.table[s].flag]
    BY <2>1, <2>2, Entries
  <2> HIDE DEF e
  <2>5. c \in FilesType
    BY <2>4, EntryWith
  <2>6. c.table = [m.table EXCEPT ![s] = e] /\ c.inode = m.inode /\ c.open = m.open
    BY Fields
  <2> HIDE DEF c
  <2>7. c.table[s] = e /\ \A t \in Slot \ {s} : c.table[t] = m.table[t]
    BY <2>1, <2>6
  <2>8. e.inode = m.table[s].inode /\ e.pos = n /\ e.flag = m.table[s].flag
    BY <2>4
  <2>9. QED
    BY <1>1, <2>2, <2>3, <2>5, <2>6, <2>7, <2>8
<1>2. CASE ~is_pipe(m, s) /\ m.table[s].inode \in Inode
  <2>1. CountEntry(m, s) = inode_found(m, m.table[s].inode)
    BY <1>2 DEF CountEntry
  <2>2. QED
    BY <1>2, <2>1, FoundFacts
<1>3. CASE ~is_pipe(m, s) /\ m.table[s].inode \notin Inode
  <2>1. CountEntry(m, s) = [m EXCEPT !.fault = TRUE]
    BY <1>3 DEF CountEntry
  <2>2. [m EXCEPT !.fault = TRUE] \in FilesType
    BY DEF FilesType
  <2>3. QED
    BY <1>3, <2>1, <2>2, Fields
<1>4. QED
  BY <1>1, <1>2, <1>3

-----------------------------------------------------------------------------
(* Counting.                                                               *)

LEMMA Finite == IsFiniteSet(Slot) /\ IsFiniteSet(Proc) /\ IsFiniteSet(Proc \X Fd)
<1>1. IsFiniteSet(Slot) /\ IsFiniteSet(Fd)
  BY Sizes, FS_Interval DEF Slot
<1>2. QED
  BY <1>1, FileAssumption, FS_Product

LEMMA OneElement ==
  ASSUME NEW A, NEW B, NEW x, IsFiniteSet(A), IsFiniteSet(B), A \ {x} = B \ {x}
  PROVE  /\ Cardinality(A) \in Nat /\ Cardinality(B) \in Nat
         /\ Cardinality(B) = Cardinality(A) + (IF x \in B THEN 1 ELSE 0)
                                            - (IF x \in A THEN 1 ELSE 0)
<1>1. Cardinality(A) \in Nat /\ Cardinality(B) \in Nat
  BY FS_CardinalityType
<1>2. CASE x \in A /\ x \in B
  <2>1. A = B
    BY <1>2
  <2>2. QED
    BY <1>1, <1>2, <2>1
<1>3. CASE x \notin A /\ x \in B
  <2>1. B = A \cup {x}
    BY <1>3
  <2>2. Cardinality(B) = Cardinality(A) + 1
    BY <1>3, <2>1, FS_AddElement
  <2>3. QED
    BY <1>1, <1>3, <2>2
<1>4. CASE x \in A /\ x \notin B
  <2>1. A = B \cup {x}
    BY <1>4
  <2>2. Cardinality(A) = Cardinality(B) + 1
    BY <1>4, <2>1, FS_AddElement
  <2>3. QED
    BY <1>1, <1>4, <2>2
<1>5. CASE x \notin A /\ x \notin B
  <2>1. A = B
    BY <1>5
  <2>2. QED
    BY <1>1, <1>5, <2>1
<1>6. QED
  BY <1>2, <1>3, <1>4, <1>5

(* What one entry, and one call, add to the uses of an inode.              *)
Has(m, s, i) == IF s \in Slot /\ m.table[s].inode = i THEN 1 ELSE 0
Frees(c, i) == IF c.op \in Releasing /\ c.ino = i THEN 1 ELSE 0

(* What a step that changes at most the entry s and the call of p does to  *)
(* them.                                                                   *)
SameEntries(m, m2, s) == \A t \in Slot \ {s} : m2.table[t] = m.table[t]
SameFds(fds, fds2, p, fd) ==
  \A q \in Proc, d \in Fd : q # p \/ d # fd => fds2[q][d] = fds[q][d]
SameCalls(b, b2, p) == \A q \in Proc \ {p} : b2[q] = b[q]

LEMMA UsesStep ==
  ASSUME NEW m, NEW m2, NEW b, NEW b2, NEW s, NEW p \in Proc, NEW i,
         SameEntries(m, m2, s), SameCalls(b, b2, p)
  PROVE  /\ Uses(m, b, i) \in Nat /\ Uses(m2, b2, i) \in Nat
         /\ Uses(m2, b2, i) = Uses(m, b, i) + Has(m2, s, i) - Has(m, s, i)
                                            + Frees(b2[p], i) - Frees(b[p], i)
<1>1. IsFiniteSet(EntriesOf(m, i)) /\ IsFiniteSet(EntriesOf(m2, i))
  BY Finite, FS_Subset DEF EntriesOf
<1>2. IsFiniteSet(ReleasersOf(b, i)) /\ IsFiniteSet(ReleasersOf(b2, i))
  BY Finite, FS_Subset DEF ReleasersOf
<1>3. EntriesOf(m, i) \ {s} = EntriesOf(m2, i) \ {s}
  BY DEF EntriesOf, SameEntries
<1>4. ReleasersOf(b, i) \ {p} = ReleasersOf(b2, i) \ {p}
  BY DEF ReleasersOf, SameCalls
<1>5. /\ Has(m, s, i) = IF s \in EntriesOf(m, i) THEN 1 ELSE 0
      /\ Has(m2, s, i) = IF s \in EntriesOf(m2, i) THEN 1 ELSE 0
      /\ Frees(b[p], i) = IF p \in ReleasersOf(b, i) THEN 1 ELSE 0
      /\ Frees(b2[p], i) = IF p \in ReleasersOf(b2, i) THEN 1 ELSE 0
  BY DEF Has, Frees, EntriesOf, ReleasersOf
<1>6. /\ Cardinality(EntriesOf(m, i)) \in Nat /\ Cardinality(EntriesOf(m2, i)) \in Nat
      /\ Cardinality(EntriesOf(m2, i)) =
           Cardinality(EntriesOf(m, i)) + Has(m2, s, i) - Has(m, s, i)
  BY ONLY <1>1, <1>3, <1>5, OneElement
<1>7. /\ Cardinality(ReleasersOf(b, i)) \in Nat /\ Cardinality(ReleasersOf(b2, i)) \in Nat
      /\ Cardinality(ReleasersOf(b2, i)) =
           Cardinality(ReleasersOf(b, i)) + Frees(b2[p], i) - Frees(b[p], i)
  BY ONLY <1>2, <1>4, <1>5, OneElement
<1>8. /\ Has(m, s, i) \in {0, 1} /\ Has(m2, s, i) \in {0, 1}
      /\ Frees(b[p], i) \in {0, 1} /\ Frees(b2[p], i) \in {0, 1}
  BY DEF Has, Frees
<1>9. QED
  BY <1>6, <1>7, <1>8 DEF Uses

(* The descriptors for an entry after one descriptor has changed.          *)
Leads(fds, p, fd, s) == IF fds[p][fd] = s THEN 1 ELSE 0

LEMMA RefsStep ==
  ASSUME NEW fds, NEW fds2, NEW p \in Proc, NEW fd \in Fd, NEW s, SameFds(fds, fds2, p, fd)
  PROVE  /\ Cardinality(RefsTo(fds, s)) \in Nat /\ Cardinality(RefsTo(fds2, s)) \in Nat
         /\ Cardinality(RefsTo(fds2, s)) =
              Cardinality(RefsTo(fds, s)) + Leads(fds2, p, fd, s) - Leads(fds, p, fd, s)
<1>1. IsFiniteSet(RefsTo(fds, s)) /\ IsFiniteSet(RefsTo(fds2, s))
  BY Finite, FS_Subset DEF RefsTo
<1>2. RefsTo(fds, s) \ {<<p, fd>>} = RefsTo(fds2, s) \ {<<p, fd>>}
  BY DEF RefsTo, SameFds
<1>3. /\ Leads(fds, p, fd, s) = IF <<p, fd>> \in RefsTo(fds, s) THEN 1 ELSE 0
      /\ Leads(fds2, p, fd, s) = IF <<p, fd>> \in RefsTo(fds2, s) THEN 1 ELSE 0
  BY DEF RefsTo, Leads
<1>4. QED
  BY ONLY <1>1, <1>2, <1>3, OneElement

LEMMA RefsLeft ==
  ASSUME NEW fds, NEW fds2, NEW p \in Proc, NEW fd \in Fd, NEW s, SameFds(fds, fds2, p, fd)
  PROVE  /\ RefsTo(fds2, s) \subseteq RefsTo(fds, s) \cup {<<p, fd>>}
         /\ Leads(fds2, p, fd, s) = 0 => RefsTo(fds2, s) = RefsTo(fds, s) \ {<<p, fd>>}
<1>1. Leads(fds2, p, fd, s) = 0 => fds2[p][fd] # s
  BY DEF Leads
<1>2. QED
  BY <1>1 DEF RefsTo, SameFds

LEMMA RefsOther ==
  ASSUME NEW fds, NEW fds2, NEW p \in Proc, NEW fd \in Fd, NEW s, SameFds(fds, fds2, p, fd),
         Leads(fds2, p, fd, s) = 0, Leads(fds, p, fd, s) = 0
  PROVE  RefsTo(fds2, s) = RefsTo(fds, s)
<1>1. fds2[p][fd] # s /\ fds[p][fd] # s
  BY DEF Leads
<1>2. QED
  BY <1>1 DEF RefsTo, SameFds

LEMMA RefsSame ==
  ASSUME NEW fds, NEW fds2, \A q \in Proc, d \in Fd : fds2[q][d] = fds[q][d], NEW s
  PROVE  RefsTo(fds2, s) = RefsTo(fds, s)
BY DEF RefsTo

(* How the counts follow the uses when at most the entry s and the call of *)
(* p change; an inode that p makes must come out right.                    *)
Making(c, i) == c.op \in Creating /\ c.ino = i

Gain(m, m2, b, b2, s, p, i) ==
  Has(m2, s, i) - Has(m, s, i) + Frees(b2[p], i) - Frees(b[p], i)

LEMMA GainSame ==
  ASSUME NEW m, NEW m2, NEW b, NEW s, NEW p, NEW i
  PROVE  /\ Has(m, s, i) \in {0, 1} /\ Has(m2, s, i) \in {0, 1}
         /\ Gain(m, m2, b, b, s, p, i) = Has(m2, s, i) - Has(m, s, i)
<1>1. /\ Has(m, s, i) \in {0, 1} /\ Has(m2, s, i) \in {0, 1} /\ Frees(b[p], i) \in {0, 1}
  BY DEF Has, Frees
<1>2. QED
  BY <1>1 DEF Gain

LEMMA HeldStep ==
  ASSUME NEW m \in FilesType, NEW m2 \in FilesType, NEW b, NEW b2, NEW s, NEW p \in Proc,
         SameEntries(m, m2, s), SameCalls(b, b2, p), HeldOK(m, b),
         \A i \in Inode : ~Made(b2, i) =>
           IF Making(b[p], i) THEN m2.inode[i].cnt >= Uses(m2, b2, i)
           ELSE m2.inode[i].cnt >= m.inode[i].cnt + Gain(m, m2, b, b2, s, p, i)
  PROVE  HeldOK(m2, b2)
<1> SUFFICES ASSUME NEW i \in Inode, ~Made(b2, i), ~Making(b[p], i)
             PROVE  m2.inode[i].cnt >= Uses(m2, b2, i)
  BY DEF HeldOK
<1>1. ~Made(b, i)
  BY DEF Made, Making, SameCalls
<1>2. m.inode[i].cnt >= Uses(m, b, i)
  BY <1>1 DEF HeldOK
<1>3. m2.inode[i].cnt >= m.inode[i].cnt + Gain(m, m2, b, b2, s, p, i)
  OBVIOUS
<1>4. /\ Uses(m, b, i) \in Nat /\ Uses(m2, b2, i) \in Nat
      /\ Uses(m2, b2, i) = Uses(m, b, i) + Has(m2, s, i) - Has(m, s, i)
                                         + Frees(b2[p], i) - Frees(b[p], i)
  BY UsesStep
<1>5. m.inode[i].cnt \in Nat /\ m2.inode[i].cnt \in Nat
  BY FieldTypes, Records, Sizes
<1>6. /\ Has(m, s, i) \in {0, 1} /\ Has(m2, s, i) \in {0, 1}
      /\ Frees(b[p], i) \in {0, 1} /\ Frees(b2[p], i) \in {0, 1}
  BY DEF Has, Frees
<1>7. QED
  BY ONLY <1>2, <1>3, <1>4, <1>5, <1>6 DEF Gain

LEMMA CountStep ==
  ASSUME NEW m \in FilesType, NEW m2 \in FilesType, NEW b, NEW b2, NEW s, NEW p \in Proc,
         SameEntries(m, m2, s), SameCalls(b, b2, p), CountOK(m, b),
         \A i \in Inode : ~Made(b2, i) =>
           IF Making(b[p], i) THEN m2.inode[i].cnt = Uses(m2, b2, i)
           ELSE m2.inode[i].cnt = m.inode[i].cnt + Gain(m, m2, b, b2, s, p, i)
  PROVE  CountOK(m2, b2)
<1> SUFFICES ASSUME NEW i \in Inode, ~Made(b2, i), ~Making(b[p], i)
             PROVE  m2.inode[i].cnt = Uses(m2, b2, i)
  BY DEF CountOK
<1>1. ~Made(b, i)
  BY DEF Made, Making, SameCalls
<1>2. m.inode[i].cnt = Uses(m, b, i)
  BY <1>1 DEF CountOK
<1>3. m2.inode[i].cnt = m.inode[i].cnt + Gain(m, m2, b, b2, s, p, i)
  OBVIOUS
<1>4. /\ Uses(m, b, i) \in Nat /\ Uses(m2, b2, i) \in Nat
      /\ Uses(m2, b2, i) = Uses(m, b, i) + Has(m2, s, i) - Has(m, s, i)
                                         + Frees(b2[p], i) - Frees(b[p], i)
  BY UsesStep
<1>5. /\ Has(m, s, i) \in {0, 1} /\ Has(m2, s, i) \in {0, 1}
      /\ Frees(b[p], i) \in {0, 1} /\ Frees(b2[p], i) \in {0, 1}
  BY DEF Has, Frees
<1>6. QED
  BY ONLY <1>2, <1>3, <1>4, <1>5 DEF Gain

-----------------------------------------------------------------------------
(* How the other parts of the invariant follow a step.                     *)

LEMMA Calls ==
  ASSUME NEW c \in CallType
  PROVE  /\ c.ino \in Inode \cup {NULL} /\ c.slot \in Slot \cup {0}
         /\ c.op \in Loading \cup Creating \cup Releasing => c.ino \in Inode
         /\ c.op \in {"open"} \cup Creating => c.slot \in Slot /\ c.flag \in Flag
         /\ c.op # "none" => c.file \in File
         /\ c.op \in {"none", "unlink"} => c.ino = NULL
         /\ c.op \in {"none", "unlink"} \cup Loading \cup Creating \cup Releasing
BY DEF CallType

(* A step that touches no inode but j: no other call reads or makes it, it *)
(* alone may be listed, and no entry gets another.                         *)
NotTheirs(b, p, j) == \A q \in Proc \ {p} : b[q].op \in Loading \cup Creating => b[q].ino # j
OnlyInode(m, m2, j) == \A i \in Inode \ {j} : m2.inode[i] = m.inode[i]
OnlyLists(m, m2, j) ==
  \A k \in DOMAIN m2.open : m2.open[k] = j \/ \E n \in DOMAIN m.open : m.open[n] = m2.open[k]
OnlySets(m, m2, j) == \A s \in Slot : m2.table[s].inode \in {m.table[s].inode, j, NULL, PipePage}

LEMMA CallsStep ==
  ASSUME NEW m, NEW m2, NEW b \in [Proc -> CallType], NEW b2, NEW p \in Proc, NEW j,
         CallsOK(m, b), SameCalls(b, b2, p), CallOK(m2, b2, p),
         NotTheirs(b, p, j), b2[p].ino \in {j, NULL},
         OnlyInode(m, m2, j), OnlyLists(m, m2, j), OnlySets(m, m2, j)
  PROVE  CallsOK(m2, b2)
<1> SUFFICES ASSUME NEW q \in Proc \ {p}, b2[q].op \in Loading \cup Creating
             PROVE  CallOK(m2, b2, q)
  BY DEF CallsOK, CallOK
<1>1. b2[q] = b[q] /\ b[q] \in CallType
  BY DEF SameCalls
<1>2. b[q].ino \in Inode /\ b[q].ino # j /\ b[q].ino # NULL /\ b[q].ino # PipePage
  BY <1>1, Calls, Sizes DEF NULL, PipePage, NotTheirs
<1>3. CallOK(m, b, q)
  BY DEF CallsOK
<1>4. \A r \in Proc \ {q} : b2[r].ino # b2[q].ino
  BY <1>1, <1>2, <1>3 DEF CallOK, SameCalls
<1>5. \A k \in DOMAIN m2.open : m2.open[k] # b2[q].ino
  BY <1>1, <1>2, <1>3 DEF CallOK, OnlyLists
<1>6. b2[q].op \in Loading => m2.inode[b2[q].ino] = NoInode
  BY <1>1, <1>2, <1>3 DEF CallOK, OnlyInode
<1>7. \A s \in Slot : m2.table[s].inode = b2[q].ino => b2[q].op \in Creating /\ s = b2[q].slot
  BY <1>1, <1>2, <1>3 DEF CallOK, OnlySets
<1>8. QED
  BY <1>4, <1>5, <1>6, <1>7 DEF CallOK

(* The same when an entry is closed.                                       *)
LEMMA CallsClose ==
  ASSUME NEW m, NEW m2, NEW b \in [Proc -> CallType], CallsOK(m, b), Shorter(m2, m),
         \A s \in Slot : m2.table[s].inode \in {m.table[s].inode, NULL},
         \A i \in Inode : m2.inode[i] = m.inode[i] \/ \E s \in Slot : m.table[s].inode = i
  PROVE  CallsOK(m2, b)
<1> SUFFICES ASSUME NEW q \in Proc, b[q].op \in Loading \cup Creating
             PROVE  CallOK(m2, b, q)
  BY DEF CallsOK, CallOK
<1>1. b[q].ino \in Inode /\ b[q].ino # NULL
  BY Calls, Sizes DEF NULL
<1>2. CallOK(m, b, q)
  BY DEF CallsOK
<1>3. b[q].op \in Loading => m2.inode[b[q].ino] = m.inode[b[q].ino]
  BY <1>1, <1>2 DEF CallOK, Loading, Creating
<1>4. QED
  BY <1>1, <1>2, <1>3 DEF CallOK, Shorter

(* What apart adds, after a step about the entry s and the call of p.      *)
LEMMA ExactStep ==
  ASSUME NEW m, NEW m2, NEW fds, NEW fds2, NEW b \in [Proc -> CallType], NEW b2,
         NEW lst, NEW lst2, NEW s, NEW p \in Proc,
         ExactOK(m, fds, b, lst), CountOK(m2, b2),
         SameEntries(m, m2, s), SameCalls(b, b2, p),
         \A t \in Slot \ {s} : RefsTo(fds2, t) = RefsTo(fds, t) /\ lst2[t] = lst[t],
         s \in Slot => EntryOK(m2, fds2, lst2, s),
         \A q \in Proc \ {p} : b[q].op \in {"open"} \cup Creating => b[q].slot # s,
         PickOK(m2, fds2, b2, p),
         b2[p].op = "open" =>
           \A q \in Proc \ {p} : b[q].op = "open" => b[q].slot # b2[p].slot
  PROVE  ExactOK(m2, fds2, b2, lst2)
<1>1. ASSUME NEW t \in Slot
      PROVE  EntryOK(m2, fds2, lst2, t)
  <2>1. CASE t # s
    <3>1. EntryOK(m, fds, lst, t) /\ m2.table[t] = m.table[t]
      BY <2>1 DEF ExactOK, SameEntries
    <3>2. RefsTo(fds2, t) = RefsTo(fds, t) /\ lst2[t] = lst[t]
      BY <2>1
    <3>3. QED
      BY <3>1, <3>2 DEF EntryOK
  <2>2. QED
    BY <2>1
<1>2. ASSUME NEW q \in Proc
      PROVE  PickOK(m2, fds2, b2, q)
  <2>1. CASE q # p
    <3>1. PickOK(m, fds, b, q) /\ b2[q] = b[q] /\ b[q] \in CallType
      BY <2>1 DEF ExactOK, SameCalls
    <3>2. b[q].op \in {"open"} \cup Creating => b[q].slot \in Slot \ {s}
      BY <2>1, <3>1, Calls
    <3>3. b[q].op \in {"open"} \cup Creating =>
            /\ m2.table[b[q].slot] = m.table[b[q].slot]
            /\ RefsTo(fds2, b[q].slot) = RefsTo(fds, b[q].slot)
      BY <3>2 DEF SameEntries
    <3>4. b[q].op = "open" =>
            \A r \in Proc \ {q} : b2[r].op = "open" => b2[r].slot # b[q].slot
      BY <2>1, <3>1 DEF PickOK, SameCalls
    <3>5. QED
      BY <3>1, <3>3, <3>4 DEF PickOK
  <2>2. QED
    BY <2>1
<1>3. QED
  BY <1>1, <1>2 DEF ExactOK

LEMMA UsesPositive ==
  ASSUME NEW m, NEW b, NEW s \in Slot
  PROVE  /\ Uses(m, b, m.table[s].inode) >= 1
<1> DEFINE i == m.table[s].inode
<1>1. IsFiniteSet(EntriesOf(m, i)) /\ IsFiniteSet(ReleasersOf(b, i))
  BY Finite, FS_Subset DEF EntriesOf, ReleasersOf
<1>2. EntriesOf(m, i) # {}
  BY DEF EntriesOf
<1>3. Cardinality(EntriesOf(m, i)) \in Nat \ {0} /\ Cardinality(ReleasersOf(b, i)) \in Nat
  BY <1>1, <1>2, FS_CardinalityType, FS_EmptySet
<1>4. QED
  BY <1>3 DEF Uses

(* The invariant after a round of exit, or a close: p closes fd.           *)
LEMMA CloseRound ==
  ASSUME NEW m \in FilesType, NEW b \in [Proc -> CallType], NEW lst \in [Slot -> Nat],
         NEW ap, NEW fds, NEW fds2, NEW p \in Proc, NEW fd \in Fd,
         b[p] = NotBusy, fds[p][fd] \in Slot, fds2[p][fd] = -1,
         SameFds(fds, fds2, p, fd),
         Sound(m, fds, b, lst, ap)
  PROVE  Sound(CloseEntry(m, fds[p][fd]), fds2, b, lst, ap)
<1> DEFINE s == fds[p][fd]
           c == CloseEntry(m, s)
           i == m.table[s].inode
<1>1. s \in Slot /\ s # -1 /\ NULL \notin Inode /\ PipePage \notin Inode /\ NULL # PipePage
  BY Sizes DEF NULL, PipePage
<1>2. /\ m.table[s] \in EntryRec /\ i \in Inode \cup {NULL, PipePage} /\ m.table[s].pos \in Nat
      /\ m.inode \in [Inode -> InodeRec] /\ \A j \in Inode : m.inode[j].cnt \in Nat
  <2>1. m.table[s] \in EntryRec /\ m.inode \in [Inode -> InodeRec]
    BY <1>1, FieldTypes
  <2>2. i \in Inode \cup {NULL, PipePage} /\ m.table[s].pos \in 0 .. CntMod - 1
    BY <2>1, Entries
  <2>3. \A j \in Inode : m.inode[j].cnt \in 0 .. CntMod - 1
    BY <2>1, Records
  <2>4. QED
    BY <2>1, <2>2, <2>3, Sizes
<1>3. ListOK(m) /\ CallsOK(m, b) /\ HeldOK(m, b)
  BY DEF Sound
<1>4. /\ c \in FilesType /\ SameEntries(m, c, s) /\ c.table[s].inode \in {i, NULL}
      /\ ListOK(c) /\ Shorter(c, m)
      /\ \A j \in Inode : c.inode[j] = m.inode[j] \/ j = i
  <2>1. CASE is_pipe(m, s)
    BY <1>1, <1>3, <2>1, ClosedPipe DEF SameEntries, ListOK, Shorter
  <2>2. CASE ~is_pipe(m, s) /\ i \in Inode
    BY <1>1, <1>3, <2>2, ClosedFile DEF SameEntries
  <2>3. CASE ~is_pipe(m, s) /\ i \notin Inode
    BY <1>1, <1>3, <2>3, ClosedNothing DEF SameEntries, ListOK, Shorter
  <2>4. QED
    BY <2>1, <2>2, <2>3
<1>5. SameCalls(b, b, p) /\ \A j : ~Making(b[p], j) /\ Frees(b[p], j) = 0
  BY DEF SameCalls, Making, Creating, Frees, Releasing, NotBusy
<1>6. is_pipe(m, s) => /\ c.inode = m.inode /\ c.table[s].flag = "PIPE_FLAG"
                       /\ m.table[s].pos >= 1 =>
                            /\ c.table[s].pos = m.table[s].pos - 1
                            /\ c.table[s].inode = IF m.table[s].pos = 1 THEN NULL ELSE i
  BY <1>1, ClosedPipe DEF is_pipe
<1>7. ~is_pipe(m, s) /\ i \in Inode =>
        /\ c.table[s].inode = NULL
        /\ m.inode[i].cnt >= 1 => c.inode[i].cnt = m.inode[i].cnt - 1
  BY <1>1, ClosedFile
<1>8. ~is_pipe(m, s) /\ i \notin Inode => c.inode = m.inode /\ c.table = m.table
  BY <1>1, ClosedNothing
<1>9. ~Made(b, i) /\ i \in Inode => m.inode[i].cnt >= 1
  <2>1. Uses(m, b, i) \in Nat /\ Uses(m, b, i) >= 1
    BY <1>1, <1>5, UsesPositive, UsesStep DEF SameEntries
  <2>2. ~Made(b, i) /\ i \in Inode => m.inode[i].cnt >= Uses(m, b, i)
    BY <1>3 DEF HeldOK
  <2>3. QED
    BY ONLY <1>2, <2>1, <2>2
<1> HIDE DEF c, i, s
<1>10. /\ \A j \in Inode : Has(m, s, j) = IF j = i THEN 1 ELSE 0
       /\ \A j \in Inode : Has(c, s, j) = IF c.table[s].inode = j THEN 1 ELSE 0
  BY <1>1 DEF Has, i
<1>11. ASSUME NEW j \in Inode, ~Made(b, j)
       PROVE  /\ c.inode[j].cnt >= m.inode[j].cnt + Has(c, s, j) - Has(m, s, j)
              /\ ~(is_pipe(m, s) /\ i \in Inode) =>
                   c.inode[j].cnt = m.inode[j].cnt + Has(c, s, j) - Has(m, s, j)
  <2>1. CASE j # i
    BY <1>1, <1>2, <1>4, <1>10, <2>1
  <2>2. CASE j = i /\ is_pipe(m, s)
    BY <1>1, <1>2, <1>6, <1>10, <2>2
  <2>3. CASE j = i /\ ~is_pipe(m, s)
    BY <1>1, <1>2, <1>7, <1>9, <1>10, <1>11, <2>3
  <2>4. QED
    BY <2>1, <2>2, <2>3
<1>12. HeldOK(c, b)
  <2>1. ASSUME NEW j \in Inode, ~Made(b, j)
        PROVE  c.inode[j].cnt >= m.inode[j].cnt + Gain(m, c, b, b, s, p, j)
    BY <1>2, <1>11, <2>1, GainSame
  <2>2. QED
    BY <1>3, <1>4, <1>5, <2>1, HeldStep
<1>13. CallsOK(c, b)
  <2>1. \A t \in Slot : c.table[t].inode \in {m.table[t].inode, NULL}
    BY <1>4 DEF SameEntries, i
  <2>2. \A j \in Inode : c.inode[j] = m.inode[j] \/ \E t \in Slot : m.table[t].inode = j
    BY <1>1, <1>4 DEF i
  <2>3. QED
    BY <1>3, <1>4, <2>1, <2>2, CallsClose
<1>14. ASSUME ap
       PROVE  ExactOK(c, fds2, b, lst)
  <2>1. ExactOK(m, fds, b, lst) /\ EntryOK(m, fds, lst, s)
    BY <1>1, <1>14 DEF Sound, ExactOK
  <2>2. /\ <<p, fd>> \in RefsTo(fds, s) /\ lst[s] \in Nat
        /\ Cardinality(RefsTo(fds, s)) \in Nat /\ Cardinality(RefsTo(fds2, s)) \in Nat
        /\ Cardinality(RefsTo(fds2, s)) = Cardinality(RefsTo(fds, s)) - 1
        /\ RefsTo(fds2, s) = RefsTo(fds, s) \ {<<p, fd>>}
    <3>1. <<p, fd>> \in RefsTo(fds, s) /\ lst[s] \in Nat
      BY <1>1 DEF RefsTo, s
    <3>2. fds[p][fd] = s /\ fds2[p][fd] # s
      BY <1>1 DEF s
    <3>3. Leads(fds, p, fd, s) = 1 /\ Leads(fds2, p, fd, s) = 0
      BY <3>2 DEF Leads
    <3>4. /\ Cardinality(RefsTo(fds, s)) \in Nat /\ Cardinality(RefsTo(fds2, s)) \in Nat
          /\ Cardinality(RefsTo(fds2, s)) =
               Cardinality(RefsTo(fds, s)) + Leads(fds2, p, fd, s) - Leads(fds, p, fd, s)
      BY RefsStep
    <3>5. RefsTo(fds2, s) = RefsTo(fds, s) \ {<<p, fd>>}
      BY <3>3, RefsLeft
    <3>6. QED
      BY ONLY <3>1, <3>3, <3>4, <3>5
  <2>3. i # NULL /\ (i = PipePage => is_pipe(m, s)) /\ (i \in Inode => ~is_pipe(m, s))
    BY <2>1, <2>2 DEF EntryOK, is_pipe, i
  <2>4. CountOK(c, b)
    <3>1. ASSUME NEW j \in Inode, ~Made(b, j)
          PROVE  c.inode[j].cnt = m.inode[j].cnt + Gain(m, c, b, b, s, p, j)
      BY <1>2, <1>11, <2>3, <3>1, GainSame
    <3>2. QED
      BY <1>4, <1>5, <2>1, <3>1, CountStep DEF ExactOK
  <2>5. EntryOK(c, fds2, lst, s)
    <3>1. CASE i = PipePage
      <4>1. /\ m.table[s].pos = Cardinality(RefsTo(fds, s)) + lst[s] /\ is_pipe(m, s)
        BY <2>1, <2>3, <3>1 DEF EntryOK, i
      <4>2. m.table[s].pos >= 1 /\ c.table[s].pos = Cardinality(RefsTo(fds2, s)) + lst[s]
        BY <1>6, <2>2, <4>1
      <4>3. c.table[s].inode = IF m.table[s].pos = 1 THEN NULL ELSE PipePage
        BY <1>6, <3>1, <4>1, <4>2
      <4>4. m.table[s].pos = 1 => RefsTo(fds2, s) = {}
        <5>1. IsFiniteSet(RefsTo(fds2, s))
          BY Finite, FS_Subset DEF RefsTo
        <5>2. m.table[s].pos = 1 => Cardinality(RefsTo(fds2, s)) = 0
          BY <2>2, <4>1
        <5>3. QED
          BY <5>1, <5>2, FS_EmptySet
      <4>5. QED
        BY <1>1, <1>6, <4>1, <4>2, <4>3, <4>4 DEF EntryOK
    <3>2. CASE i \in Inode
      <4>1. RefsTo(fds2, s) = {}
        BY <2>1, <2>2, <3>2 DEF EntryOK, i
      <4>2. QED
        BY <1>1, <1>7, <2>3, <3>2, <4>1 DEF EntryOK
    <3>3. QED
      BY <1>2, <2>3, <3>1, <3>2
  <2>6. \A t \in Slot \ {s} : RefsTo(fds2, t) = RefsTo(fds, t)
    <3>1. ASSUME NEW t \in Slot \ {s}
          PROVE  RefsTo(fds2, t) = RefsTo(fds, t)
      <4>1. Leads(fds, p, fd, t) = 0 /\ Leads(fds2, p, fd, t) = 0
        BY Sizes DEF s, Leads
      <4>2. QED
        BY <4>1, RefsOther
    <3>2. QED
      BY <3>1
  <2>7. \A q \in Proc \ {p} : b[q].op \in {"open"} \cup Creating => b[q].slot # s
    <3>1. ASSUME NEW q \in Proc, b[q].op \in {"open"} \cup Creating
          PROVE  b[q].slot # s
      <4>1. PickOK(m, fds, b, q) /\ b[q].slot \in Slot
        BY <2>1, <3>1, Calls DEF ExactOK
      <4>2. RefsTo(fds, b[q].slot) = {}
        BY <2>1, <3>1, <4>1 DEF PickOK, ExactOK, EntryOK
      <4>3. QED
        BY <2>2, <4>2
    <3>2. QED
      BY <3>1
  <2>8. PickOK(c, fds2, b, p) /\ b[p].op # "open"
    BY DEF PickOK, NotBusy, Creating
  <2>9. QED
    BY <1>4, <1>5, <2>1, <2>4, <2>5, <2>6, <2>7, <2>8, ExactStep
<1>15. Sound(c, fds2, b, lst, ap)
  BY <1>4, <1>12, <1>13, <1>14 DEF Sound
<1>16. QED
  BY <1>15 DEF c, s

(* The invariant after a round of fork: the child p has a descriptor for   *)
(* an entry that its parent has one for.                                   *)
Opens(fds, fds2, p, fd, s) ==
  /\ SameFds(fds, fds2, p, fd) /\ fds[p][fd] = -1 /\ fds2[p][fd] = s
  /\ RefsTo(fds, s) # {}

HasRoom(m, s) ==
  /\ \A i \in Inode : m.inode[i].cnt + 1 < CntMod
  /\ m.table[s].pos + 1 < CntMod

OneMore(c, m) ==
  /\ \A i \in Inode : c.inode[i].cnt <= m.inode[i].cnt + 1
  /\ \A t \in Slot : c.table[t].pos <= m.table[t].pos + 1 /\ c.table[t].flag = m.table[t].flag

LEMMA CountRound ==
  ASSUME NEW m \in FilesType, NEW b \in [Proc -> CallType], NEW lst \in [Slot -> Nat],
         NEW ap, NEW fds, NEW fds2, NEW p \in Proc, NEW fd \in Fd, NEW s \in Slot,
         b[p] = NotBusy, Opens(fds, fds2, p, fd, s), ap => is_pipe(m, s), HasRoom(m, s),
         Sound(m, fds, b, lst, ap)
  PROVE  /\ CountEntry(m, s) \in FilesType
         /\ Sound(CountEntry(m, s), fds2, b, lst, ap)
         /\ OneMore(CountEntry(m, s), m)
<1> DEFINE c == CountEntry(m, s)
           i == m.table[s].inode
<1>1. s # -1 /\ NULL \notin Inode /\ PipePage \notin Inode /\ NULL # PipePage
  BY Sizes DEF NULL, PipePage
<1>2. /\ m.table[s] \in EntryRec /\ i \in Inode \cup {NULL, PipePage}
      /\ m.inode \in [Inode -> InodeRec] /\ \A j \in Inode : m.inode[j].cnt \in Nat
      /\ \A t \in Slot : m.table[t].pos \in Nat
  <2>1. /\ m.inode \in [Inode -> InodeRec] /\ \A t \in Slot : m.table[t] \in EntryRec
    BY FieldTypes
  <2>2. i \in Inode \cup {NULL, PipePage} /\ \A t \in Slot : m.table[t].pos \in 0 .. CntMod - 1
    BY <2>1, Entries
  <2>3. \A j \in Inode : m.inode[j].cnt \in 0 .. CntMod - 1
    BY <2>1, Records
  <2>4. QED
    BY <2>1, <2>2, <2>3, Sizes
<1>3. ListOK(m) /\ CallsOK(m, b) /\ HeldOK(m, b)
  BY DEF Sound
<1>4. /\ c \in FilesType /\ c.open = m.open
      /\ \A t \in Slot : /\ c.table[t].inode = m.table[t].inode
                         /\ c.table[t].flag = m.table[t].flag
                         /\ t # s => c.table[t] = m.table[t]
      /\ is_pipe(m, s) => c.inode = m.inode /\ c.table[s].pos = m.table[s].pos + 1
      /\ ~is_pipe(m, s) => c.table = m.table
      /\ \A j \in Inode : /\ j # i => c.inode[j] = m.inode[j]
                          /\ ~is_pipe(m, s) /\ j = i => c.inode[j].cnt = m.inode[j].cnt + 1
  BY CountFacts DEF HasRoom
<1> HIDE DEF c, i
<1>5. /\ SameEntries(m, c, s) /\ SameCalls(b, b, p) /\ Shorter(c, m)
      /\ \A j : ~Making(b[p], j)
  BY <1>4 DEF SameEntries, SameCalls, Shorter, Making, Creating, NotBusy
<1>6. \A j \in Inode : /\ c.inode[j].cnt \in Nat /\ c.inode[j].cnt >= m.inode[j].cnt
                       /\ c.inode[j].cnt <= m.inode[j].cnt + 1
  BY <1>2, <1>4
<1>7. \A t \in Slot : c.table[t].pos <= m.table[t].pos + 1
  BY <1>2, <1>4
<1>8. \A j : Has(c, s, j) = Has(m, s, j) /\ Has(m, s, j) \in {0, 1}
  BY <1>4 DEF Has
<1>9. ListOK(c)
  <2>1. \A k \in DOMAIN m.open : m.open[k] \in Inode
    BY FieldTypes
  <2>2. \A k \in DOMAIN m.open : c.inode[m.open[k]].cnt >= 1
    BY <1>2, <1>3, <1>6, <2>1 DEF ListOK
  <2>3. QED
    BY <1>3, <1>4, <2>2 DEF ListOK
<1>10. HeldOK(c, b)
  <2>1. ASSUME NEW j \in Inode
        PROVE  c.inode[j].cnt >= m.inode[j].cnt + Gain(m, c, b, b, s, p, j)
    BY <1>2, <1>6, <1>8, GainSame
  <2>2. QED
    BY <1>3, <1>4, <1>5, <2>1, HeldStep
<1>11. CallsOK(c, b)
  <2>1. \A j \in Inode : c.inode[j] = m.inode[j] \/ \E t \in Slot : m.table[t].inode = j
    BY <1>4 DEF i
  <2>2. QED
    BY <1>3, <1>4, <1>5, <2>1, CallsClose
<1>12. ASSUME ap
       PROVE  ExactOK(c, fds2, b, lst)
  <2>1. ExactOK(m, fds, b, lst) /\ EntryOK(m, fds, lst, s)
    BY <1>12 DEF Sound, ExactOK
  <2>2. is_pipe(m, s) /\ c.inode = m.inode /\ c.table[s].pos = m.table[s].pos + 1
        /\ i = PipePage /\ lst[s] \in Nat
        /\ m.table[s].pos = Cardinality(RefsTo(fds, s)) + lst[s]
    BY <1>2, <1>4, <1>12, <2>1 DEF EntryOK, is_pipe, i, Opens
  <2>3. CountOK(c, b)
    <3>1. ASSUME NEW j \in Inode
          PROVE  c.inode[j].cnt = m.inode[j].cnt + Gain(m, c, b, b, s, p, j)
      BY <1>2, <1>8, <2>2, GainSame
    <3>2. QED
      BY <1>4, <1>5, <2>1, <3>1, CountStep DEF ExactOK
  <2>4. Leads(fds, p, fd, s) = 0 /\ Leads(fds2, p, fd, s) = 1
    BY <1>1 DEF Leads, Opens
  <2>5. Cardinality(RefsTo(fds, s)) \in Nat
        /\ Cardinality(RefsTo(fds2, s)) = Cardinality(RefsTo(fds, s)) + 1
    <3>1. /\ Cardinality(RefsTo(fds, s)) \in Nat /\ Cardinality(RefsTo(fds2, s)) \in Nat
          /\ Cardinality(RefsTo(fds2, s)) =
               Cardinality(RefsTo(fds, s)) + Leads(fds2, p, fd, s) - Leads(fds, p, fd, s)
      <4>1. SameFds(fds, fds2, p, fd)
        BY DEF Opens
      <4>2. QED
        BY <4>1, RefsStep
    <3>2. QED
      BY ONLY <2>4, <3>1
  <2>6. EntryOK(c, fds2, lst, s)
    <3>1. c.table[s].flag = "PIPE_FLAG" /\ c.table[s].inode = PipePage
      BY <1>4, <2>2 DEF is_pipe, i
    <3>2. c.table[s].pos = Cardinality(RefsTo(fds2, s)) + lst[s]
      BY <2>2, <2>5
    <3>3. QED
      BY <1>1, <3>1, <3>2 DEF EntryOK
  <2>7. ASSUME NEW t \in Slot \ {s}
        PROVE  RefsTo(fds2, t) = RefsTo(fds, t)
    <3>1. /\ Leads(fds, p, fd, t) = 0 /\ Leads(fds2, p, fd, t) = 0
          /\ SameFds(fds, fds2, p, fd)
      BY Sizes DEF Leads, Opens
    <3>2. QED
      BY <3>1, RefsOther
  <2>8. ASSUME NEW q \in Proc \ {p}, b[q].op \in {"open"} \cup Creating
        PROVE  b[q].slot # s
    <3>1. PickOK(m, fds, b, q) /\ b[q].slot \in Slot
      BY <2>1, <2>8, Calls DEF ExactOK
    <3>2. RefsTo(fds, b[q].slot) = {}
      BY <2>1, <2>8, <3>1 DEF PickOK, ExactOK, EntryOK
    <3>3. QED
      BY <3>2 DEF Opens
  <2>9. PickOK(c, fds2, b, p) /\ b[p].op # "open"
    BY DEF PickOK, NotBusy, Creating
  <2>10. QED
    BY <1>4, <1>5, <2>1, <2>3, <2>6, <2>7, <2>8, <2>9, ExactStep
<1>13. Sound(c, fds2, b, lst, ap)
  BY <1>9, <1>10, <1>11, <1>12 DEF Sound
<1>14. QED
  BY <1>4, <1>6, <1>7, <1>13 DEF c, OneMore

-----------------------------------------------------------------------------
(* The calls that never sleep.                                             *)

SameOn(fds, fds2) == \A q \in Proc, d \in Fd : fds2[q][d] = fds[q][d]

LEMMA SoundFds ==
  ASSUME NEW m, NEW b, NEW lst, NEW ap, NEW ap2, NEW fds, NEW fds2,
         SameOn(fds, fds2), ap2 => ap, Sound(m, fds, b, lst, ap)
  PROVE  Sound(m, fds2, b, lst, ap2)
<1>1. \A s : RefsTo(fds2, s) = RefsTo(fds, s)
  BY DEF RefsTo, SameOn
<1>2. ExactOK(m, fds, b, lst) => ExactOK(m, fds2, b, lst)
  BY <1>1 DEF ExactOK, EntryOK, PickOK
<1>3. QED
  BY <1>2 DEF Sound

LEMMA ClosedType ==
  ASSUME NEW m \in FilesType, NEW s \in Slot
  PROVE  CloseEntry(m, s) \in FilesType
BY ClosedPipe, ClosedFile, ClosedNothing

(* A property of the rounds of a loop over the descriptors holds after     *)
(* each of them when it holds before the first and each round keeps it.    *)
LEMMA RoundsKeep ==
  ASSUME NEW Bad \in SUBSET (2 .. MAX_FILES_OPEN_PER_PROC - 1), 2 \notin Bad,
         \A k \in Fd : k - 1 \notin Bad => k \notin Bad
  PROVE  MAX_FILES_OPEN_PER_PROC - 1 \notin Bad
<1> DEFINE hi == MAX_FILES_OPEN_PER_PROC - 1
<1>1. hi \in Nat /\ Fd = 3 .. hi
  BY Sizes
<1>2. SUFFICES ASSUME Bad # {}
               PROVE  FALSE
  OBVIOUS
<1>3. Bad \in SUBSET Nat
  BY <1>1
<1>4. PICK k \in Bad : \A n \in Bad : k <= n
  BY <1>2, <1>3, LeastNat
<1>5. k \in Fd /\ k - 1 \notin Bad
  BY <1>1, <1>4
<1>6. QED
  BY <1>4, <1>5

LEMMA ExitKeeps ==
  ASSUME FilesInv, NEW p \in Proc, busy[p] = NotBusy
  PROVE  /\ release_prog_resource(p) \in FilesType
         /\ Sound(release_prog_resource(p), [fd_table EXCEPT ![p] = NoFds], busy, lost, apart)
<1> DEFINE hi == MAX_FILES_OPEN_PER_PROC - 1
           t == fd_table[p]
           C == Closed(t)
           F(k) == [q \in Proc |-> IF q = p THEN [d \in Fd |-> IF d <= k THEN -1 ELSE t[d]]
                                   ELSE fd_table[q]]
           Good(k) == C[k] \in FilesType /\ Sound(C[k], F(k), busy, lost, apart)
           Bad == {k \in 2 .. hi : ~Good(k)}
<1>1. /\ files \in FilesType /\ t \in TableType /\ busy \in [Proc -> CallType]
      /\ lost \in [Slot -> Nat] /\ fd_table \in [Proc -> TableType]
      /\ Sound(files, fd_table, busy, lost, apart)
  BY DEF FilesInv, Types
<1>2. /\ C[2] = files
      /\ \A k \in Fd : C[k] = IF t[k] = -1 THEN C[k - 1] ELSE CloseEntry(C[k - 1], t[k])
  BY <1>1, ClosedType, ClosedRounds
<1>3. hi \in Nat /\ hi >= 3 /\ Fd = 3 .. hi
  BY Sizes
<1>4. \A k \in Fd : t[k] \in Slot \cup {-1}
  BY <1>1 DEF TableType
<1> HIDE DEF C
<1>5. \A k \in 2 .. hi : /\ \A d \in Fd : F(k)[p][d] = IF d <= k THEN -1 ELSE t[d]
                         /\ \A q \in Proc \ {p} : F(k)[q] = fd_table[q]
  BY <1>3
<1> HIDE DEF F, hi, t
<1>6. Good(2)
  <2>1. SameOn(fd_table, F(2))
    <3>1. \A d \in Fd : F(2)[p][d] = fd_table[p][d]
      BY <1>3, <1>5 DEF t
    <3>2. \A q \in Proc \ {p} : F(2)[q] = fd_table[q]
      BY <1>3, <1>5
    <3>3. QED
      BY <3>1, <3>2 DEF SameOn
  <2>2. QED
    BY <1>1, <1>2, <2>1, SoundFds
<1>7. ASSUME NEW k \in Fd, Good(k - 1)
      PROVE  Good(k)
  <2>1. k \in 2 .. hi /\ k - 1 \in 2 .. hi /\ k \in Int
    BY <1>3
  <2>2. /\ \A d \in Fd : F(k)[p][d] = IF d <= k THEN -1 ELSE t[d]
        /\ \A d \in Fd : F(k - 1)[p][d] = IF d <= k - 1 THEN -1 ELSE t[d]
        /\ \A q \in Proc \ {p} : F(k)[q] = fd_table[q] /\ F(k - 1)[q] = fd_table[q]
    BY <1>5, <2>1
  <2>3. /\ F(k)[p][k] = -1 /\ F(k - 1)[p][k] = t[k]
        /\ \A d \in Fd : d # k => F(k)[p][d] = F(k - 1)[p][d]
    BY <1>3, <2>1, <2>2
  <2>4. SameFds(F(k - 1), F(k), p, k)
    BY <2>2, <2>3 DEF SameFds
  <2>5. CASE t[k] = -1
    <3>1. SameOn(F(k - 1), F(k))
      BY <2>2, <2>3, <2>5 DEF SameOn
    <3>2. QED
      BY <1>2, <1>7, <2>5, <3>1, SoundFds
  <2>6. CASE t[k] # -1
    <3>1. t[k] \in Slot /\ C[k] = CloseEntry(C[k - 1], t[k])
      BY <1>2, <1>4, <2>6
    <3>2. C[k] \in FilesType
      BY <1>7, <3>1, ClosedType
    <3>3. Sound(CloseEntry(C[k - 1], F(k - 1)[p][k]), F(k), busy, lost, apart)
      <4>1. /\ C[k - 1] \in FilesType /\ Sound(C[k - 1], F(k - 1), busy, lost, apart)
            /\ F(k - 1)[p][k] \in Slot /\ F(k)[p][k] = -1 /\ k \in Fd /\ p \in Proc
            /\ SameFds(F(k - 1), F(k), p, k) /\ busy[p] = NotBusy
            /\ busy \in [Proc -> CallType] /\ lost \in [Slot -> Nat]
        BY <1>1, <1>7, <2>3, <2>4, <3>1
      <4>2. QED
        BY ONLY <4>1, CloseRound
    <3>4. QED
      BY <2>3, <3>1, <3>2, <3>3
  <2>7. QED
    BY <2>5, <2>6
<1>8. Good(hi)
  <2>1. Bad \in SUBSET (2 .. hi) /\ 2 \notin Bad /\ hi \in 2 .. hi
    BY <1>3, <1>6
  <2>2. \A k \in Fd : k - 1 \notin Bad => k \notin Bad
    BY <1>3, <1>7
  <2> HIDE DEF Bad
  <2>3. hi \notin Bad
    BY <2>1, <2>2, RoundsKeep DEF hi
  <2>4. QED
    BY <2>1, <2>3 DEF Bad
<1>9. SameOn(F(hi), [fd_table EXCEPT ![p] = NoFds])
  <2>1. \A d \in Fd : NoFds[d] = -1
    BY FileAssumption DEF NoFds, Fd
  <2>2. \A d \in Fd : F(hi)[p][d] = -1
    BY <1>3, <1>5
  <2>3. \A q \in Proc \ {p} : F(hi)[q] = fd_table[q]
    BY <1>3, <1>5
  <2>4. QED
    BY <1>1, <2>1, <2>2, <2>3 DEF SameOn
<1>10. release_prog_resource(p) = C[hi]
  BY DEF release_prog_resource, C, hi, t
<1>11. QED
  BY <1>8, <1>9, <1>10, SoundFds

(* Nothing that is open is shared through fork but pipes.                  *)
Pipes(m, t) == \A d \in Fd : t[d] # -1 => is_pipe(m, t[d])

LEMMA ForkKeeps ==
  ASSUME FilesInv, NEW p \in live, NEW c \in Proc \ live, RoomToCount
  PROVE  /\ update_inode_open_cnts(fd_table[p]) \in FilesType
         /\ Sound(update_inode_open_cnts(fd_table[p]), [fd_table EXCEPT ![c] = fd_table[p]],
                  busy, lost, apart /\ Pipes(files, fd_table[p]))
<1> DEFINE hi == MAX_FILES_OPEN_PER_PROC - 1
           t == fd_table[p]
           ap == apart /\ Pipes(files, t)
           C == Counted(t)
           F(k) == [q \in Proc |-> IF q = c THEN [d \in Fd |-> IF d <= k THEN t[d] ELSE -1]
                                   ELSE fd_table[q]]
           Room(k) == /\ \A i \in Inode : C[k].inode[i].cnt <= files.inode[i].cnt + k - 2
                      /\ \A s \in Slot : C[k].table[s].pos <= files.table[s].pos + k - 2
                      /\ \A s \in Slot : C[k].table[s].flag = files.table[s].flag
           Good(k) == C[k] \in FilesType /\ Sound(C[k], F(k), busy, lost, ap) /\ Room(k)
           Bad == {k \in 2 .. hi : ~Good(k)}
<1>1. /\ files \in FilesType /\ p \in Proc /\ t \in TableType /\ busy \in [Proc -> CallType]
      /\ lost \in [Slot -> Nat] /\ fd_table \in [Proc -> TableType]
      /\ Sound(files, fd_table, busy, lost, apart)
      /\ c # p /\ busy[c] = NotBusy /\ \A d \in Fd : fd_table[c][d] = -1
  BY DEF FilesInv, Types, DeadOK
<1>2. /\ C[2] = files
      /\ \A k \in Fd : C[k] = IF t[k] = -1 THEN C[k - 1] ELSE CountEntry(C[k - 1], t[k])
  BY <1>1, CountFacts, CountedRounds
<1>3. hi \in Nat /\ hi >= 3 /\ Fd = 3 .. hi /\ Cardinality(Fd) = hi - 2
  <2>1. hi \in Nat /\ hi >= 3 /\ Fd = 3 .. hi
    BY Sizes
  <2> HIDE DEF hi
  <2>2. QED
    BY <2>1, FS_Interval
<1>4. \A k \in Fd : t[k] \in Slot \cup {-1}
  BY <1>1 DEF TableType
<1>5. /\ \A i \in Inode : files.inode[i].cnt \in Nat /\ files.inode[i].cnt + hi - 2 < CntMod
      /\ \A s \in Slot : files.table[s].pos \in Nat /\ files.table[s].pos + hi - 2 < CntMod
      /\ CntMod \in Nat
  <2>1. \A i \in Inode : files.inode[i].cnt \in 0 .. CntMod - 1
    BY <1>1, FieldTypes, Records
  <2>2. \A s \in Slot : files.table[s].pos \in 0 .. CntMod - 1
    BY <1>1, FieldTypes, Entries
  <2> HIDE DEF hi
  <2>3. QED
    BY <1>3, <2>1, <2>2, Sizes DEF RoomToCount
<1> HIDE DEF C
<1>6. \A k \in 2 .. hi : /\ \A d \in Fd : F(k)[c][d] = IF d <= k THEN t[d] ELSE -1
                         /\ \A q \in Proc \ {c} : F(k)[q] = fd_table[q]
  BY <1>3
<1> HIDE DEF F, hi, t, ap
<1>7. Good(2)
  <2>1. SameOn(fd_table, F(2))
    <3>1. \A d \in Fd : F(2)[c][d] = fd_table[c][d]
      BY <1>1, <1>3, <1>6
    <3>2. \A q \in Proc \ {c} : F(2)[q] = fd_table[q]
      BY <1>3, <1>6
    <3>3. QED
      BY <3>1, <3>2 DEF SameOn
  <2>2. Sound(C[2], F(2), busy, lost, ap)
    BY <1>1, <1>2, <2>1, SoundFds DEF ap
  <2>3. Room(2)
    BY <1>2, <1>5
  <2>4. QED
    BY <1>1, <1>2, <2>2, <2>3
<1>8. ASSUME NEW k \in Fd, Good(k - 1)
      PROVE  Good(k)
  <2>1. k \in 2 .. hi /\ k - 1 \in 2 .. hi /\ k \in Int
    BY <1>3
  <2>2. /\ \A d \in Fd : F(k)[c][d] = IF d <= k THEN t[d] ELSE -1
        /\ \A d \in Fd : F(k - 1)[c][d] = IF d <= k - 1 THEN t[d] ELSE -1
        /\ \A q \in Proc \ {c} : F(k)[q] = fd_table[q] /\ F(k - 1)[q] = fd_table[q]
    BY <1>6, <2>1
  <2>3. /\ F(k)[c][k] = t[k] /\ F(k - 1)[c][k] = -1
        /\ \A d \in Fd : d # k => F(k)[c][d] = F(k - 1)[c][d]
    BY <1>3, <2>1, <2>2
  <2>4. SameFds(F(k - 1), F(k), c, k)
    BY <2>2, <2>3 DEF SameFds
  <2>5. /\ C[k - 1] \in FilesType /\ Sound(C[k - 1], F(k - 1), busy, lost, ap)
        /\ \A i \in Inode : /\ C[k - 1].inode[i].cnt \in Nat
                            /\ C[k - 1].inode[i].cnt <= files.inode[i].cnt + k - 3
        /\ \A s \in Slot : /\ C[k - 1].table[s].pos \in Nat
                           /\ C[k - 1].table[s].pos <= files.table[s].pos + k - 3
                           /\ C[k - 1].table[s].flag = files.table[s].flag
    <3>1. C[k - 1] \in FilesType /\ Sound(C[k - 1], F(k - 1), busy, lost, ap) /\ Room(k - 1)
      BY <1>8
    <3>2. \A i \in Inode : C[k - 1].inode[i].cnt \in 0 .. CntMod - 1
      BY <3>1, FieldTypes, Records
    <3>3. \A s \in Slot : C[k - 1].table[s].pos \in 0 .. CntMod - 1
      BY <3>1, FieldTypes, Entries
    <3>4. \A n \in Nat : n + (k - 1) - 2 = n + k - 3
      BY <2>1
    <3>5. QED
      BY <1>5, <3>1, <3>2, <3>3, <3>4
  <2>6. CASE t[k] = -1
    <3>1. SameOn(F(k - 1), F(k))
      BY <2>2, <2>3, <2>6 DEF SameOn
    <3>2. Sound(C[k], F(k), busy, lost, ap)
      BY <1>2, <2>5, <2>6, <3>1, SoundFds
    <3>3. C[k] = C[k - 1]
      BY <1>2, <2>6
    <3>4. Room(k)
      BY <1>5, <2>1, <2>5, <3>3
    <3>5. QED
      BY <2>5, <3>2, <3>3, <3>4
  <2>7. CASE t[k] # -1
    <3> DEFINE s == t[k]
               m == C[k - 1]
    <3>1. s \in Slot /\ C[k] = CountEntry(m, s)
      BY <1>2, <1>4, <2>7
    <3>2. RefsTo(F(k - 1), s) # {}
      <4>1. F(k - 1)[p][k] = s
        BY <1>1, <2>2 DEF t
      <4>2. <<p, k>> \in RefsTo(F(k - 1), s)
        BY <1>1, <4>1 DEF RefsTo
      <4>3. QED
        BY <4>2
    <3>3. ap => is_pipe(m, s)
      BY <2>5, <2>7, <3>1 DEF ap, Pipes, is_pipe
    <3>4. HasRoom(m, s)
      <4>1. k <= hi /\ k \in Int /\ hi \in Int
        BY <1>3
      <4>2. \A i \in Inode : C[k - 1].inode[i].cnt + 1 < CntMod
        BY <1>5, <2>5, <4>1
      <4>3. C[k - 1].table[s].pos + 1 < CntMod
        BY <1>5, <2>5, <3>1, <4>1
      <4>4. QED
        BY <4>2, <4>3 DEF HasRoom
    <3> HIDE DEF s, m
    <3>5. /\ CountEntry(m, s) \in FilesType
          /\ Sound(CountEntry(m, s), F(k), busy, lost, ap)
          /\ OneMore(CountEntry(m, s), m)
      <4>1. /\ m \in FilesType /\ Sound(m, F(k - 1), busy, lost, ap)
            /\ Opens(F(k - 1), F(k), c, k, s) /\ k \in Fd /\ c \in Proc /\ s \in Slot
            /\ busy[c] = NotBusy /\ busy \in [Proc -> CallType] /\ lost \in [Slot -> Nat]
        BY <1>1, <2>3, <2>4, <2>5, <3>1, <3>2 DEF s, m, Opens
      <4>2. QED
        BY ONLY <3>3, <3>4, <4>1, CountRound
    <3>6. \A i \in Inode : CountEntry(m, s).inode[i].cnt <= files.inode[i].cnt + k - 2
      <4>1. \A i \in Inode : CountEntry(m, s).inode[i].cnt \in 0 .. CntMod - 1
        BY <3>5, FieldTypes, Records
      <4>2. QED
        BY <1>5, <2>1, <2>5, <3>5, <4>1 DEF m, OneMore
    <3>7. \A u \in Slot : CountEntry(m, s).table[u].pos <= files.table[u].pos + k - 2
      <4>1. \A u \in Slot : CountEntry(m, s).table[u].pos \in 0 .. CntMod - 1
        BY <3>5, FieldTypes, Entries
      <4>2. QED
        BY <1>5, <2>1, <2>5, <3>5, <4>1 DEF m, OneMore
    <3>8. \A u \in Slot : CountEntry(m, s).table[u].flag = files.table[u].flag
      BY <2>5, <3>5 DEF m, OneMore
    <3>9. QED
      BY <3>1, <3>5, <3>6, <3>7, <3>8
  <2>8. QED
    BY <2>6, <2>7
<1>9. Good(hi)
  <2>1. Bad \in SUBSET (2 .. hi) /\ 2 \notin Bad /\ hi \in 2 .. hi
    BY <1>3, <1>7
  <2>2. \A k \in Fd : k - 1 \notin Bad => k \notin Bad
    BY <1>3, <1>8
  <2> HIDE DEF Bad
  <2>3. hi \notin Bad
    BY <2>1, <2>2, RoundsKeep DEF hi
  <2>4. QED
    BY <2>1, <2>3 DEF Bad
<1>10. SameOn(F(hi), [fd_table EXCEPT ![c] = t])
  <2>1. \A d \in Fd : F(hi)[c][d] = t[d]
    BY <1>3, <1>6
  <2>2. \A q \in Proc \ {c} : F(hi)[q] = fd_table[q]
    BY <1>3, <1>6
  <2>3. QED
    BY <1>1, <2>1, <2>2 DEF SameOn
<1>11. update_inode_open_cnts(t) = C[hi]
  BY DEF update_inode_open_cnts, C, hi
<1>12. QED
  BY <1>9, <1>10, <1>11, SoundFds DEF t, ap

(* A descriptor table with one descriptor changed.                         *)
LEMMA TableWith ==
  ASSUME NEW t \in TableType, NEW fd \in Fd, NEW s \in Slot \cup {-1}
  PROVE  [t EXCEPT ![fd] = s] \in TableType
<1>1. fd \in 0 .. MAX_FILES_OPEN_PER_PROC - 1 /\ s \in -1 .. MAX_FILE_OPEN - 1
  BY FileAssumption DEF Fd, Slot
<1>2. Fd \subseteq 0 .. MAX_FILES_OPEN_PER_PROC - 1
  BY FileAssumption DEF Fd
<1>3. QED
  BY <1>1, <1>2 DEF TableType

LEMMA NoFdsType == NoFds \in TableType
BY FileAssumption DEF NoFds, TableType, Fd, Slot

LEMMA CloseKeeps ==
  ASSUME FilesInv, NEW p \in Proc, NEW fd \in Fd, sys_close(p, fd)
  PROVE  FilesInv'
<1>1. /\ p \in live /\ busy[p] = NotBusy /\ files \in FilesType /\ busy \in [Proc -> CallType]
      /\ lost \in [Slot -> Nat] /\ fd_table \in [Proc -> TableType]
      /\ Sound(files, fd_table, busy, lost, apart)
  BY DEF sys_close, CanCall, FilesInv, Types
<1>2. fd_table[p] \in TableType /\ fd_table[p][fd] \in Slot
  BY <1>1 DEF sys_close, TableType
<1>3. fd_table' = [fd_table EXCEPT ![p] = [fd_table[p] EXCEPT ![fd] = -1]]
  BY <1>1 DEF sys_close
<1>4. fd_table' \in [Proc -> TableType]
  BY <1>1, <1>2, <1>3, TableWith
<1>5. /\ fd_table'[p] = [fd_table[p] EXCEPT ![fd] = -1]
      /\ \A q \in Proc \ {p} : fd_table'[q] = fd_table[q]
  BY <1>1, <1>3
<1>6. /\ fd_table'[p][fd] = -1 /\ SameFds(fd_table, fd_table', p, fd)
      /\ \A d \in Fd : fd_table[p][d] = -1 => fd_table'[p][d] = -1
  <2>1. \A d \in Fd : d \in DOMAIN fd_table[p]
    BY <1>2, FileAssumption DEF TableType, Fd
  <2>2. QED
    BY <1>5, <2>1 DEF SameFds
<1>7. files' = CloseEntry(files, fd_table[p][fd])
  BY DEF sys_close
<1>8. files' \in FilesType
  BY <1>1, <1>2, <1>7, ClosedType
<1>9. Sound(files', fd_table', busy, lost, apart)
  BY <1>1, <1>2, <1>6, <1>7, CloseRound
<1>10. DeadOK(fd_table', live, busy)
  BY <1>1, <1>5 DEF DeadOK, FilesInv
<1>11. QED
  BY <1>4, <1>8, <1>9, <1>10 DEF sys_close, FilesInv, Types

LEMMA RedirectKeeps ==
  ASSUME FilesInv, NEW p \in Proc, NEW old \in Std, NEW new \in {old} \cup Fd,
         sys_fd_redirect(p, old, new)
  PROVE  FilesInv'
<1> DEFINE x == IF new < 3 THEN new ELSE fd_table[p][new]
<1>1. /\ p \in live /\ fd_table \in [Proc -> TableType] /\ fd_table[p] \in TableType
      /\ Sound(files, fd_table, busy, lost, apart)
  BY DEF sys_fd_redirect, CanCall, FilesInv, Types
<1>2. fd_table' = [fd_table EXCEPT ![p] = [fd_table[p] EXCEPT ![old] = x]]
  BY <1>1 DEF sys_fd_redirect
<1>3. /\ old \in 0 .. MAX_FILES_OPEN_PER_PROC - 1 /\ old \notin Fd
      /\ Fd \subseteq 0 .. MAX_FILES_OPEN_PER_PROC - 1
  BY FileAssumption DEF Fd
<1>4. x \in -1 .. MAX_FILE_OPEN - 1
  <2>1. CASE new \in Fd
    <3>1. ~(new < 3) /\ fd_table[p][new] \in Slot \cup {-1}
      BY <1>1, <2>1, Sizes DEF TableType
    <3>2. QED
      BY <3>1, FileAssumption DEF Slot
  <2>2. CASE new = old
    BY <2>2, FileAssumption
  <2>3. QED
    BY <2>1, <2>2
<1> HIDE DEF x
<1>5. /\ [fd_table[p] EXCEPT ![old] = x] \in TableType
      /\ \A d \in Fd : [fd_table[p] EXCEPT ![old] = x][d] = fd_table[p][d]
  BY <1>1, <1>3, <1>4 DEF TableType
<1>6. fd_table' \in [Proc -> TableType] /\ SameOn(fd_table, fd_table')
  BY <1>1, <1>2, <1>5 DEF SameOn
<1>7. Sound(files, fd_table', busy, lost, apart)
  BY <1>1, <1>6, SoundFds
<1>8. DeadOK(fd_table', live, busy)
  BY <1>6 DEF DeadOK, FilesInv, SameOn
<1>9. QED
  BY <1>6, <1>7, <1>8 DEF sys_fd_redirect, FilesInv, Types

LEMMA ProcessExits ==
  ASSUME FilesInv, NEW p \in Proc, sys_exit(p)
  PROVE  FilesInv'
<1>1. p \in live /\ busy[p] = NotBusy /\ fd_table \in [Proc -> TableType]
  BY DEF sys_exit, CanCall, FilesInv, Types
<1>2. /\ fd_table' = [fd_table EXCEPT ![p] = NoFds] /\ files' = release_prog_resource(p)
      /\ live' = live \ {p}
  BY DEF sys_exit
<1>3. files' \in FilesType /\ Sound(files', fd_table', busy, lost, apart)
  BY <1>1, <1>2, ExitKeeps
<1>4. fd_table' \in [Proc -> TableType]
  BY <1>1, <1>2, NoFdsType
<1>5. DeadOK(fd_table', live', busy)
  <2>1. \A d \in Fd : NoFds[d] = -1
    BY FileAssumption DEF NoFds, Fd
  <2>2. QED
    BY <1>1, <1>2, <2>1 DEF DeadOK, FilesInv
<1>6. QED
  BY <1>2, <1>3, <1>4, <1>5 DEF sys_exit, FilesInv, Types

LEMMA ProcessForks ==
  ASSUME FilesInv, NEW p \in Proc, NEW c \in Proc, sys_fork(p, c)
  PROVE  FilesInv'
<1>1. /\ p \in live /\ c \in Proc \ live /\ RoomToCount /\ fd_table \in [Proc -> TableType]
      /\ live \subseteq Proc /\ apart \in BOOLEAN
  BY DEF sys_fork, CanCall, FilesInv, Types
<1>2. /\ fd_table' = [fd_table EXCEPT ![c] = fd_table[p]] /\ live' = live \cup {c}
      /\ files' = update_inode_open_cnts(fd_table[p])
      /\ apart' = (apart /\ Pipes(files, fd_table[p]))
  BY DEF sys_fork, Pipes
<1>3. files' \in FilesType /\ Sound(files', fd_table', busy, lost, apart')
  BY <1>1, <1>2, ForkKeeps
<1>4. fd_table' \in [Proc -> TableType] /\ live' \subseteq Proc /\ apart' \in BOOLEAN
  BY <1>1, <1>2 DEF Pipes, is_pipe
<1>5. DeadOK(fd_table', live', busy)
  BY <1>1, <1>2 DEF DeadOK, FilesInv
<1>6. QED
  BY <1>3, <1>4, <1>5 DEF sys_fork, FilesInv, Types

-----------------------------------------------------------------------------
(* The calls that sleep.                                                   *)

LEMMA FreeSlotIs ==
  ASSUME get_free_slot_in_global # -1
  PROVE  /\ get_free_slot_in_global \in Slot
         /\ files.table[get_free_slot_in_global].inode = NULL
<1>1. FreeSlots # {} /\ FreeSlots \in SUBSET Nat /\ get_free_slot_in_global = Least(FreeSlots)
  BY Sizes DEF get_free_slot_in_global, FreeSlots
<1>2. Least(FreeSlots) \in FreeSlots
  BY ONLY <1>1, LeastIs
<1>3. QED
  BY <1>1, <1>2 DEF FreeSlots

LEMMA FirstListedIs ==
  ASSUME FilesInv, NEW f, Listed(f) # {}
  PROVE  /\ FirstListed(f) \in Inode
         /\ \E k \in DOMAIN files.open : files.open[k] = FirstListed(f)
         /\ \A q \in Proc : NotTheirs(busy, q, FirstListed(f)) /\ ~Making(busy[q], FirstListed(f))
<1>1. Listed(f) \in SUBSET Nat /\ files.open \in Seq(Inode)
  BY FieldTypes DEF Listed, FilesInv, Types
<1>2. Least(Listed(f)) \in Listed(f)
  BY ONLY <1>1, Listed(f) # {}, LeastIs
<1>3. PICK k \in DOMAIN files.open : files.open[k] = FirstListed(f)
  BY <1>2 DEF Listed, FirstListed
<1>4. FirstListed(f) \in Inode
  BY <1>1, <1>3
<1>5. \A q \in Proc : busy[q].op \in Loading \cup Creating => busy[q].ino # FirstListed(f)
  BY <1>3 DEF FilesInv, Sound, CallsOK, CallOK
<1>6. QED
  BY <1>3, <1>4, <1>5 DEF NotTheirs, Making

(* A new inode is in no list, entry or call.                               *)
LEMMA FreeInodeIs ==
  ASSUME FilesInv, FreeInodes # {}, NEW p \in Proc
  PROVE  /\ Least(FreeInodes) \in Inode /\ files.inode[Least(FreeInodes)] = NoInode
         /\ \A q \in Proc : busy[q].ino # Least(FreeInodes)
         /\ \A k \in DOMAIN files.open : files.open[k] # Least(FreeInodes)
         /\ \A s \in Slot : files.table[s].inode # Least(FreeInodes)
<1> DEFINE i == Least(FreeInodes)
<1>1. FreeInodes \in SUBSET Nat
  BY Sizes DEF FreeInodes
<1>2. i \in FreeInodes
  BY ONLY <1>1, FreeInodes # {}, LeastIs
<1> HIDE DEF i
<1>3. i \in Inode /\ files.inode[i] = NoInode /\ \A q \in Proc : busy[q].ino # i
  BY <1>2 DEF FreeInodes
<1>4. files.inode[i].cnt = 0 /\ ~Made(busy, i)
  BY <1>3, Records DEF Made
<1>5. \A k \in DOMAIN files.open : files.open[k] # i
  BY <1>4 DEF FilesInv, Sound, ListOK
<1>6. ASSUME NEW s \in Slot, files.table[s].inode = i
      PROVE  FALSE
  <2>1. Uses(files, busy, i) >= 1
    BY <1>6, UsesPositive
  <2>2. 0 >= Uses(files, busy, i)
    BY <1>3, <1>4 DEF FilesInv, Sound, HeldOK
  <2>3. Uses(files, busy, i) \in Nat
    <3>1. SameEntries(files, files, s) /\ SameCalls(busy, busy, p)
      BY DEF SameEntries, SameCalls
    <3>2. QED
      BY <3>1, UsesStep
  <2>4. QED
    BY <2>1, <2>2, <2>3
<1>7. QED
  BY <1>3, <1>5, <1>6 DEF i

(* A step from one piece of a call to the next that plays the same part.   *)
SameRole(c, c2) ==
  /\ c2.ino = c.ino /\ c2.slot = c.slot
  /\ c2.op = "open" <=> c.op = "open"
  /\ c2.op \in Loading <=> c.op \in Loading
  /\ c2.op \in Creating <=> c.op \in Creating
  /\ c2.op \in Releasing <=> c.op \in Releasing

LEMMA SoundRoles ==
  ASSUME NEW m, NEW fds, NEW b, NEW b2, NEW lst, NEW ap, NEW p \in Proc,
         SameCalls(b, b2, p), SameRole(b[p], b2[p]), Sound(m, fds, b, lst, ap)
  PROVE  Sound(m, fds, b2, lst, ap)
<1>1. \A q \in Proc : SameRole(b[q], b2[q])
  BY DEF SameCalls, SameRole
<1>2. \A i : (Made(b2, i) <=> Made(b, i)) /\ ReleasersOf(b2, i) = ReleasersOf(b, i)
  BY <1>1 DEF Made, ReleasersOf, SameRole
<1>3. HeldOK(m, b) => HeldOK(m, b2)
  BY <1>2 DEF HeldOK, Uses
<1>4. CallsOK(m, b) => CallsOK(m, b2)
  BY <1>1 DEF CallsOK, CallOK, SameRole
<1>5. ASSUME ExactOK(m, fds, b, lst)
      PROVE  ExactOK(m, fds, b2, lst)
  <2>1. CountOK(m, b2)
    BY <1>2, <1>5 DEF ExactOK, CountOK, Uses
  <2>2. \A q \in Proc : PickOK(m, fds, b2, q)
    BY <1>1, <1>5 DEF ExactOK, PickOK, SameRole
  <2>3. QED
    BY <1>5, <2>1, <2>2 DEF ExactOK
<1>6. QED
  BY <1>3, <1>4, <1>5 DEF Sound

(* A step of p about the inode j that leaves the entries and descriptors   *)
(* alone: the call of p frees j, or has done so.                           *)
About(c, j) == c.op \in {"none", "unlink"} \cup Loading \cup Releasing /\ c.ino \in {j, NULL}

LEMMA InodeStep ==
  ASSUME NEW m \in FilesType, NEW m2 \in FilesType, NEW b \in [Proc -> CallType],
         NEW b2 \in [Proc -> CallType], NEW fds, NEW lst, NEW ap, NEW p \in Proc, NEW j \in Inode,
         m2.table = m.table, SameCalls(b, b2, p), NotTheirs(b, p, j),
         About(b[p], j), About(b2[p], j), b2[p].op \notin Loading,
         OnlyInode(m, m2, j), OnlyLists(m, m2, j),
         m2.inode[j].cnt = m.inode[j].cnt + Frees(b2[p], j) - Frees(b[p], j),
         ListOK(m2), Sound(m, fds, b, lst, ap)
  PROVE  Sound(m2, fds, b2, lst, ap)
<1>1. NULL \notin Inode /\ 0 \notin Slot
  BY Sizes DEF NULL
<1>2. /\ SameEntries(m, m2, 0) /\ \A i : ~Making(b[p], i)
      /\ b2[p].op \notin Loading \cup Creating
  BY DEF SameEntries, Making, About, Loading, Creating, Releasing
<1>3. \A i \in Inode : m.inode[i].cnt \in Nat /\ m2.inode[i].cnt \in Nat
  <2>1. \A i \in Inode : m.inode[i].cnt \in 0 .. CntMod - 1 /\ m2.inode[i].cnt \in 0 .. CntMod - 1
    BY FieldTypes, Records
  <2>2. QED
    BY <2>1, Sizes
<1>4. ASSUME NEW i \in Inode
      PROVE  m2.inode[i].cnt = m.inode[i].cnt + Gain(m, m2, b, b2, 0, p, i)
  <2>1. Has(m, 0, i) = 0 /\ Has(m2, 0, i) = 0
    BY <1>1 DEF Has
  <2>2. Frees(b[p], i) \in {0, 1} /\ Frees(b2[p], i) \in {0, 1}
    BY DEF Frees
  <2>3. i # j => Frees(b[p], i) = 0 /\ Frees(b2[p], i) = 0
    BY <1>1 DEF Frees, About
  <2>4. m2.inode[i].cnt = m.inode[i].cnt + Frees(b2[p], i) - Frees(b[p], i)
    BY <1>3, <2>3 DEF OnlyInode
  <2>5. QED
    BY <1>3, <2>1, <2>2, <2>4 DEF Gain
<1>5. HeldOK(m2, b2)
  <2>1. \A i \in Inode : m2.inode[i].cnt >= m.inode[i].cnt + Gain(m, m2, b, b2, 0, p, i)
    BY <1>3, <1>4
  <2>2. QED
    BY <1>2, <2>1, HeldStep DEF Sound
<1>6. CallsOK(m2, b2)
  <2>1. CallOK(m2, b2, p)
    BY <1>2 DEF CallOK
  <2>2. b2[p].ino \in {j, NULL} /\ CallsOK(m, b)
    BY DEF About, Sound
  <2>3. OnlySets(m, m2, j)
    BY DEF OnlySets
  <2>4. QED
    BY <2>1, <2>2, <2>3, CallsStep
<1>7. ASSUME ap
      PROVE  ExactOK(m2, fds, b2, lst)
  <2>1. ExactOK(m, fds, b, lst)
    BY <1>7 DEF Sound
  <2>2. CountOK(m2, b2)
    BY <1>2, <1>4, <2>1, CountStep DEF ExactOK
  <2>3. PickOK(m2, fds, b2, p) /\ b2[p].op # "open"
    BY <1>2 DEF PickOK, Loading
  <2>4. \A q \in Proc \ {p} : b[q].op \in {"open"} \cup Creating => b[q].slot # 0
    BY <1>1, Calls
  <2>5. QED
    BY <1>1, <1>2, <2>1, <2>2, <2>3, <2>4, ExactStep
<1>8. QED
  BY <1>5, <1>6, <1>7 DEF Sound

(* Call p begins to read an inode from the disk.                           *)
LEMMA LoadStep ==
  ASSUME FilesInv, NEW p \in Proc, NEW b2 \in [Proc -> CallType], NEW ap, FreeInodes # {},
         SameCalls(busy, b2, p), b2[p].op \in Loading, b2[p].ino = Least(FreeInodes),
         busy[p].op \in {"none", "unlink"},
         ap => /\ apart
               /\ b2[p].op = "open" => /\ files.table[b2[p].slot].inode = NULL
                                       /\ ~PickedTwice(b2[p].slot)
  PROVE  Sound(files, fd_table, b2, lost, ap)
<1> DEFINE i == Least(FreeInodes)
<1>1. /\ files \in FilesType /\ busy \in [Proc -> CallType]
      /\ ListOK(files) /\ CallsOK(files, busy) /\ HeldOK(files, busy)
      /\ apart => ExactOK(files, fd_table, busy, lost)
  BY DEF FilesInv, Types, Sound
<1>2. /\ i \in Inode /\ files.inode[i] = NoInode
      /\ \A q \in Proc : busy[q].ino # i
      /\ \A k \in DOMAIN files.open : files.open[k] # i
      /\ \A s \in Slot : files.table[s].inode # i
  BY FreeInodeIs
<1> HIDE DEF i
<1>3. /\ b2[p].ino = i /\ NotTheirs(busy, p, i)
      /\ SameEntries(files, files, 0) /\ \A j : ~Making(busy[p], j)
      /\ OnlyInode(files, files, i) /\ OnlyLists(files, files, i) /\ OnlySets(files, files, i)
  BY <1>2 DEF SameEntries, Making, Creating, i, NotTheirs, OnlyInode, OnlyLists, OnlySets
<1>4. NULL \notin Inode /\ 0 \notin Slot
  BY Sizes DEF NULL
<1>5. ASSUME NEW j \in Inode
      PROVE  /\ files.inode[j].cnt \in Nat /\ Gain(files, files, busy, b2, 0, p, j) = 0
  <2>1. files.inode[j].cnt \in 0 .. CntMod - 1
    BY <1>1, FieldTypes, Records
  <2>2. Has(files, 0, j) = 0 /\ Frees(busy[p], j) = 0 /\ Frees(b2[p], j) = 0
    BY <1>3, <1>4 DEF Has, Frees, Loading, Releasing
  <2>3. QED
    BY <2>1, <2>2, Sizes DEF Gain
<1>6. HeldOK(files, b2)
  <2>1. \A j \in Inode :
          files.inode[j].cnt >= files.inode[j].cnt + Gain(files, files, busy, b2, 0, p, j)
    BY <1>5
  <2>2. QED
    BY <1>1, <1>3, <2>1, HeldStep
<1>7. CallsOK(files, b2)
  <2>1. CallOK(files, b2, p)
    BY <1>2, <1>3 DEF CallOK, SameCalls
  <2>2. QED
    BY <1>1, <1>2, <1>3, <2>1, CallsStep
<1>8. ASSUME ap
      PROVE  ExactOK(files, fd_table, b2, lost)
  <2>1. ExactOK(files, fd_table, busy, lost)
    BY <1>1, <1>8
  <2>2. CountOK(files, b2)
    <3>1. \A j \in Inode :
            files.inode[j].cnt = files.inode[j].cnt + Gain(files, files, busy, b2, 0, p, j)
      BY <1>5
    <3>2. QED
      BY <1>1, <1>3, <2>1, <3>1, CountStep DEF ExactOK
  <2>3. \A q \in Proc \ {p} : busy[q].op = "open" /\ b2[p].op = "open" =>
                                busy[q].slot # b2[p].slot
    BY <1>8 DEF PickedTwice
  <2>4. PickOK(files, fd_table, b2, p)
    BY <1>3, <1>8, <2>3 DEF PickOK, SameCalls, Loading, Creating
  <2>5. \A q \in Proc \ {p} : busy[q].op \in {"open"} \cup Creating => busy[q].slot # 0
    BY <1>1, <1>4, Calls
  <2>6. QED
    BY <1>1, <1>3, <1>4, <2>1, <2>2, <2>3, <2>4, <2>5, ExactStep
<1>9. QED
  BY <1>1, <1>3, <1>6, <1>7, <1>8 DEF Sound

(* A descriptor of p may have become one for the entry s.                  *)
Installed(fds, fds2, p, s) ==
  \/ SameOn(fds, fds2)
  \/ \E fd \in Fd : SameFds(fds, fds2, p, fd) /\ fds[p][fd] = -1 /\ fds2[p][fd] = s

LEMMA Install ==
  ASSUME NEW t \in TableType, NEW s \in Slot
  PROVE  /\ pcb_fd_install(t, s) \in TableType
         /\ \/ FreeFds(t) = {} /\ pcb_fd_install(t, s) = t
            \/ /\ Least(FreeFds(t)) \in FreeFds(t)
               /\ pcb_fd_install(t, s) = [t EXCEPT ![Least(FreeFds(t))] = s]
<1>1. CASE FreeFds(t) = {}
  BY <1>1 DEF pcb_fd_install
<1>2. CASE FreeFds(t) # {}
  <2>1. FreeFds(t) \in SUBSET Nat /\ FreeFds(t) \subseteq Fd
    BY Sizes DEF FreeFds
  <2>2. Least(FreeFds(t)) \in FreeFds(t)
    BY ONLY <1>2, <2>1, LeastIs
  <2>3. pcb_fd_install(t, s) = [t EXCEPT ![Least(FreeFds(t))] = s]
    BY <1>2 DEF pcb_fd_install
  <2> DEFINE d == Least(FreeFds(t))
  <2>4. d \in Fd
    BY <2>1, <2>2
  <2> HIDE DEF d
  <2>5. [t EXCEPT ![d] = s] \in TableType
    BY <2>4, TableWith
  <2>6. QED
    BY <2>2, <2>3, <2>5 DEF d
<1>3. QED
  BY <1>1, <1>2

LEMMA InstallFds ==
  ASSUME NEW fds \in [Proc -> TableType], NEW p \in Proc, NEW s \in Slot
  PROVE  /\ [fds EXCEPT ![p] = pcb_fd_install(fds[p], s)] \in [Proc -> TableType]
         /\ \A q \in Proc \ {p} : [fds EXCEPT ![p] = pcb_fd_install(fds[p], s)][q] = fds[q]
         /\ Installed(fds, [fds EXCEPT ![p] = pcb_fd_install(fds[p], s)], p, s)
<1> DEFINE r == pcb_fd_install(fds[p], s)
           fds2 == [fds EXCEPT ![p] = r]
<1>1. fds[p] \in TableType
  OBVIOUS
<1>2. /\ r \in TableType
      /\ \/ r = fds[p]
         \/ \E d \in Fd : fds[p][d] = -1 /\ r = [fds[p] EXCEPT ![d] = s]
  BY <1>1, Install DEF FreeFds
<1> HIDE DEF r
<1>3. /\ fds2 \in [Proc -> TableType] /\ fds2[p] = r
      /\ \A q \in Proc \ {p} : fds2[q] = fds[q]
  BY <1>2
<1> HIDE DEF fds2
<1>4. CASE r = fds[p]
  BY <1>3, <1>4 DEF Installed, SameOn, fds2, r
<1>5. CASE \E d \in Fd : fds[p][d] = -1 /\ r = [fds[p] EXCEPT ![d] = s]
  <2>1. PICK d \in Fd : fds[p][d] = -1 /\ r = [fds[p] EXCEPT ![d] = s]
    BY <1>5
  <2>2. \A x \in Fd : x \in DOMAIN fds[p]
    BY <1>1, FileAssumption DEF TableType, Fd
  <2>3. r[d] = s /\ \A x \in Fd : x # d => r[x] = fds[p][x]
    BY <2>1, <2>2
  <2>4. SameFds(fds, fds2, p, d) /\ fds2[p][d] = s
    BY <1>3, <2>3 DEF SameFds
  <2>5. Installed(fds, fds2, p, s)
    BY <2>1, <2>4 DEF Installed
  <2>6. QED
    BY <1>3, <2>5 DEF fds2, r
<1>6. QED
  BY <1>2, <1>4, <1>5

LEMMA InstalledRefs ==
  ASSUME NEW fds, NEW fds2, NEW p \in Proc, NEW s \in Slot, Installed(fds, fds2, p, s)
  PROVE  /\ \A t \in Slot \ {s} : RefsTo(fds2, t) = RefsTo(fds, t)
         /\ RefsTo(fds, s) = {} => \A x, y \in RefsTo(fds2, s) : x = y
<1>1. CASE SameOn(fds, fds2)
  <2>1. \A t : RefsTo(fds2, t) = RefsTo(fds, t)
    BY <1>1 DEF RefsTo, SameOn
  <2>2. QED
    BY <2>1
<1>2. ASSUME NEW fd \in Fd, SameFds(fds, fds2, p, fd), fds[p][fd] = -1, fds2[p][fd] = s
      PROVE  /\ \A t \in Slot \ {s} : RefsTo(fds2, t) = RefsTo(fds, t)
             /\ RefsTo(fds, s) = {} => \A x, y \in RefsTo(fds2, s) : x = y
  <2>1. ASSUME NEW t \in Slot \ {s}
        PROVE  RefsTo(fds2, t) = RefsTo(fds, t)
    <3>1. Leads(fds, p, fd, t) = 0 /\ Leads(fds2, p, fd, t) = 0
      BY <1>2, Sizes DEF Leads
    <3>2. QED
      BY <1>2, <3>1, RefsOther
  <2>2. RefsTo(fds2, s) \subseteq RefsTo(fds, s) \cup {<<p, fd>>}
    BY <1>2, RefsLeft
  <2>3. QED
    BY <2>1, <2>2
<1>3. QED
  BY <1>1, <1>2 DEF Installed

(* file_open fills the entry s with the inode j, counted once more.        *)
LEMMA Filled ==
  ASSUME NEW m1 \in FilesType, NEW p \in Proc, NEW s \in Slot, NEW j \in Inode, NEW flag \in Flag,
         fd_table \in [Proc -> TableType], file_open(p, m1, s, j, flag)
  PROVE  /\ files' \in FilesType
         /\ files'.table = [m1.table EXCEPT ![s] = [inode |-> j, pos |-> 0, flag |-> flag]]
         /\ files'.open = m1.open
         /\ \A i \in Inode : /\ files'.inode[i].cnt = m1.inode[i].cnt
                             /\ i # j => files'.inode[i] = m1.inode[i]
         /\ fd_table' \in [Proc -> TableType]
         /\ \A q \in Proc \ {p} : fd_table'[q] = fd_table[q]
         /\ Installed(fd_table, fd_table', p, s)
<1> DEFINE e == [inode |-> j, pos |-> 0, flag |-> flag]
           f == [m1 EXCEPT !.table = [m1.table EXCEPT ![s] = e]]
           writes == flag \in {"O_WRONLY", "O_RDWR"}
           r == [f.inode[j] EXCEPT !.write_deny = f.inode[j].write_deny \/ writes]
           g == [f EXCEPT !.inode = [f.inode EXCEPT ![j] = r]]
<1>1. e \in EntryRec
  BY Sizes DEF EntryRec
<1>2. /\ \/ files' = f /\ fd_table' = fd_table
         \/ /\ files' = g
            /\ fd_table' = [fd_table EXCEPT ![p] = pcb_fd_install(fd_table[p], s)]
  BY FieldTypes, EntryWith, <1>1 DEF file_open
<1> HIDE DEF e
<1>3. f \in FilesType /\ f.table = [m1.table EXCEPT ![s] = e] /\ f.open = m1.open
      /\ f.inode = m1.inode
  BY <1>1, EntryWith, Fields
<1> HIDE DEF f
<1>4. f.inode[j] \in InodeRec /\ f.inode \in [Inode -> InodeRec]
  BY <1>3, FieldTypes
<1>5. r \in InodeRec /\ r.cnt = f.inode[j].cnt
  <2>1. (f.inode[j].write_deny \/ writes) \in BOOLEAN
    OBVIOUS
  <2>2. QED
    BY <1>4, <2>1, WithDeny
<1> HIDE DEF r
<1>6. g \in FilesType /\ g.inode = [f.inode EXCEPT ![j] = r] /\ g.table = f.table /\ g.open = f.open
  BY <1>3, <1>5, FilesWith, Fields
<1> HIDE DEF g
<1>7. /\ files' \in FilesType
      /\ files'.table = [m1.table EXCEPT ![s] = [inode |-> j, pos |-> 0, flag |-> flag]]
      /\ files'.open = m1.open
      /\ \A i \in Inode : /\ files'.inode[i].cnt = m1.inode[i].cnt
                          /\ i # j => files'.inode[i] = m1.inode[i]
  BY <1>2, <1>3, <1>4, <1>5, <1>6 DEF e
<1>8. /\ fd_table' \in [Proc -> TableType]
      /\ \A q \in Proc \ {p} : fd_table'[q] = fd_table[q]
      /\ Installed(fd_table, fd_table', p, s)
  <2>1. CASE fd_table' = fd_table
    BY <2>1 DEF Installed, SameOn
  <2>2. CASE fd_table' = [fd_table EXCEPT ![p] = pcb_fd_install(fd_table[p], s)]
    BY <2>2, InstallFds
  <2>3. QED
    BY <1>2, <2>1, <2>2
<1>9. QED
  BY <1>7, <1>8

(* The end of an open: m is the record with the inode found or read.       *)
SlotIsOurs(m, b, p, s) ==
  /\ m.table[s].inode = NULL
  /\ \A q \in Proc \ {p} : b[q].op \in {"open"} \cup Creating => b[q].slot # s

LEMMA OpenStep ==
  ASSUME FilesInv, NEW p \in Proc, NEW m \in FilesType, NEW s \in Slot, NEW j \in Inode,
         NEW flag \in Flag, NEW b2 \in [Proc -> CallType], NEW ap,
         file_open(p, m, s, j, flag),
         m.table = files.table, OnlyInode(files, m, j), OnlyLists(files, m, j), ListOK(m),
         m.inode[j].cnt = files.inode[j].cnt + 1,
         SameCalls(busy, b2, p), b2[p] = NotBusy, NotTheirs(busy, p, j),
         busy[p].op \in {"none", "open"},
         ap => apart /\ SlotIsOurs(files, busy, p, s)
  PROVE  Sound(files', fd_table', b2, lost, ap)
<1>1. /\ files \in FilesType /\ busy \in [Proc -> CallType] /\ fd_table \in [Proc -> TableType]
      /\ ListOK(files) /\ CallsOK(files, busy) /\ HeldOK(files, busy)
      /\ apart => ExactOK(files, fd_table, busy, lost)
  BY DEF FilesInv, Types, Sound
<1>2. /\ files' \in FilesType
      /\ files'.table = [m.table EXCEPT ![s] = [inode |-> j, pos |-> 0, flag |-> flag]]
      /\ files'.open = m.open
      /\ \A i \in Inode : /\ files'.inode[i].cnt = m.inode[i].cnt
                          /\ i # j => files'.inode[i] = m.inode[i]
      /\ Installed(fd_table, fd_table', p, s)
  <2>1. /\ m \in FilesType /\ p \in Proc /\ s \in Slot /\ j \in Inode /\ flag \in Flag
        /\ fd_table \in [Proc -> TableType] /\ file_open(p, m, s, j, flag)
    BY <1>1
  <2>2. QED
    BY ONLY <2>1, Filled
<1> DEFINE m2 == files'
           g == fd_table'
           e == [inode |-> j, pos |-> 0, flag |-> flag]
<1>3. m2 \in FilesType /\ Installed(fd_table, g, p, s)
  BY <1>2
<1>4. /\ m2.table[s] = [inode |-> j, pos |-> 0, flag |-> flag]
      /\ \A t \in Slot \ {s} : m2.table[t] = files.table[t]
      /\ m2.open = m.open
  <2>1. files.table \in [Slot -> EntryRec]
    BY <1>1, FieldTypes
  <2>2. m2.table = [files.table EXCEPT ![s] = e] /\ m2.open = m.open
    BY <1>2
  <2> HIDE DEF m2, e
  <2>3. m2.table[s] = e /\ \A t \in Slot \ {s} : m2.table[t] = files.table[t]
    BY <2>1, <2>2
  <2>4. QED
    BY <2>2, <2>3 DEF e
<1>5. \A i \in Inode : /\ m2.inode[i].cnt = IF i = j THEN files.inode[i].cnt + 1
                                            ELSE files.inode[i].cnt
                       /\ i # j => m2.inode[i] = files.inode[i]
  BY <1>2 DEF OnlyInode
<1>6. \A i \in Inode : m2.inode[i].cnt = m.inode[i].cnt
  BY <1>2
<1> HIDE DEF m2, g
<1>7. NULL \notin Inode /\ PipePage \notin Inode /\ j # NULL /\ flag # "PIPE_FLAG"
  BY Sizes, FileAssumption DEF NULL, PipePage
<1>8. /\ SameEntries(files, m2, s) /\ OnlyInode(files, m2, j) /\ OnlyLists(files, m2, j)
      /\ \A i : ~Making(busy[p], i) /\ Frees(busy[p], i) = 0 /\ Frees(b2[p], i) = 0
  BY <1>4, <1>5 DEF SameEntries, OnlyInode, OnlyLists, Making, Frees, Creating, Releasing, NotBusy
<1>9. OnlySets(files, m2, j)
  BY <1>4 DEF OnlySets
<1>10. \A i \in Inode : files.inode[i].cnt \in Nat
  <2>1. \A i \in Inode : files.inode[i].cnt \in 0 .. CntMod - 1
    BY <1>1, FieldTypes, Records
  <2>2. QED
    BY <2>1, Sizes
<1>11. ASSUME NEW i \in Inode
       PROVE  /\ m2.inode[i].cnt = files.inode[i].cnt + Has(m2, s, i)
              /\ Has(files, s, i) \in {0, 1} /\ Has(m2, s, i) \in {0, 1}
              /\ Gain(files, m2, busy, b2, s, p, i) = Has(m2, s, i) - Has(files, s, i)
  <2>1. Has(m2, s, i) = IF i = j THEN 1 ELSE 0
    BY <1>4 DEF Has
  <2>2. Has(files, s, i) \in {0, 1}
    BY DEF Has
  <2>3. QED
    BY <1>5, <1>8, <1>10, <2>1, <2>2 DEF Gain
<1>12. HeldOK(m2, b2)
  <2>1. \A i \in Inode :
          m2.inode[i].cnt >= files.inode[i].cnt + Gain(files, m2, busy, b2, s, p, i)
    BY <1>10, <1>11
  <2>2. QED
    BY <1>1, <1>3, <1>8, <2>1, HeldStep
<1>13. ListOK(m2)
  <2>1. \A k \in DOMAIN m.open : m.open[k] \in Inode
    BY FieldTypes
  <2>2. QED
    BY <1>4, <1>6, <2>1 DEF ListOK
<1>14. CallsOK(m2, b2)
  <2>1. CallOK(m2, b2, p) /\ b2[p].ino \in {j, NULL}
    BY DEF CallOK, NotBusy, Loading, Creating
  <2>2. QED
    BY <1>1, <1>8, <1>9, <2>1, CallsStep
<1>15. ASSUME ap
       PROVE  ExactOK(m2, g, b2, lost)
  <2>1. /\ ExactOK(files, fd_table, busy, lost) /\ files.table[s].inode = NULL
        /\ \A q \in Proc \ {p} : busy[q].op \in {"open"} \cup Creating => busy[q].slot # s
    BY <1>1, <1>15 DEF SlotIsOurs
  <2>2. CountOK(m2, b2)
    <3>1. \A i \in Inode : Has(files, s, i) = 0
      BY <1>7, <2>1 DEF Has
    <3>2. \A i \in Inode :
            m2.inode[i].cnt = files.inode[i].cnt + Gain(files, m2, busy, b2, s, p, i)
      BY <1>10, <1>11, <3>1
    <3>3. QED
      BY <1>1, <1>3, <1>8, <2>1, <3>2, CountStep DEF ExactOK
  <2>3. RefsTo(fd_table, s) = {}
    BY <2>1 DEF ExactOK, EntryOK
  <2>4. /\ \A t \in Slot \ {s} : RefsTo(g, t) = RefsTo(fd_table, t)
        /\ \A x, y \in RefsTo(g, s) : x = y
    BY <1>3, <2>3, InstalledRefs
  <2>5. EntryOK(m2, g, lost, s)
    BY <1>4, <1>7, <2>4 DEF EntryOK
  <2>6. PickOK(m2, g, b2, p) /\ b2[p].op # "open"
    BY DEF PickOK, NotBusy, Creating
  <2>7. QED
    BY <1>1, <1>8, <2>1, <2>2, <2>4, <2>5, <2>6, ExactStep
<1>16. QED
  BY <1>12, <1>13, <1>14, <1>15 DEF Sound, m2, g

LEMMA RoomForOne ==
  ASSUME RoomToCount, files \in FilesType
  PROVE  \A i \in Inode : files.inode[i].cnt + 1 < CntMod
<1> DEFINE hi == MAX_FILES_OPEN_PER_PROC - 1
<1>1. IsFiniteSet(Fd) /\ Fd # {}
  <2>1. hi \in Nat /\ hi >= 3 /\ Fd = 3 .. hi
    BY Sizes
  <2> HIDE DEF hi
  <2>2. IsFiniteSet(3 .. hi) /\ 3 \in 3 .. hi
    BY <2>1, FS_Interval
  <2>3. QED
    BY <2>1, <2>2
<1>2. Cardinality(Fd) \in Nat /\ Cardinality(Fd) # 0
  BY <1>1, FS_EmptySet, FS_CardinalityType
<1>3. \A i \in Inode : files.inode[i].cnt \in 0 .. CntMod - 1
  BY FieldTypes, Records
<1>4. \A i \in Inode : files.inode[i].cnt + Cardinality(Fd) < CntMod
  BY DEF RoomToCount
<1>5. ASSUME NEW i \in Inode
      PROVE  files.inode[i].cnt + 1 < CntMod
  <2> DEFINE n == files.inode[i].cnt
             x == Cardinality(Fd)
  <2>1. n \in 0 .. CntMod - 1 /\ n + x < CntMod /\ x \in Nat /\ x # 0
    BY <1>2, <1>3, <1>4
  <2> HIDE DEF n, x
  <2>2. n + 1 < CntMod
    BY ONLY <2>1, Sizes
  <2>3. QED
    BY <2>2 DEF n
<1>6. QED
  BY <1>5

(* Only p's call and descriptors change, and p is alive.                   *)
LEMMA DeadStep ==
  ASSUME DeadOK(fd_table, live, busy), NEW p \in live, live' = live,
         NEW fds, NEW b, SameCalls(busy, b, p), \A q \in Proc \ {p} : fds[q] = fd_table[q]
  PROVE  DeadOK(fds, live, b)
BY DEF DeadOK, SameCalls

LEMMA BusyLives ==
  ASSUME FilesInv, NEW p \in Proc, busy[p].op # "none"
  PROVE  p \in live
BY DEF FilesInv, DeadOK, NotBusy

(* An empty entry that no open has picked is picked by no call.            *)
LEMMA OursIfFree ==
  ASSUME FilesInv, apart, NEW p, NEW s \in Slot, files.table[s].inode = NULL, ~PickedTwice(s)
  PROVE  SlotIsOurs(files, busy, p, s)
<1>1. \A q \in Proc : busy[q] \in CallType /\ PickOK(files, fd_table, busy, q)
  BY DEF FilesInv, Types, Sound, ExactOK
<1>2. \A q \in Proc : busy[q].op \in Creating =>
        busy[q].ino \in Inode /\ files.table[busy[q].slot].inode = busy[q].ino
  BY <1>1, Calls DEF PickOK
<1>3. \A q \in Proc : busy[q].op \in Creating => busy[q].slot # s
  BY <1>2, Sizes DEF NULL
<1>4. QED
  BY <1>3 DEF SlotIsOurs, PickedTwice

LEMMA FindKeeps ==
  ASSUME FilesInv, RoomToCount, NEW f, Listed(f) # {}
  PROVE  LET j == FirstListed(f)
             m == inode_found(files, j)
         IN  /\ m \in FilesType /\ m.table = files.table /\ OnlyInode(files, m, j)
             /\ OnlyLists(files, m, j) /\ ListOK(m)
             /\ m.inode[j].cnt = files.inode[j].cnt + 1
<1> DEFINE j == FirstListed(f)
           m == inode_found(files, j)
<1>1. files \in FilesType /\ ListOK(files)
  BY DEF FilesInv, Types, Sound
<1>2. j \in Inode
  BY FirstListedIs
<1>3. /\ m \in FilesType /\ m.table = files.table /\ m.open = files.open
      /\ \A i \in Inode \ {j} : m.inode[i] = files.inode[i]
      /\ m.inode[j].cnt = files.inode[j].cnt + 1
  <2> HIDE DEF j
  <2>1. QED
    BY <1>1, <1>2, FoundFacts, RoomForOne
<1>4. \A i \in Inode : files.inode[i].cnt \in 0 .. CntMod - 1
  BY <1>1, FieldTypes, Records
<1> HIDE DEF m, j
<1>5. ListOK(m)
  <2>1. \A k \in DOMAIN files.open : files.open[k] \in Inode
    BY <1>1, FieldTypes
  <2>2. \A i \in Inode : files.inode[i].cnt >= 1 => m.inode[i].cnt >= 1
    BY ONLY <1>2, <1>3, <1>4, Sizes, SMTT(20)
  <2>3. QED
    BY <1>1, <1>3, <2>1, <2>2 DEF ListOK
<1>6. QED
  BY <1>3, <1>5 DEF m, j, OnlyInode, OnlyLists

LEMMA LoadKeeps ==
  ASSUME FilesInv, NEW p \in Proc, busy[p].op \in Loading
  PROVE  LET j == busy[p].ino
             m == inode_loaded(files, j, busy[p].file)
         IN  /\ j \in Inode /\ m \in FilesType /\ m.table = files.table
             /\ OnlyInode(files, m, j) /\ OnlyLists(files, m, j) /\ ListOK(m)
             /\ m.inode[j].cnt = files.inode[j].cnt + 1 /\ NotTheirs(busy, p, j)
<1> DEFINE j == busy[p].ino
           f == busy[p].file
           m == inode_loaded(files, j, f)
<1>1. /\ files \in FilesType /\ ListOK(files) /\ busy[p] \in CallType
      /\ \A q \in Proc : CallOK(files, busy, q)
  BY DEF FilesInv, Types, Sound, CallsOK
<1>2. j \in Inode /\ f \in File
  BY <1>1, Calls DEF Loading
<1>3. /\ files.inode[j] = NoInode /\ \A k \in DOMAIN files.open : files.open[k] # j
      /\ NotTheirs(busy, p, j)
  BY <1>1 DEF CallOK, NotTheirs
<1> HIDE DEF j, f
<1>4. /\ m \in FilesType /\ m.table = files.table /\ m.open = <<j>> \o files.open
      /\ \A i \in Inode \ {j} : m.inode[i] = files.inode[i]
      /\ m.inode[j].cnt = 1
  BY <1>1, <1>2, LoadedFacts
<1>5. files.open \in Seq(Inode)
  BY <1>1, FieldTypes
<1> HIDE DEF m
<1>6. ListOK(m) /\ OnlyLists(files, m, j)
  <2>1. /\ \A k \in DOMAIN m.open : m.open[k] = j \/ \E n \in DOMAIN files.open : files.open[n] = m.open[k]
        /\ \A x, k \in DOMAIN m.open : m.open[x] = m.open[k] => x = k
    BY ONLY <1>1, <1>2, <1>3, <1>4, <1>5, Pushed DEF ListOK
  <2>2. ASSUME NEW k \in DOMAIN m.open
        PROVE  m.inode[m.open[k]].cnt >= 1
    <3>1. CASE m.open[k] = j
      BY <1>4, <3>1
    <3>2. CASE m.open[k] # j
      <4>1. PICK n \in DOMAIN files.open : files.open[n] = m.open[k]
        BY <2>1, <3>2
      <4>2. files.open[n] \in Inode \ {j} /\ files.inode[files.open[n]].cnt >= 1
        BY <1>1, <1>3, <1>5 DEF ListOK
      <4>3. m.inode[files.open[n]] = files.inode[files.open[n]]
        BY <1>4, <4>2
      <4>4. QED
        BY <4>1, <4>2, <4>3
    <3>3. QED
      BY <3>1, <3>2
  <2>3. QED
    BY <2>1, <2>2 DEF ListOK, OnlyLists
<1>7. files.inode[j].cnt + 1 = 1
  BY <1>3, Records
<1>8. QED
  BY <1>2, <1>3, <1>4, <1>6, <1>7 DEF m, j, f, OnlyInode

LEMMA OpenKeeps ==
  ASSUME FilesInv, NEW p \in Proc, NEW f \in File, NEW flag \in Flag, sys_open(p, f, flag)
  PROVE  FilesInv'
<1> DEFINE s == get_free_slot_in_global
<1>1. /\ files \in FilesType /\ busy \in [Proc -> CallType] /\ fd_table \in [Proc -> TableType]
      /\ DeadOK(fd_table, live, busy) /\ apart \in BOOLEAN
  BY DEF FilesInv, Types
<1>2. /\ p \in live /\ busy[p] = NotBusy /\ RoomToCount
      /\ apart' = (apart /\ ~PickedTwice(s)) /\ UNCHANGED <<live, exists, inode_bitmap, lost>>
  BY DEF sys_open, CanCall
<1>3. s \in Slot /\ files.table[s].inode = NULL
  BY FreeSlotIs DEF sys_open
<1> HIDE DEF s
<1>4. apart' => apart /\ SlotIsOurs(files, busy, p, s)
  BY <1>2, <1>3, OursIfFree
<1>5. apart' \in BOOLEAN
  BY <1>1, <1>2
<1>6. CASE /\ Listed(f) # {}
           /\ file_open(p, inode_found(files, FirstListed(f)), s, FirstListed(f), flag)
           /\ UNCHANGED busy
  <2> DEFINE j == FirstListed(f)
             m == inode_found(files, j)
  <2>1. j \in Inode /\ NotTheirs(busy, p, j)
    BY <1>6, FirstListedIs
  <2>2. /\ m \in FilesType /\ m.table = files.table /\ OnlyInode(files, m, j)
        /\ OnlyLists(files, m, j) /\ ListOK(m) /\ m.inode[j].cnt = files.inode[j].cnt + 1
    BY <1>2, <1>6, FindKeeps
  <2>3. file_open(p, m, s, j, flag)
    BY <1>6
  <2> HIDE DEF m, j
  <2>4. SameCalls(busy, busy, p) /\ busy[p].op \in {"none", "open"}
    BY <1>2 DEF SameCalls, NotBusy
  <2>5. Sound(files', fd_table', busy, lost, apart')
    BY <1>1, <1>2, <1>3, <1>4, <2>1, <2>2, <2>3, <2>4, OpenStep
  <2>6. /\ files' \in FilesType /\ fd_table' \in [Proc -> TableType]
        /\ \A q \in Proc \ {p} : fd_table'[q] = fd_table[q]
    BY <1>1, <1>3, <2>1, <2>2, <2>3, Filled
  <2>7. DeadOK(fd_table', live, busy)
    BY <1>1, <1>2, <2>4, <2>6, DeadStep
  <2>8. QED
    BY <1>2, <1>5, <1>6, <2>5, <2>6, <2>7 DEF FilesInv, Types
<1>7. CASE /\ Listed(f) = {} /\ FreeInodes # {}
           /\ busy' = [busy EXCEPT ![p] = [op |-> "open", slot |-> s, file |-> f,
                                           ino |-> Least(FreeInodes), flag |-> flag]]
           /\ UNCHANGED <<files, fd_table>>
  <2> DEFINE c == [op |-> "open", slot |-> s, file |-> f, ino |-> Least(FreeInodes), flag |-> flag]
             b2 == busy'
  <2>1. Least(FreeInodes) \in Inode
    BY <1>7, FreeInodeIs
  <2>2. c \in CallType
    BY <1>3, <2>1 DEF CallType, Loading, Creating, Releasing
  <2>3. c.op = "open" /\ c.slot = s /\ c.ino = Least(FreeInodes)
    OBVIOUS
  <2>4. busy' = [busy EXCEPT ![p] = c]
    BY <1>7
  <2> HIDE DEF c
  <2>5. /\ b2 \in [Proc -> CallType] /\ b2[p] = c /\ SameCalls(busy, b2, p)
    BY <1>1, <2>2, <2>4 DEF SameCalls
  <2> HIDE DEF b2
  <2>6. /\ b2[p].op \in Loading /\ b2[p].ino = Least(FreeInodes)
        /\ busy[p].op \in {"none", "unlink"} /\ b2[p].slot = s
    BY <1>2, <2>3, <2>5 DEF Loading, NotBusy
  <2>7. apart' => /\ apart
                  /\ b2[p].op = "open" => /\ files.table[b2[p].slot].inode = NULL
                                          /\ ~PickedTwice(b2[p].slot)
    BY <1>2, <1>3, <2>6
  <2>8. Sound(files, fd_table, b2, lost, apart')
    BY <1>7, <2>5, <2>6, <2>7, LoadStep
  <2>9. DeadOK(fd_table, live, b2)
    BY <1>1, <1>2, <2>5, DeadStep
  <2>10. QED
    BY <1>2, <1>5, <1>7, <2>5, <2>8, <2>9 DEF FilesInv, Types, b2
<1>8. QED
  BY <1>6, <1>7 DEF sys_open, s

(* A call's record, from one piece of the call to the next.                *)
LEMMA NotBusyType == NotBusy \in CallType
BY DEF NotBusy, CallType, Loading, Creating, Releasing

LEMMA NextPiece ==
  ASSUME NEW c \in CallType, NEW op
  PROVE  /\ [c EXCEPT !.op = op].op = op /\ [c EXCEPT !.op = op].ino = c.ino
         /\ [c EXCEPT !.op = op].slot = c.slot /\ [c EXCEPT !.op = op].file = c.file
         /\ op \in Creating /\ c.op \in Creating => [c EXCEPT !.op = op] \in CallType
         /\ op \in Releasing /\ c.op \in Releasing \cup {"load"} => [c EXCEPT !.op = op] \in CallType
<1>1. [c EXCEPT !.op = op] =
        [op |-> op, slot |-> c.slot, ino |-> c.ino, file |-> c.file, flag |-> c.flag]
  <2>1. c = [op |-> c.op, slot |-> c.slot, ino |-> c.ino, file |-> c.file, flag |-> c.flag]
    BY DEF CallType
  <2>2. QED
    BY ONLY <2>1
<1>2. /\ c.slot \in Slot \cup {0} /\ c.ino \in Inode \cup {NULL}
      /\ c.file \in File \cup {NULL} /\ c.flag \in Flag \cup {"none"}
  BY DEF CallType
<1>3. ASSUME op \in Creating, c.op \in Creating
      PROVE  [op |-> op, slot |-> c.slot, ino |-> c.ino, file |-> c.file, flag |-> c.flag] \in CallType
  BY <1>2, <1>3, Calls DEF CallType, Loading, Creating, Releasing
<1>4. ASSUME op \in Releasing, c.op \in Releasing \cup {"load"}
      PROVE  [op |-> op, slot |-> c.slot, ino |-> c.ino, file |-> c.file, flag |-> c.flag] \in CallType
  BY <1>2, <1>4, Calls DEF CallType, Loading, Creating, Releasing
<1>5. QED
  BY <1>1, <1>3, <1>4

WithInode(c, op, i) == [c EXCEPT !.op = op, !.ino = i]

LEMMA NextInode ==
  ASSUME NEW c \in CallType, c.op # "none", NEW op \in {"load"} \cup Releasing, NEW i \in Inode
  PROVE  /\ WithInode(c, op, i) \in CallType
         /\ WithInode(c, op, i).op = op /\ WithInode(c, op, i).ino = i
<1>1. WithInode(c, op, i) =
        [op |-> op, slot |-> c.slot, ino |-> i, file |-> c.file, flag |-> c.flag]
  <2>1. c = [op |-> c.op, slot |-> c.slot, ino |-> c.ino, file |-> c.file, flag |-> c.flag]
    BY DEF CallType
  <2> DEFINE d == [c EXCEPT !.op = op]
  <2>2. d = [op |-> op, slot |-> c.slot, ino |-> c.ino, file |-> c.file, flag |-> c.flag]
    BY ONLY <2>1
  <2>3. WithInode(c, op, i) = [d EXCEPT !.ino = i]
    BY ONLY <2>1 DEF WithInode
  <2> HIDE DEF d
  <2>4. [d EXCEPT !.ino = i] =
          [op |-> op, slot |-> c.slot, ino |-> i, file |-> c.file, flag |-> c.flag]
    BY ONLY <2>2
  <2>5. QED
    BY <2>3, <2>4
<1>2. /\ c.slot \in Slot \cup {0} /\ c.file \in File /\ c.flag \in Flag \cup {"none"}
  BY Calls DEF CallType
<1>3. [op |-> op, slot |-> c.slot, ino |-> i, file |-> c.file, flag |-> c.flag] \in CallType
  BY <1>2 DEF CallType, Loading, Creating, Releasing
<1>4. QED
  BY <1>1, <1>3

LEMMA NextCall ==
  ASSUME FilesInv, NEW p \in Proc, NEW c \in CallType, busy' = [busy EXCEPT ![p] = c]
  PROVE  /\ busy' \in [Proc -> CallType] /\ busy'[p] = c /\ SameCalls(busy, busy', p)
         /\ p \in live /\ UNCHANGED <<live, fd_table>> => DeadOK(fd_table', live', busy')
<1>1. busy' \in [Proc -> CallType] /\ busy'[p] = c /\ SameCalls(busy, busy', p)
  BY DEF FilesInv, Types, SameCalls
<1>2. DeadOK(fd_table, live, busy)
  BY DEF FilesInv
<1>3. QED
  BY <1>1, <1>2 DEF DeadOK, SameCalls

LEMMA ReadKeeps ==
  ASSUME FilesInv, NEW p \in Proc, InodeRead(p)
  PROVE  FilesInv'
<1> DEFINE j == busy[p].ino
           s == busy[p].slot
           flag == busy[p].flag
           m == inode_loaded(files, j, busy[p].file)
<1>1. /\ files \in FilesType /\ busy \in [Proc -> CallType] /\ fd_table \in [Proc -> TableType]
      /\ DeadOK(fd_table, live, busy) /\ busy[p].op = "open"
      /\ apart => ExactOK(files, fd_table, busy, lost)
  BY DEF FilesInv, Types, Sound, InodeRead, In
<1>2. file_open(p, m, s, j, flag) /\ busy' = [busy EXCEPT ![p] = NotBusy]
      /\ UNCHANGED <<live, exists, inode_bitmap, lost, apart>>
  BY DEF InodeRead
<1>3. s \in Slot /\ flag \in Flag
  BY <1>1, Calls
<1>4. /\ j \in Inode /\ m \in FilesType /\ m.table = files.table
      /\ OnlyInode(files, m, j) /\ OnlyLists(files, m, j) /\ ListOK(m)
      /\ m.inode[j].cnt = files.inode[j].cnt + 1 /\ NotTheirs(busy, p, j)
  BY <1>1, LoadKeeps DEF Loading
<1> HIDE DEF m, j, flag
<1>5. apart => SlotIsOurs(files, busy, p, s)
  <2>1. ASSUME apart
        PROVE  SlotIsOurs(files, busy, p, s)
    <3>1. \A q \in Proc : PickOK(files, fd_table, busy, q)
      BY <1>1, <2>1 DEF ExactOK
    <3>2. /\ files.table[s].inode = NULL
          /\ \A q \in Proc \ {p} : busy[q].op = "open" => busy[q].slot # s
      BY <1>1, <3>1 DEF PickOK
    <3>3. \A q \in Proc : busy[q].op \in Creating =>
            busy[q].ino \in Inode /\ files.table[busy[q].slot].inode = busy[q].ino
      BY <1>1, <3>1, Calls DEF PickOK
    <3>4. \A q \in Proc : busy[q].op \in Creating => busy[q].slot # s
      BY <3>2, <3>3, Sizes DEF NULL
    <3>5. QED
      BY <3>2, <3>4 DEF SlotIsOurs
  <2>2. QED
    BY <2>1
<1>6. p \in live
  BY <1>1, BusyLives
<1>7. /\ busy' \in [Proc -> CallType] /\ busy'[p] = NotBusy /\ SameCalls(busy, busy', p)
  BY <1>2, NextCall, NotBusyType
<1> HIDE DEF s
<1>8. Sound(files', fd_table', busy', lost, apart)
  <2>1. busy[p].op \in {"none", "open"}
    BY <1>1
  <2>2. file_open(p, m, s, j, flag)
    BY <1>2
  <2>3. QED
    BY ONLY FilesInv, p \in Proc, <1>3, <1>4, <1>5, <1>7, <2>1, <2>2, OpenStep
<1>9. /\ files' \in FilesType /\ fd_table' \in [Proc -> TableType]
      /\ \A q \in Proc \ {p} : fd_table'[q] = fd_table[q]
  BY <1>1, <1>2, <1>3, <1>4, Filled
<1>10. DeadOK(fd_table', live', busy')
  BY <1>1, <1>2, <1>6, <1>7, <1>9 DEF DeadOK, SameCalls
<1>11. QED
  BY <1>2, <1>7, <1>8, <1>9, <1>10 DEF FilesInv, Types

(* The pieces of a call that change nothing but the call and the disk.     *)
LEMMA RolesKeep ==
  ASSUME FilesInv, NEW p \in live, NEW c \in CallType, busy' = [busy EXCEPT ![p] = c],
         SameRole(busy[p], c), exists' \subseteq File, inode_bitmap' \subseteq File,
         UNCHANGED <<files, fd_table, live, lost, apart>>
  PROVE  FilesInv'
<1>1. p \in Proc /\ Sound(files, fd_table, busy, lost, apart)
  BY DEF FilesInv, Types
<1>2. /\ busy' \in [Proc -> CallType] /\ busy'[p] = c /\ SameCalls(busy, busy', p)
      /\ DeadOK(fd_table', live', busy')
  BY <1>1, NextCall
<1>3. Sound(files, fd_table, busy', lost, apart)
  <2>1. SameRole(busy[p], busy'[p])
    BY <1>2
  <2>2. QED
    BY <1>1, <1>2, <2>1, SoundRoles
<1>4. QED
  BY <1>2, <1>3 DEF FilesInv, Types

LEMMA UnlinkKeeps ==
  ASSUME FilesInv, NEW p \in Proc, NEW f \in File, sys_unlink(p, f)
  PROVE  FilesInv'
<1> DEFINE c == [NotBusy EXCEPT !.op = "unlink", !.file = f]
<1>1. p \in live /\ busy[p] = NotBusy /\ busy' = [busy EXCEPT ![p] = c]
      /\ UNCHANGED <<files, fd_table, live, exists, inode_bitmap, lost, apart>>
  BY DEF sys_unlink, CanCall
<1>2. c = [op |-> "unlink", slot |-> 0, ino |-> NULL, file |-> f, flag |-> "none"]
  <2> DEFINE n == NotBusy
  <2>1. /\ n = [op |-> n.op, slot |-> n.slot, ino |-> n.ino, file |-> n.file, flag |-> n.flag]
        /\ n.slot = 0 /\ n.ino = NULL /\ n.flag = "none"
    BY DEF NotBusy
  <2> HIDE DEF n
  <2> DEFINE d == [n EXCEPT !.op = "unlink"]
  <2>2. d = [op |-> "unlink", slot |-> n.slot, ino |-> n.ino, file |-> n.file, flag |-> n.flag]
    BY ONLY <2>1
  <2>3. [n EXCEPT !.op = "unlink", !.file = f] = [d EXCEPT !.file = f]
    BY ONLY <2>1
  <2> HIDE DEF d
  <2>4. [d EXCEPT !.file = f] =
          [op |-> "unlink", slot |-> n.slot, ino |-> n.ino, file |-> f, flag |-> n.flag]
    BY ONLY <2>2
  <2>5. QED
    BY <2>1, <2>3, <2>4 DEF n
<1>3. c \in CallType /\ SameRole(NotBusy, c)
  BY <1>2 DEF CallType, SameRole, NotBusy, Loading, Creating, Releasing
<1>4. exists' \subseteq File /\ inode_bitmap' \subseteq File
  BY <1>1 DEF FilesInv, Types
<1> HIDE DEF c
<1>5. QED
  BY <1>1, <1>3, <1>4, RolesKeep

LEMMA WrittenKeeps ==
  ASSUME FilesInv, NEW p \in Proc, EntryWritten(p)
  PROVE  FilesInv'
<1> DEFINE c == [busy[p] EXCEPT !.op = "created"]
<1>1. /\ busy[p].op = "create" /\ busy \in [Proc -> CallType] /\ busy[p] \in CallType
      /\ exists' = exists \cup {busy[p].file} /\ UNCHANGED <<files, fd_table, live, inode_bitmap, lost, apart>>
  BY DEF EntryWritten, In, FilesInv, Types
<1>2. busy' = [busy EXCEPT ![p] = c]
  BY <1>1 DEF EntryWritten
<1>3. c \in CallType /\ c.op = "created" /\ c.ino = busy[p].ino /\ c.slot = busy[p].slot
  BY <1>1, NextPiece DEF Creating
<1>4. p \in live /\ busy[p].file \in File
  BY <1>1, BusyLives, Calls
<1>5. exists' \subseteq File /\ inode_bitmap' \subseteq File
  BY <1>1, <1>4 DEF FilesInv, Types
<1> HIDE DEF c
<1>6. SameRole(busy[p], c)
  BY <1>1, <1>3 DEF SameRole, Loading, Creating, Releasing
<1>7. QED
  BY <1>1, <1>2, <1>3, <1>4, <1>5, <1>6, RolesKeep

LEMMA NumberKeeps ==
  ASSUME FilesInv, NEW p \in Proc, NumberReleased(p)
  PROVE  FilesInv'
<1> DEFINE c == [busy[p] EXCEPT !.op = "close"]
<1>1. /\ busy[p].op = "release" /\ busy \in [Proc -> CallType] /\ busy[p] \in CallType
      /\ inode_bitmap' = inode_bitmap \ {busy[p].file}
      /\ UNCHANGED <<files, fd_table, live, exists, lost, apart>>
  BY DEF NumberReleased, In, FilesInv, Types
<1>2. busy' = [busy EXCEPT ![p] = c]
  BY <1>1 DEF NumberReleased
<1>3. c \in CallType /\ c.op = "close" /\ c.ino = busy[p].ino /\ c.slot = busy[p].slot
  BY <1>1, NextPiece DEF Releasing
<1>4. p \in live
  BY <1>1, BusyLives
<1>5. exists' \subseteq File /\ inode_bitmap' \subseteq File
  BY <1>1 DEF FilesInv, Types
<1> HIDE DEF c
<1>6. SameRole(busy[p], c)
  BY <1>1, <1>3 DEF SameRole, Loading, Creating, Releasing
<1>7. QED
  BY <1>1, <1>2, <1>3, <1>4, <1>5, <1>6, RolesKeep

LEMMA DeletedKeeps ==
  ASSUME FilesInv, NEW p \in Proc, EntryDeleted(p)
  PROVE  FilesInv'
<1> DEFINE f == busy[p].file
<1>1. /\ files \in FilesType /\ busy \in [Proc -> CallType] /\ busy[p] \in CallType
      /\ busy[p].op = "unlink" /\ busy[p].ino = NULL
      /\ Sound(files, fd_table, busy, lost, apart)
  BY Calls DEF FilesInv, Types, EntryDeleted, In
<1>2. /\ exists' = exists \ {f} /\ UNCHANGED <<fd_table, live, inode_bitmap, lost, apart>>
  BY DEF EntryDeleted
<1>3. p \in live
  BY <1>1, BusyLives
<1>4. ASSUME NEW op \in {"load"} \cup Releasing, NEW i \in Inode,
             busy' = [busy EXCEPT ![p].op = op, ![p].ino = i]
      PROVE  /\ busy' \in [Proc -> CallType] /\ busy'[p].op = op /\ busy'[p].ino = i
             /\ SameCalls(busy, busy', p) /\ DeadOK(fd_table', live', busy')
  <2> DEFINE c == [busy[p] EXCEPT !.op = op, !.ino = i]
  <2>1. c \in CallType /\ c.op = op /\ c.ino = i
    <3>1. /\ busy[p] \in CallType /\ busy[p].op # "none" /\ c = WithInode(busy[p], op, i)
          /\ op \in {"load"} \cup Releasing /\ i \in Inode
      BY <1>1, <1>4 DEF WithInode
    <3> HIDE DEF c
    <3>2. WithInode(busy[p], op, i) \in CallType
      BY ONLY <3>1, NextInode
    <3>3. WithInode(busy[p], op, i).op = op /\ WithInode(busy[p], op, i).ino = i
      BY ONLY <3>1, NextInode
    <3>4. QED
      BY ONLY <3>1, <3>2, <3>3
  <2>2. busy' = [busy EXCEPT ![p] = c]
    <3> DEFINE d == [busy[p] EXCEPT !.op = op]
               b == [busy EXCEPT ![p] = d]
    <3>1. busy' = [b EXCEPT ![p].ino = i] /\ b[p] = d
      BY <1>1, <1>4
    <3>2. c = [d EXCEPT !.ino = i]
      BY <1>1
    <3> HIDE DEF c, d
    <3>3. QED
      BY <1>1, <3>1, <3>2
  <2> HIDE DEF c
  <2>3. QED
    BY <1>2, <1>3, <2>1, <2>2, NextCall
<1>5. CASE /\ Listed(f) # {} /\ RoomToCount
           /\ files' = inode_found(files, FirstListed(f))
           /\ busy' = [busy EXCEPT ![p].op = "release", ![p].ino = FirstListed(f)]
  <2> DEFINE j == FirstListed(f)
             m == inode_found(files, j)
  <2> HIDE DEF f
  <2>1. j \in Inode /\ NotTheirs(busy, p, j)
    BY <1>5, FirstListedIs
  <2>2. /\ m \in FilesType /\ m.table = files.table /\ OnlyInode(files, m, j)
        /\ OnlyLists(files, m, j) /\ ListOK(m) /\ m.inode[j].cnt = files.inode[j].cnt + 1
    BY <1>5, FindKeeps
  <2>3. files' = m
    BY <1>5
  <2>4. busy' = [busy EXCEPT ![p].op = "release", ![p].ino = j] /\ "release" \in {"load"} \cup Releasing
    BY <1>5 DEF Releasing
  <2> HIDE DEF m, j
  <2>5. /\ busy' \in [Proc -> CallType] /\ busy'[p].op = "release" /\ busy'[p].ino = j
        /\ SameCalls(busy, busy', p) /\ DeadOK(fd_table', live', busy')
    BY <1>4, <2>1, <2>4
  <2> DEFINE b2 == busy'
  <2>6. b2 \in [Proc -> CallType] /\ SameCalls(busy, b2, p)
    BY <2>5
  <2>7. /\ About(busy[p], j) /\ About(b2[p], j) /\ b2[p].op \notin Loading
        /\ Frees(b2[p], j) = 1 /\ Frees(busy[p], j) = 0
    BY <1>1, <2>5 DEF About, Loading, Releasing, Frees
  <2>8. m.inode[j].cnt = files.inode[j].cnt + Frees(b2[p], j) - Frees(busy[p], j)
    <3>1. files.inode[j].cnt \in 0 .. CntMod - 1
      BY <1>1, <2>1, FieldTypes, Records
    <3>2. QED
      BY <2>2, <2>7, <3>1, Sizes
  <2> HIDE DEF b2
  <2>9. Sound(m, fd_table, b2, lost, apart)
    BY <1>1, <2>1, <2>2, <2>6, <2>7, <2>8, InodeStep
  <2>10. QED
    BY <1>2, <2>2, <2>3, <2>5, <2>9 DEF FilesInv, Types, b2
<1>6. CASE /\ Listed(f) = {} /\ FreeInodes # {}
           /\ busy' = [busy EXCEPT ![p].op = "load", ![p].ino = Least(FreeInodes)]
           /\ UNCHANGED files
  <2> DEFINE i == Least(FreeInodes)
  <2>1. i \in Inode
    BY <1>6, FreeInodeIs
  <2>2. busy' = [busy EXCEPT ![p].op = "load", ![p].ino = i]
    BY <1>6
  <2> HIDE DEF i
  <2>3. /\ busy' \in [Proc -> CallType] /\ busy'[p].op = "load" /\ busy'[p].ino = i
        /\ SameCalls(busy, busy', p) /\ DeadOK(fd_table', live', busy')
    BY <1>4, <2>1, <2>2
  <2> DEFINE b2 == busy'
  <2>4. b2 \in [Proc -> CallType] /\ SameCalls(busy, b2, p)
    BY <2>3
  <2>5. b2[p].op \in Loading /\ b2[p].op # "open" /\ b2[p].ino = Least(FreeInodes)
    BY <2>3 DEF Loading, i
  <2> HIDE DEF b2
  <2>6. Sound(files, fd_table, b2, lost, apart)
    BY <1>1, <1>6, <2>4, <2>5, LoadStep
  <2>7. QED
    BY <1>2, <1>6, <2>3, <2>6 DEF FilesInv, Types, b2
<1>7. QED
  BY <1>5, <1>6 DEF EntryDeleted

LEMMA UnlinkedKeeps ==
  ASSUME FilesInv, NEW p \in Proc, UnlinkedInodeRead(p)
  PROVE  FilesInv'
<1> DEFINE j == busy[p].ino
           m == inode_loaded(files, j, busy[p].file)
           c == [busy[p] EXCEPT !.op = "release"]
<1>1. /\ files \in FilesType /\ busy \in [Proc -> CallType] /\ busy[p] \in CallType
      /\ busy[p].op = "load" /\ Sound(files, fd_table, busy, lost, apart)
  BY DEF FilesInv, Types, UnlinkedInodeRead, In
<1>2. /\ files' = m /\ busy' = [busy EXCEPT ![p] = c]
      /\ UNCHANGED <<fd_table, live, exists, inode_bitmap, lost, apart>>
  BY <1>1 DEF UnlinkedInodeRead
<1>3. /\ j \in Inode /\ m \in FilesType /\ m.table = files.table
      /\ OnlyInode(files, m, j) /\ OnlyLists(files, m, j) /\ ListOK(m)
      /\ m.inode[j].cnt = files.inode[j].cnt + 1 /\ NotTheirs(busy, p, j)
  BY <1>1, LoadKeeps DEF Loading
<1>4. c \in CallType /\ c.op = "release" /\ c.ino = j
  BY <1>1, NextPiece DEF Releasing
<1> HIDE DEF m, c
<1>5. /\ busy' \in [Proc -> CallType] /\ busy'[p] = c /\ SameCalls(busy, busy', p)
      /\ DeadOK(fd_table', live', busy')
  BY <1>1, <1>2, <1>4, BusyLives, NextCall
<1>6. /\ About(busy[p], j) /\ About(busy'[p], j) /\ busy'[p].op \notin Loading
      /\ Frees(busy'[p], j) = 1 /\ Frees(busy[p], j) = 0
  BY <1>1, <1>4, <1>5 DEF About, Loading, Releasing, Frees
<1> HIDE DEF j
<1>7. m.inode[j].cnt = files.inode[j].cnt + Frees(busy'[p], j) - Frees(busy[p], j)
  <2>1. files.inode[j].cnt \in 0 .. CntMod - 1
    BY <1>1, <1>3, FieldTypes, Records
  <2>2. QED
    BY <1>3, <1>6, <2>1, Sizes
<1> DEFINE b2 == busy'
<1>8. /\ b2 \in [Proc -> CallType] /\ SameCalls(busy, b2, p) /\ About(b2[p], j)
      /\ b2[p].op \notin Loading
      /\ m.inode[j].cnt = files.inode[j].cnt + Frees(b2[p], j) - Frees(busy[p], j)
  BY <1>5, <1>6, <1>7
<1> HIDE DEF b2
<1>9. Sound(m, fd_table, b2, lost, apart)
  BY <1>1, <1>3, <1>6, <1>8, InodeStep
<1>10. QED
  BY <1>2, <1>3, <1>5, <1>9 DEF FilesInv, Types, b2

LEMMA ReleasedKeeps ==
  ASSUME FilesInv, NEW p \in Proc, InodeReleased(p)
  PROVE  FilesInv'
<1> DEFINE j == busy[p].ino
           m == inode_close(files, j)
<1>1. /\ files \in FilesType /\ busy \in [Proc -> CallType] /\ busy[p] \in CallType
      /\ busy[p].op = "close" /\ Sound(files, fd_table, busy, lost, apart)
      /\ ListOK(files) /\ HeldOK(files, busy) /\ \A q \in Proc : CallOK(files, busy, q)
  BY DEF FilesInv, Types, InodeReleased, In, Sound, CallsOK
<1>2. /\ files' = m /\ busy' = [busy EXCEPT ![p] = NotBusy]
      /\ UNCHANGED <<fd_table, live, exists, inode_bitmap, lost, apart>>
  BY DEF InodeReleased
<1>3. j \in Inode
  BY <1>1, Calls DEF Releasing
<1>4. \A q \in Proc : busy[q].op \in Loading \cup Creating => busy[q].ino # j
  BY <1>1 DEF CallOK, Loading, Creating
<1>5. files.inode[j].cnt \in Nat /\ files.inode[j].cnt >= 1
  <2>1. files.inode[j].cnt \in 0 .. CntMod - 1
    BY <1>1, <1>3, FieldTypes, Records
  <2>2. ~Made(busy, j)
    BY <1>4 DEF Made
  <2>3. files.inode[j].cnt >= Uses(files, busy, j)
    BY <1>1, <1>3, <2>2 DEF HeldOK
  <2>4. p \in ReleasersOf(busy, j)
    BY <1>1 DEF ReleasersOf, Releasing
  <2>5. IsFiniteSet(EntriesOf(files, j)) /\ IsFiniteSet(ReleasersOf(busy, j))
    BY Finite, FS_Subset DEF EntriesOf, ReleasersOf
  <2>6. /\ Cardinality(EntriesOf(files, j)) \in Nat /\ Cardinality(ReleasersOf(busy, j)) \in Nat
        /\ Cardinality(ReleasersOf(busy, j)) # 0
    BY <2>4, <2>5, FS_CardinalityType, FS_EmptySet
  <2> DEFINE n == files.inode[j].cnt
             x == Cardinality(EntriesOf(files, j))
             y == Cardinality(ReleasersOf(busy, j))
  <2>7. n \in 0 .. CntMod - 1 /\ n >= x + y /\ x \in Nat /\ y \in Nat /\ y # 0
    BY <2>1, <2>3, <2>6 DEF Uses
  <2> HIDE DEF n, x, y
  <2>8. n \in Nat /\ n >= 1
    BY ONLY <2>7, Sizes
  <2>9. QED
    BY <2>8 DEF n
<1>6. /\ m \in FilesType /\ m.table = files.table /\ m.inode[j].cnt = files.inode[j].cnt - 1
      /\ \A i \in Inode \ {j} : m.inode[i] = files.inode[i]
      /\ ListOK(m) /\ \A k \in DOMAIN m.open : \E n \in DOMAIN files.open : files.open[n] = m.open[k]
  <2> HIDE DEF j
  <2>1. QED
    BY <1>1, <1>3, <1>5, CloseFacts
<1> HIDE DEF m
<1>7. /\ busy' \in [Proc -> CallType] /\ busy'[p] = NotBusy /\ SameCalls(busy, busy', p)
      /\ DeadOK(fd_table', live', busy')
  BY <1>1, <1>2, NotBusyType, BusyLives, NextCall
<1>8. /\ About(busy[p], j) /\ About(NotBusy, j) /\ NotBusy.op \notin Loading
      /\ Frees(NotBusy, j) = 0 /\ Frees(busy[p], j) = 1
  BY <1>1 DEF About, Loading, Releasing, Frees, NotBusy
<1>9. /\ NotTheirs(busy, p, j) /\ OnlyInode(files, m, j) /\ OnlyLists(files, m, j)
  BY <1>4, <1>6 DEF NotTheirs, OnlyInode, OnlyLists
<1> HIDE DEF j
<1> DEFINE b2 == busy'
<1>10. /\ b2 \in [Proc -> CallType] /\ SameCalls(busy, b2, p) /\ About(b2[p], j)
       /\ b2[p].op \notin Loading
       /\ m.inode[j].cnt = files.inode[j].cnt + Frees(b2[p], j) - Frees(busy[p], j)
  BY <1>5, <1>6, <1>7, <1>8
<1> HIDE DEF b2
<1>11. Sound(m, fd_table, b2, lost, apart)
  BY <1>1, <1>3, <1>6, <1>8, <1>9, <1>10, InodeStep
<1>12. QED
  BY <1>2, <1>6, <1>7, <1>11 DEF FilesInv, Types, b2

(* A new inode: the step of a call p that makes it in the entry s, drops   *)
(* it again, or lists it.                                                  *)
LEMMA UsesMade ==
  ASSUME NEW m, NEW b, NEW s \in Slot, NEW j, ReleasersOf(b, j) = {},
         \A t \in Slot : m.table[t].inode = j => t = s
  PROVE  Uses(m, b, j) = Has(m, s, j)
<1>1. EntriesOf(m, j) = IF m.table[s].inode = j THEN {s} ELSE {}
  BY DEF EntriesOf
<1>2. Cardinality({s}) = 1 /\ Cardinality({}) = 0
  BY FS_Singleton, FS_EmptySet
<1>3. Cardinality(EntriesOf(m, j)) = Has(m, s, j)
  BY <1>1, <1>2 DEF Has
<1>4. Has(m, s, j) \in {0, 1}
  BY DEF Has
<1>5. QED
  BY <1>2, <1>3, <1>4 DEF Uses

(* The files after the entry s and the inode j have been written.          *)
Written(m, m2, s, e, j, r) ==
  \/ m2 = [m EXCEPT !.inode = [m.inode EXCEPT ![j] = r],
                    !.table = [m.table EXCEPT ![s] = e]]
  \/ m2 = [m EXCEPT !.table = [m.table EXCEPT ![s] = e],
                    !.inode = [m.inode EXCEPT ![j] = r]]

LEMMA BothWritten ==
  ASSUME NEW m \in FilesType, NEW s \in Slot, NEW j \in Inode, NEW e \in EntryRec,
         NEW r \in InodeRec, NEW m2, Written(m, m2, s, e, j, r)
  PROVE  /\ m2 \in FilesType /\ m2.open = m.open
         /\ m2.table[s] = e /\ SameEntries(m, m2, s)
         /\ m2.inode[j] = r /\ OnlyInode(m, m2, j)
<1> DEFINE x == [m.inode EXCEPT ![j] = r]
           y == [m.table EXCEPT ![s] = e]
<1>1. x \in [Inode -> InodeRec] /\ y \in [Slot -> EntryRec]
  BY FieldTypes
<1>2. /\ x[j] = r /\ \A i \in Inode \ {j} : x[i] = m.inode[i]
      /\ y[s] = e /\ \A t \in Slot \ {s} : y[t] = m.table[t]
  BY FieldTypes
<1>3. \/ m2 = [m EXCEPT !.inode = x, !.table = y] \/ m2 = [m EXCEPT !.table = y, !.inode = x]
  BY DEF Written
<1> HIDE DEF x, y
<1>4. m2 = [table |-> y, inode |-> x, open |-> m.open, fault |-> m.fault]
  <2>1. m = [table |-> m.table, inode |-> m.inode, open |-> m.open, fault |-> m.fault]
    BY DEF FilesType
  <2> DEFINE a == [m EXCEPT !.inode = x]
             c == [m EXCEPT !.table = y]
  <2>2. /\ a = [table |-> m.table, inode |-> x, open |-> m.open, fault |-> m.fault]
        /\ c = [table |-> y, inode |-> m.inode, open |-> m.open, fault |-> m.fault]
    BY ONLY <2>1
  <2>3. m2 = [a EXCEPT !.table = y] \/ m2 = [c EXCEPT !.inode = x]
    BY ONLY <1>3, <2>1
  <2> HIDE DEF a, c
  <2>4. /\ [a EXCEPT !.table = y] = [table |-> y, inode |-> x, open |-> m.open, fault |-> m.fault]
        /\ [c EXCEPT !.inode = x] = [table |-> y, inode |-> x, open |-> m.open, fault |-> m.fault]
    BY ONLY <2>2
  <2>5. QED
    BY <2>3, <2>4
<1>5. m2 \in FilesType
  BY <1>1, <1>4, FieldTypes DEF FilesType
<1>6. m2.open = m.open /\ m2.table = y /\ m2.inode = x
  BY <1>4
<1>7. QED
  BY <1>2, <1>5, <1>6 DEF SameEntries, OnlyInode

(* The step of a call that makes j in the entry s, or drops it.            *)
NotListed(m, m2, j) == m2.open = m.open /\ \A k \in DOMAIN m.open : m.open[k] # j

Alone(m, m2, b, b2, p, s, j) ==
  /\ \A q \in Proc \ {p} : b[q].ino # j
  /\ b2[p].ino \in {j, NULL} /\ m2.table[s].inode \in {j, NULL, m.table[s].inode}

NoOther(m, b, b2, p, s, j, ap) ==
  \A i \in Inode : i # j => /\ Frees(b[p], i) = 0 /\ Frees(b2[p], i) = 0
                            /\ ~Making(b[p], i) /\ (ap => Has(m, s, i) = 0)

ComesOut(m2, b, b2, p, j, ap) ==
  ~Made(b2, j) => /\ Making(b[p], j) /\ m2.inode[j].cnt >= Uses(m2, b2, j)
                  /\ ap => m2.inode[j].cnt = Uses(m2, b2, j)

RefsElsewhere(fds, fds2, s) == \A t \in Slot \ {s} : RefsTo(fds2, t) = RefsTo(fds, t)

LEMMA StillListed ==
  ASSUME NEW m \in FilesType, NEW m2, NEW j, NotListed(m, m2, j), OnlyInode(m, m2, j), ListOK(m)
  PROVE  ListOK(m2) /\ OnlyLists(m, m2, j)
<1>1. m2.open = m.open /\ \A k \in DOMAIN m.open : m.open[k] \in Inode \ {j}
  BY FieldTypes DEF NotListed
<1>2. \A k \in DOMAIN m.open : m2.inode[m.open[k]] = m.inode[m.open[k]]
  BY <1>1 DEF OnlyInode
<1>3. ListOK(m2)
  BY ONLY ListOK(m), <1>1, <1>2 DEF ListOK
<1>4. QED
  BY <1>1, <1>3 DEF OnlyLists

LEMMA MakeStep ==
  ASSUME NEW m \in FilesType, NEW m2 \in FilesType, NEW b \in [Proc -> CallType],
         NEW b2 \in [Proc -> CallType], NEW fds, NEW fds2, NEW lst, NEW ap, NEW p \in Proc,
         NEW s \in Slot, NEW j \in Inode,
         SameEntries(m, m2, s), OnlyInode(m, m2, j), OnlyLists(m, m2, j), ListOK(m2),
         RefsElsewhere(fds, fds2, s),
         SameCalls(b, b2, p), Alone(m, m2, b, b2, p, s, j), NoOther(m, b, b2, p, s, j, ap),
         CallOK(m2, b2, p), ComesOut(m2, b, b2, p, j, ap),
         ap => /\ EntryOK(m2, fds2, lst, s) /\ PickOK(m2, fds2, b2, p) /\ b2[p].op # "open"
               /\ \A q \in Proc \ {p} : b[q].op \in {"open"} \cup Creating => b[q].slot # s,
         Sound(m, fds, b, lst, ap)
  PROVE  Sound(m2, fds2, b2, lst, ap)
<1>1. /\ ListOK(m) /\ CallsOK(m, b) /\ HeldOK(m, b)
      /\ ap => ExactOK(m, fds, b, lst)
  BY DEF Sound
<1>3. CallsOK(m2, b2)
  <2>1. NotTheirs(b, p, j) /\ b2[p].ino \in {j, NULL}
    BY DEF NotTheirs, Alone
  <2>2. OnlySets(m, m2, j)
    BY DEF OnlySets, SameEntries, Alone
  <2>3. QED
    BY <1>1, <2>1, <2>2, CallsStep
<1>4. \A i \in Inode : m.inode[i].cnt \in Nat /\ m2.inode[i].cnt \in Nat
  <2>1. \A i \in Inode : m.inode[i].cnt \in 0 .. CntMod - 1 /\ m2.inode[i].cnt \in 0 .. CntMod - 1
    BY FieldTypes, Records
  <2>2. QED
    BY <2>1, Sizes
<1>5. ASSUME NEW i \in Inode, i # j
      PROVE  /\ m2.inode[i].cnt = m.inode[i].cnt /\ Has(m, s, i) \in {0, 1}
             /\ Gain(m, m2, b, b2, s, p, i) \in {0, 0 - Has(m, s, i)}
  <2>1. Has(m2, s, i) \in {0, Has(m, s, i)}
    <3>1. i # NULL
      BY Sizes DEF NULL
    <3>2. QED
      BY <1>5, <3>1 DEF Has, Alone
  <2>2. Has(m, s, i) \in {0, 1}
    BY DEF Has
  <2>3. Frees(b[p], i) = 0 /\ Frees(b2[p], i) = 0
    BY <1>5 DEF NoOther
  <2>4. m2.inode[i].cnt = m.inode[i].cnt
    BY <1>5 DEF OnlyInode
  <2>5. QED
    BY <2>1, <2>2, <2>3, <2>4 DEF Gain
<1>6. HeldOK(m2, b2)
  <2>1. ASSUME NEW i \in Inode, ~Made(b2, i)
        PROVE  IF Making(b[p], i) THEN m2.inode[i].cnt >= Uses(m2, b2, i)
               ELSE m2.inode[i].cnt >= m.inode[i].cnt + Gain(m, m2, b, b2, s, p, i)
    <3>1. CASE i = j
      <4>1. Making(b[p], i) /\ m2.inode[i].cnt >= Uses(m2, b2, i)
        BY <2>1, <3>1 DEF ComesOut
      <4>2. QED
        BY <1>4, <4>1
    <3>2. CASE i # j
      <4>1. ~Making(b[p], i)
        BY <3>2 DEF NoOther
      <4>2. QED
        BY <1>4, <1>5, <3>2, <4>1
    <3>3. QED
      BY <3>1, <3>2
  <2>2. QED
    BY <1>1, <2>1, HeldStep
<1>7. ASSUME ap
      PROVE  ExactOK(m2, fds2, b2, lst)
  <2>1. ExactOK(m, fds, b, lst)
    BY <1>1, <1>7
  <2>2. CountOK(m2, b2)
    <3>1. ASSUME NEW i \in Inode, ~Made(b2, i)
          PROVE  IF Making(b[p], i) THEN m2.inode[i].cnt = Uses(m2, b2, i)
                 ELSE m2.inode[i].cnt = m.inode[i].cnt + Gain(m, m2, b, b2, s, p, i)
      <4>1. CASE i = j
        BY <1>7, <3>1, <4>1 DEF ComesOut
      <4>2. CASE i # j
        <5>1. Has(m, s, i) = 0 /\ ~Making(b[p], i)
          BY <1>7, <4>2 DEF NoOther
        <5>2. QED
          BY <1>4, <1>5, <4>2, <5>1
      <4>3. QED
        BY <4>1, <4>2
    <3>2. QED
      BY <2>1, <3>1, CountStep DEF ExactOK
  <2>3. /\ EntryOK(m2, fds2, lst, s) /\ PickOK(m2, fds2, b2, p) /\ b2[p].op # "open"
        /\ \A q \in Proc \ {p} : b[q].op \in {"open"} \cup Creating => b[q].slot # s
    BY <1>7
  <2>4. \A t \in Slot \ {s} : RefsTo(fds2, t) = RefsTo(fds, t)
    BY DEF RefsElsewhere
  <2>5. QED
    BY <2>1, <2>2, <2>3, <2>4, ExactStep
<1>8. QED
  BY <1>3, <1>6, <1>7 DEF Sound

LEMMA MakeKeeps ==
  ASSUME FilesInv, NEW p \in Proc, file_create(p)
  PROVE  FilesInv'
<1> DEFINE j == Least(FreeInodes)
           s == get_free_slot_in_global
           f == inode_bitmap_alloc
           e == [inode |-> j, pos |-> 0, flag |-> "O_CREAT"]
           r == [NoInode EXCEPT !.i_no = f]
           c == [op |-> "create", slot |-> s, file |-> f, ino |-> j, flag |-> "O_CREAT"]
<1>1. /\ files \in FilesType /\ busy \in [Proc -> CallType] /\ fd_table \in [Proc -> TableType]
      /\ apart \in BOOLEAN /\ inode_bitmap \subseteq File
      /\ Sound(files, fd_table, busy, lost, apart)
  BY DEF FilesInv, Types
<1>2. /\ p \in live /\ busy[p] = NotBusy /\ "O_CREAT" \in Flag /\ FreeInodes # {} /\ s # -1
      /\ File # inode_bitmap
      /\ inode_bitmap' = inode_bitmap \cup {f}
      /\ files' = [files EXCEPT !.inode = [files.inode EXCEPT ![j] = r],
                                !.table = [files.table EXCEPT ![s] = e]]
      /\ busy' = [busy EXCEPT ![p] = c]
      /\ apart' = (apart /\ ~PickedTwice(s)) /\ UNCHANGED <<fd_table, live, exists, lost>>
  BY DEF file_create, CanCall
<1>3. f \in File
  <2>1. File \ inode_bitmap \in SUBSET Nat /\ File \ inode_bitmap # {}
    BY <1>1, <1>2, FileAssumption
  <2>2. Least(File \ inode_bitmap) \in File \ inode_bitmap
    BY ONLY <2>1, LeastIs
  <2>3. QED
    BY <2>2 DEF inode_bitmap_alloc
<1>4. s \in Slot /\ files.table[s].inode = NULL
  BY <1>2, FreeSlotIs
<1>5. /\ j \in Inode /\ files.inode[j] = NoInode
      /\ \A q \in Proc : busy[q].ino # j
      /\ \A k \in DOMAIN files.open : files.open[k] # j
      /\ \A t \in Slot : files.table[t].inode # j
  BY <1>2, FreeInodeIs
<1> HIDE DEF f, s, j
<1>6. e \in EntryRec /\ e.inode = j /\ e.flag = "O_CREAT" /\ c.op = "create" /\ c.ino = j /\ c.slot = s
  BY <1>2, <1>5, Sizes DEF EntryRec
<1>7. c \in CallType
  BY <1>2, <1>3, <1>4, <1>5 DEF CallType, Loading, Creating, Releasing
<1>8. r \in InodeRec
  BY <1>3, Records DEF InodeRec, NoInode
<1>9. apart' => /\ apart /\ SlotIsOurs(files, busy, p, s)
  BY <1>1, <1>2, <1>4, OursIfFree
<1> HIDE DEF e, r, c
<1>10. /\ files' \in FilesType /\ files'.open = files.open /\ files'.table[s] = e
       /\ SameEntries(files, files', s) /\ OnlyInode(files, files', j)
  <2> DEFINE g == files'
  <2>1. Written(files, g, s, e, j, r)
    BY <1>2 DEF Written
  <2> HIDE DEF g
  <2>2. files \in FilesType /\ s \in Slot /\ j \in Inode /\ e \in EntryRec /\ r \in InodeRec
    BY <1>1, <1>4, <1>5, <1>6, <1>8
  <2>3. /\ g \in FilesType /\ g.open = files.open /\ g.table[s] = e
        /\ SameEntries(files, g, s) /\ OnlyInode(files, g, j)
    BY ONLY <2>1, <2>2, BothWritten
  <2>4. QED
    BY <2>3 DEF g
<1>11. /\ busy' \in [Proc -> CallType] /\ busy'[p] = c /\ SameCalls(busy, busy', p)
       /\ DeadOK(fd_table', live', busy')
  BY <1>2, <1>7, NextCall
<1> DEFINE m2 == files'
           b2 == busy'
           ap == apart'
<1>12. /\ m2 \in FilesType /\ m2.open = files.open /\ m2.table[s] = e /\ m2.table[s].inode = j
       /\ SameEntries(files, m2, s) /\ OnlyInode(files, m2, j)
       /\ b2 \in [Proc -> CallType] /\ b2[p] = c /\ SameCalls(busy, b2, p)
       /\ ap => apart /\ SlotIsOurs(files, busy, p, s)
  BY <1>6, <1>9, <1>10, <1>11
<1> HIDE DEF m2, b2, ap
<1>13. Sound(m2, fd_table, b2, lost, ap)
  <2>1. ComesOut(m2, busy, b2, p, j, ap)
    BY <1>6, <1>12 DEF Made, Creating, ComesOut
  <2>2. NoOther(files, busy, b2, p, s, j, ap)
    <3>1. \A i \in Inode : i # NULL
      BY Sizes DEF NULL
    <3>2. QED
      BY <1>2, <1>4, <1>6, <1>12, <3>1
         DEF NoOther, Frees, Making, Creating, Releasing, NotBusy, Has
  <2>3. CallOK(m2, b2, p)
    <3>1. \A q \in Proc \ {p} : b2[q].ino # j
      BY <1>5, <1>12 DEF SameCalls
    <3>2. \A t \in Slot : m2.table[t].inode = j => t = s
      BY <1>5, <1>12 DEF SameEntries
    <3>3. QED
      BY <1>5, <1>6, <1>12, <3>1, <3>2 DEF CallOK, Loading, Creating
  <2>4. ASSUME ap
        PROVE  /\ EntryOK(m2, fd_table, lost, s) /\ PickOK(m2, fd_table, b2, p) /\ b2[p].op # "open"
               /\ \A q \in Proc \ {p} : busy[q].op \in {"open"} \cup Creating => busy[q].slot # s
    <3>1. /\ apart /\ ExactOK(files, fd_table, busy, lost)
          /\ \A q \in Proc \ {p} : busy[q].op \in {"open"} \cup Creating => busy[q].slot # s
      BY <1>1, <1>12, <2>4 DEF Sound, SlotIsOurs
    <3>2. RefsTo(fd_table, s) = {}
      BY <1>4, <3>1 DEF ExactOK, EntryOK
    <3>3. j # NULL /\ j # PipePage
      BY <1>5, Sizes DEF NULL, PipePage
    <3>4. EntryOK(m2, fd_table, lost, s)
      BY <1>6, <1>12, <3>2, <3>3 DEF EntryOK
    <3>5. PickOK(m2, fd_table, b2, p) /\ b2[p].op # "open"
      BY <1>6, <1>12, <3>2 DEF PickOK
    <3>6. QED
      BY <3>1, <3>4, <3>5
  <2>5. Sound(files, fd_table, busy, lost, ap)
    <3>1. ap => apart
      BY <1>12
    <3>2. QED
      BY <1>1, <3>1, SoundFds DEF SameOn
  <2>6. Alone(files, m2, busy, b2, p, s, j) /\ NotListed(files, m2, j)
    BY <1>5, <1>6, <1>12 DEF Alone, NotListed
  <2>7. ListOK(m2) /\ OnlyLists(files, m2, j) /\ RefsElsewhere(fd_table, fd_table, s)
    BY <1>1, <1>12, <2>6, StillListed DEF Sound, RefsElsewhere
  <2>8. QED
    BY <1>1, <1>4, <1>5, <1>12, <2>1, <2>2, <2>3, <2>4, <2>5, <2>6, <2>7, MakeStep
<1>14. QED
  BY <1>1, <1>2, <1>3, <1>10, <1>11, <1>13 DEF FilesInv, Types, m2, b2, ap

(* What is known of the inode that a call is making.                       *)
LEMMA Maker ==
  ASSUME FilesInv, NEW p \in Proc, busy[p].op \in Creating
  PROVE  LET j == busy[p].ino
             s == busy[p].slot
         IN  /\ j \in Inode /\ s \in Slot /\ p \in live
             /\ \A q \in Proc \ {p} : busy[q].ino # j
             /\ \A k \in DOMAIN files.open : files.open[k] # j
             /\ \A t \in Slot : files.table[t].inode = j => t = s
             /\ \A i : Frees(busy[p], i) = 0 /\ (i # j => ~Making(busy[p], i))
             /\ Making(busy[p], j)
             /\ apart => /\ ExactOK(files, fd_table, busy, lost)
                         /\ files.table[s].inode = j /\ RefsTo(fd_table, s) = {}
                         /\ \A q \in Proc \ {p} : busy[q].op \in {"open"} \cup Creating =>
                                                    busy[q].slot # s
<1> DEFINE j == busy[p].ino
           s == busy[p].slot
<1>1. /\ busy \in [Proc -> CallType] /\ \A q \in Proc : CallOK(files, busy, q)
      /\ apart => ExactOK(files, fd_table, busy, lost)
  BY DEF FilesInv, Types, Sound, CallsOK
<1>2. j \in Inode /\ s \in Slot
  BY <1>1, Calls
<1>3. p \in live
  BY BusyLives DEF Creating
<1>4. /\ \A q \in Proc \ {p} : busy[q].ino # j
      /\ \A k \in DOMAIN files.open : files.open[k] # j
      /\ \A t \in Slot : files.table[t].inode = j => t = s
  BY <1>1 DEF CallOK
<1>5. /\ \A i : Frees(busy[p], i) = 0 /\ (i # j => ~Making(busy[p], i))
      /\ Making(busy[p], j)
  BY DEF Frees, Making, Creating, Releasing
<1>6. ASSUME apart
      PROVE  /\ files.table[s].inode = j /\ RefsTo(fd_table, s) = {}
             /\ \A q \in Proc \ {p} : busy[q].op \in {"open"} \cup Creating => busy[q].slot # s
  <2>1. \A q \in Proc : PickOK(files, fd_table, busy, q)
    BY <1>1, <1>6 DEF ExactOK
  <2>2. files.table[s].inode = j /\ RefsTo(fd_table, s) = {} /\ j # NULL
    BY <1>2, <2>1, Sizes DEF PickOK, NULL
  <2>3. ASSUME NEW q \in Proc \ {p}, busy[q].op \in {"open"} \cup Creating
        PROVE  busy[q].slot # s
    <3>1. busy[q].op = "open" => files.table[busy[q].slot].inode = NULL
      BY <2>1 DEF PickOK
    <3>2. busy[q].op \in Creating => files.table[busy[q].slot].inode # j
      BY <1>4, <2>1 DEF PickOK
    <3>3. QED
      BY <2>2, <2>3, <3>1, <3>2
  <2>4. QED
    BY <2>2, <2>3
<1>7. QED
  BY <1>1, <1>2, <1>3, <1>4, <1>5, <1>6

LEMMA RollbackKeeps ==
  ASSUME FilesInv, NEW p \in Proc, CreateRollback(p)
  PROVE  FilesInv'
<1> DEFINE j == busy[p].ino
           s == busy[p].slot
           e == [inode |-> NULL, pos |-> 0, flag |-> "none"]
           g == files'
           b2 == busy'
<1>1. /\ files \in FilesType /\ busy \in [Proc -> CallType] /\ busy[p].op \in Creating
      /\ inode_bitmap \subseteq File
      /\ Sound(files, fd_table, busy, lost, apart)
  BY DEF FilesInv, Types, CreateRollback, In, Creating
<1>2. /\ Written(files, g, s, e, j, NoInode) /\ busy' = [busy EXCEPT ![p] = NotBusy]
      /\ inode_bitmap' \subseteq inode_bitmap /\ UNCHANGED <<fd_table, live, exists, lost, apart>>
  BY DEF CreateRollback, Written
<1>3. /\ j \in Inode /\ s \in Slot /\ p \in live
      /\ \A q \in Proc \ {p} : busy[q].ino # j
      /\ \A k \in DOMAIN files.open : files.open[k] # j
      /\ \A t \in Slot : files.table[t].inode = j => t = s
      /\ \A i : Frees(busy[p], i) = 0 /\ (i # j => ~Making(busy[p], i))
      /\ Making(busy[p], j)
      /\ apart => /\ ExactOK(files, fd_table, busy, lost)
                  /\ files.table[s].inode = j /\ RefsTo(fd_table, s) = {}
                  /\ \A q \in Proc \ {p} : busy[q].op \in {"open"} \cup Creating =>
                                             busy[q].slot # s
  BY <1>1, Maker
<1> HIDE DEF j, s
<1>4. e \in EntryRec /\ e.inode = NULL /\ NoInode \in InodeRec
  BY Sizes, Records DEF EntryRec
<1> HIDE DEF e, g
<1>5. /\ g \in FilesType /\ g.open = files.open /\ g.table[s] = e
      /\ SameEntries(files, g, s) /\ g.inode[j] = NoInode /\ OnlyInode(files, g, j)
  BY <1>1, <1>2, <1>3, <1>4, BothWritten
<1>6. /\ busy' \in [Proc -> CallType] /\ busy'[p] = NotBusy /\ SameCalls(busy, busy', p)
      /\ DeadOK(fd_table', live', busy')
  BY <1>2, <1>3, NotBusyType, NextCall
<1>7. b2 \in [Proc -> CallType] /\ b2[p] = NotBusy /\ SameCalls(busy, b2, p)
  BY <1>6
<1> HIDE DEF b2
<1>8. NotBusy.op = "none" /\ NotBusy.ino = NULL /\ j # NULL
  BY <1>3, Sizes DEF NotBusy, NULL
<1>9. Sound(g, fd_table, b2, lost, apart)
  <2>1. ComesOut(g, busy, b2, p, j, apart)
    <3>1. ReleasersOf(b2, j) = {}
      BY <1>3, <1>7, <1>8 DEF ReleasersOf, SameCalls
    <3>2. \A t \in Slot : g.table[t].inode = j => t = s
      BY <1>3, <1>5 DEF SameEntries
    <3>3. Uses(g, b2, j) = Has(g, s, j)
      BY <1>3, <3>1, <3>2, UsesMade
    <3>4. Has(g, s, j) = 0
      BY <1>4, <1>5, <1>8 DEF Has
    <3>5. QED
      BY <1>3, <1>5, <3>3, <3>4, Records DEF ComesOut
  <2>2. NoOther(files, busy, b2, p, s, j, apart)
    BY <1>3, <1>7, <1>8 DEF NoOther, Frees, Releasing, Has
  <2>3. CallOK(g, b2, p)
    BY <1>7, <1>8 DEF CallOK, Loading, Creating
  <2>4. ASSUME apart
        PROVE  /\ EntryOK(g, fd_table, lost, s) /\ PickOK(g, fd_table, b2, p) /\ b2[p].op # "open"
               /\ \A q \in Proc \ {p} : busy[q].op \in {"open"} \cup Creating => busy[q].slot # s
    <3>1. NULL \notin Inode /\ NULL # PipePage
      BY Sizes DEF NULL, PipePage
    <3>2. EntryOK(g, fd_table, lost, s)
      BY <1>3, <1>4, <1>5, <2>4, <3>1 DEF EntryOK
    <3>3. PickOK(g, fd_table, b2, p)
      BY <1>7, <1>8 DEF PickOK, Creating
    <3>4. QED
      BY <1>3, <1>7, <1>8, <2>4, <3>2, <3>3
  <2>5. Alone(files, g, busy, b2, p, s, j) /\ NotListed(files, g, j)
    BY <1>3, <1>4, <1>5, <1>7, <1>8 DEF Alone, NotListed
  <2>6. ListOK(g) /\ OnlyLists(files, g, j) /\ RefsElsewhere(fd_table, fd_table, s)
    BY <1>1, <1>5, <2>5, StillListed DEF Sound, RefsElsewhere
  <2>7. QED
    BY <1>1, <1>3, <1>5, <1>7, <2>1, <2>2, <2>3, <2>4, <2>5, <2>6, MakeStep
<1>10. QED
  BY <1>1, <1>2, <1>5, <1>6, <1>9 DEF FilesInv, Types, g, b2

LEMMA DoneKeeps ==
  ASSUME FilesInv, NEW p \in Proc, CreateDone(p)
  PROVE  FilesInv'
<1> DEFINE j == busy[p].ino
           s == busy[p].slot
           r == [files.inode[j] EXCEPT !.cnt = 1]
           g == files'
           b2 == busy'
           fds2 == fd_table'
<1>1. /\ files \in FilesType /\ busy \in [Proc -> CallType] /\ busy[p].op \in Creating
      /\ fd_table \in [Proc -> TableType]
      /\ Sound(files, fd_table, busy, lost, apart)
  BY DEF FilesInv, Types, CreateDone, In, Creating
<1>2. /\ files' = [files EXCEPT !.inode = [files.inode EXCEPT ![j] = r],
                                !.open = <<j>> \o files.open]
      /\ fd_table' = [fd_table EXCEPT ![p] = pcb_fd_install(fd_table[p], s)]
      /\ busy' = [busy EXCEPT ![p] = NotBusy]
      /\ UNCHANGED <<live, exists, inode_bitmap, lost, apart>>
  BY DEF CreateDone
<1>3. /\ j \in Inode /\ s \in Slot /\ p \in live
      /\ \A q \in Proc \ {p} : busy[q].ino # j
      /\ \A k \in DOMAIN files.open : files.open[k] # j
      /\ \A t \in Slot : files.table[t].inode = j => t = s
      /\ \A i : Frees(busy[p], i) = 0 /\ (i # j => ~Making(busy[p], i))
      /\ Making(busy[p], j)
      /\ apart => /\ ExactOK(files, fd_table, busy, lost)
                  /\ files.table[s].inode = j /\ RefsTo(fd_table, s) = {}
                  /\ \A q \in Proc \ {p} : busy[q].op \in {"open"} \cup Creating =>
                                             busy[q].slot # s
  BY <1>1, Maker
<1> HIDE DEF j, s
<1>4. r \in InodeRec /\ r.cnt = 1
  <2>1. files.inode[j] \in InodeRec /\ 1 \in 0 .. CntMod - 1
    BY <1>1, <1>3, FieldTypes, Sizes
  <2>2. QED
    BY <2>1, WithCnt
<1> HIDE DEF r
<1>5. /\ g \in FilesType /\ g.table = files.table /\ g.open = <<j>> \o files.open
      /\ g.inode[j] = r /\ OnlyInode(files, g, j)
  <2> DEFINE l == <<j>> \o files.open
             x == [files.inode EXCEPT ![j] = r]
  <2>1. l \in Seq(Inode) /\ files.inode \in [Inode -> InodeRec]
    BY <1>1, <1>3, FieldTypes, Pushed
  <2>2. g = [files EXCEPT !.inode = [files.inode EXCEPT ![j] = r], !.open = l]
    BY <1>2
  <2> HIDE DEF l, g
  <2>3. g \in FilesType
    BY <1>1, <1>3, <1>4, <2>1, <2>2, FilesListed
  <2>4. g.table = files.table /\ g.inode = x /\ g.open = l
    BY <1>1, <2>2, Fields
  <2>5. x[j] = r /\ \A i \in Inode \ {j} : x[i] = files.inode[i]
    BY <1>3, <2>1
  <2>6. QED
    BY <2>3, <2>4, <2>5 DEF OnlyInode, l
<1> HIDE DEF g
<1>6. /\ busy' \in [Proc -> CallType] /\ busy'[p] = NotBusy /\ SameCalls(busy, busy', p)
  BY <1>2, NotBusyType, NextCall
<1>7. b2 \in [Proc -> CallType] /\ b2[p] = NotBusy /\ SameCalls(busy, b2, p)
  BY <1>6
<1> HIDE DEF b2
<1>8. NotBusy.op = "none" /\ NotBusy.ino = NULL /\ j # NULL
  BY <1>3, Sizes DEF NotBusy, NULL
<1>9. /\ fds2 \in [Proc -> TableType] /\ Installed(fd_table, fds2, p, s)
      /\ \A q \in Proc \ {p} : fds2[q] = fd_table[q]
  BY <1>1, <1>2, <1>3, InstallFds
<1>10. DeadOK(fds2, live', busy')
  BY <1>2, <1>3, <1>6, <1>9 DEF FilesInv, DeadOK, SameCalls
<1> HIDE DEF fds2
<1>11. /\ RefsElsewhere(fd_table, fds2, s)
       /\ RefsTo(fd_table, s) = {} => \A x, y \in RefsTo(fds2, s) : x = y
  <2>1. p \in Proc /\ s \in Slot /\ Installed(fd_table, fds2, p, s)
    BY <1>3, <1>9
  <2>2. /\ \A t \in Slot \ {s} : RefsTo(fds2, t) = RefsTo(fd_table, t)
        /\ RefsTo(fd_table, s) = {} => \A x, y \in RefsTo(fds2, s) : x = y
    BY ONLY <2>1, InstalledRefs
  <2>3. QED
    BY <2>2 DEF RefsElsewhere
<1>12. Sound(g, fds2, b2, lost, apart)
  <2>1. ComesOut(g, busy, b2, p, j, apart)
    <3>1. ReleasersOf(b2, j) = {}
      BY <1>3, <1>7, <1>8 DEF ReleasersOf, SameCalls
    <3>2. \A t \in Slot : g.table[t].inode = j => t = s
      BY <1>3, <1>5
    <3>3. Uses(g, b2, j) = Has(g, s, j)
      BY <1>3, <3>1, <3>2, UsesMade
    <3>4. Has(g, s, j) \in {0, 1} /\ (apart => Has(g, s, j) = 1)
      BY <1>3, <1>5 DEF Has
    <3>5. QED
      BY <1>3, <1>4, <1>5, <3>3, <3>4 DEF ComesOut
  <2>2. NoOther(files, busy, b2, p, s, j, apart)
    BY <1>3, <1>7, <1>8 DEF NoOther, Frees, Releasing, Has
  <2>3. CallOK(g, b2, p)
    BY <1>7, <1>8 DEF CallOK, Loading, Creating
  <2>4. ASSUME apart
        PROVE  /\ EntryOK(g, fds2, lost, s) /\ PickOK(g, fds2, b2, p) /\ b2[p].op # "open"
               /\ \A q \in Proc \ {p} : busy[q].op \in {"open"} \cup Creating => busy[q].slot # s
    <3>1. j # NULL /\ j # PipePage
      BY <1>3, Sizes DEF NULL, PipePage
    <3>2. files.table[s].flag # "PIPE_FLAG"
      BY <1>3, <2>4 DEF ExactOK, EntryOK
    <3>3. EntryOK(g, fds2, lost, s)
      BY <1>3, <1>5, <1>11, <2>4, <3>1, <3>2 DEF EntryOK
    <3>4. PickOK(g, fds2, b2, p)
      BY <1>7, <1>8 DEF PickOK, Creating
    <3>5. QED
      BY <1>3, <1>7, <1>8, <2>4, <3>3, <3>4
  <2>5. ListOK(g) /\ OnlyLists(files, g, j)
    <3>1. files.open \in Seq(Inode) /\ ListOK(files)
      BY <1>1, FieldTypes DEF Sound
    <3>2. /\ \A k \in DOMAIN g.open : g.open[k] = j \/ \E n \in DOMAIN files.open : files.open[n] = g.open[k]
          /\ \A x, k \in DOMAIN g.open : g.open[x] = g.open[k] => x = k
      BY ONLY <1>3, <1>5, <3>1, Pushed DEF ListOK
    <3>3. ASSUME NEW k \in DOMAIN g.open
          PROVE  g.inode[g.open[k]].cnt >= 1
      <4>1. CASE g.open[k] = j
        BY <1>4, <1>5, <4>1
      <4>2. CASE g.open[k] # j
        <5>1. PICK n \in DOMAIN files.open : files.open[n] = g.open[k]
          BY <3>2, <4>2
        <5>2. files.open[n] \in Inode \ {j} /\ files.inode[files.open[n]].cnt >= 1
          BY <1>3, <3>1 DEF ListOK
        <5>3. g.inode[files.open[n]] = files.inode[files.open[n]]
          BY <1>5, <5>2 DEF OnlyInode
        <5>4. QED
          BY <5>1, <5>2, <5>3
      <4>3. QED
        BY <4>1, <4>2
    <3>4. QED
      BY <3>2, <3>3 DEF ListOK, OnlyLists
  <2>6. Alone(files, g, busy, b2, p, s, j) /\ SameEntries(files, g, s)
    <3>1. SameEntries(files, g, s)
      BY <1>5 DEF SameEntries
    <3>2. QED
      BY <1>3, <1>5, <1>7, <1>8, <3>1 DEF Alone
  <2>7. QED
    BY <1>1, <1>3, <1>5, <1>7, <1>11, <2>1, <2>2, <2>3, <2>4, <2>5, <2>6, MakeStep
<1>13. QED
  BY <1>1, <1>2, <1>5, <1>6, <1>9, <1>10, <1>12 DEF FilesInv, Types, g, b2, fds2

(* The descriptors that one more pcb_fd_install leaves, and those for s.   *)
Room(t) == IF FreeFds(t) = {} THEN 0 ELSE 1

Installs(fds, fds2, p, s) == fds2 = [fds EXCEPT ![p] = pcb_fd_install(fds[p], s)]

LEMMA InstallsOne ==
  ASSUME NEW fds \in [Proc -> TableType], NEW fds2, NEW p \in Proc, NEW s \in Slot,
         Installs(fds, fds2, p, s)
  PROVE  fds2 \in [Proc -> TableType] /\ Installed(fds, fds2, p, s)
BY InstallFds DEF Installs

LEMMA InstallCounts ==
  ASSUME NEW fds \in [Proc -> TableType], NEW fds2, NEW p \in Proc, NEW s \in Slot,
         Installs(fds, fds2, p, s)
  PROVE  /\ Cardinality(RefsTo(fds2, s)) = Cardinality(RefsTo(fds, s)) + Room(fds[p])
         /\ Cardinality(FreeFds(fds2[p])) = Cardinality(FreeFds(fds[p])) - Room(fds[p])
         /\ Cardinality(RefsTo(fds, s)) \in Nat /\ Cardinality(FreeFds(fds[p])) \in Nat
         /\ Room(fds[p]) = IF Cardinality(FreeFds(fds[p])) = 0 THEN 0 ELSE 1
<1> DEFINE t == fds[p]
           r == pcb_fd_install(t, s)
<1>1. t \in TableType /\ fds2[p] = r /\ \A q \in Proc \ {p} : fds2[q] = fds[q]
  BY DEF Installs
<1>2. \/ FreeFds(t) = {} /\ r = t
      \/ /\ Least(FreeFds(t)) \in FreeFds(t)
         /\ r = [t EXCEPT ![Least(FreeFds(t))] = s]
  BY <1>1, Install
<1>3. IsFiniteSet(FreeFds(t)) /\ IsFiniteSet(FreeFds(r))
  <2> DEFINE hi == MAX_FILES_OPEN_PER_PROC - 1
  <2>1. hi \in Nat /\ Fd = 3 .. hi
    BY Sizes
  <2> HIDE DEF hi
  <2>2. IsFiniteSet(Fd)
    BY <2>1, FS_Interval
  <2>3. FreeFds(t) \subseteq Fd /\ FreeFds(r) \subseteq Fd
    BY DEF FreeFds
  <2>4. QED
    BY ONLY <2>2, <2>3, FS_Subset
<1>4. Cardinality(RefsTo(fds, s)) \in Nat /\ Cardinality(FreeFds(t)) \in Nat
  <2>1. IsFiniteSet(RefsTo(fds, s))
    BY Finite, FS_Subset DEF RefsTo
  <2>2. QED
    BY <1>3, <2>1, FS_CardinalityType
<1>5. Cardinality(FreeFds(t)) = 0 <=> FreeFds(t) = {}
  BY <1>3, FS_EmptySet
<1> HIDE DEF r
<1>6. CASE FreeFds(t) = {}
  <2>1. r = t /\ Room(t) = 0
    BY <1>2, <1>6 DEF Room
  <2>2. RefsTo(fds2, s) = RefsTo(fds, s)
    BY <1>1, <2>1 DEF RefsTo
  <2>3. fds2[p] = t
    BY <1>1, <2>1
  <2>4. QED
    BY <1>4, <1>5, <1>6, <2>1, <2>2, <2>3
<1>7. CASE FreeFds(t) # {}
  <2> DEFINE d == Least(FreeFds(t))
  <2>1. d \in FreeFds(t) /\ r = [t EXCEPT ![d] = s] /\ Room(t) = 1
    BY <1>2, <1>7 DEF Room
  <2> HIDE DEF d
  <2>2. d \in Fd /\ t[d] = -1 /\ \A x \in Fd : x \in DOMAIN t
    BY <1>1, <2>1, FileAssumption DEF FreeFds, TableType, Fd
  <2>3. r[d] = s /\ \A x \in Fd : x # d => r[x] = t[x]
    BY <2>1, <2>2
  <2>4. s # -1
    BY Sizes
  <2>5. FreeFds(r) = FreeFds(t) \ {d}
    BY <2>2, <2>3, <2>4 DEF FreeFds
  <2>6. Cardinality(FreeFds(r)) = Cardinality(FreeFds(t)) - 1
    BY ONLY <1>3, <2>1, <2>5, FS_RemoveElement
  <2>7. SameFds(fds, fds2, p, d) /\ Leads(fds2, p, d, s) = 1 /\ Leads(fds, p, d, s) = 0
    BY <1>1, <2>2, <2>3, <2>4 DEF SameFds, Leads
  <2>8. Cardinality(RefsTo(fds2, s)) = Cardinality(RefsTo(fds, s)) + 1 - 0
    BY <2>2, <2>7, RefsStep
  <2>9. fds2[p] = r
    BY <1>1
  <2>10. QED
    BY <1>4, <1>5, <1>7, <2>1, <2>6, <2>8, <2>9
<1>8. QED
  BY <1>6, <1>7

(* The invariant depends on the three parts of the files only.             *)
LEMMA SoundSame ==
  ASSUME NEW m, NEW m2, NEW fds, NEW b, NEW lst, NEW ap, NEW ap2, ap2 => ap,
         m2.table = m.table, m2.inode = m.inode, m2.open = m.open,
         Sound(m, fds, b, lst, ap)
  PROVE  Sound(m2, fds, b, lst, ap2)
BY DEF Sound, ListOK, CallsOK, CallOK, HeldOK, Uses, EntriesOf, ExactOK, CountOK, EntryOK, PickOK

(* A pipe fills the entry s, which had no descriptors, and counts those    *)
(* that it gets and those that could not be installed.                     *)
LEMMA PipeStep ==
  ASSUME FilesInv, NEW p \in Proc, busy[p] = NotBusy, NEW m2 \in FilesType,
         NEW fds1 \in [Proc -> TableType], NEW fds2 \in [Proc -> TableType],
         NEW s \in Slot, NEW lst2, NEW ap,
         SameEntries(files, m2, s), m2.inode = files.inode, m2.open = files.open,
         m2.table[s] = [inode |-> PipePage, pos |-> 2, flag |-> "PIPE_FLAG"],
         RefsElsewhere(fd_table, fds1, s), RefsElsewhere(fds1, fds2, s),
         \A t \in Slot \ {s} : lst2[t] = lost[t],
         RefsTo(fd_table, s) = {} => Cardinality(RefsTo(fds2, s)) + lst2[s] = 2,
         ap => apart /\ SlotIsOurs(files, busy, p, s)
  PROVE  Sound(m2, fds2, busy, lst2, ap)
<1>1. /\ files \in FilesType /\ busy \in [Proc -> CallType]
      /\ ListOK(files) /\ CallsOK(files, busy) /\ HeldOK(files, busy)
  BY DEF FilesInv, Types, Sound
<1>2. apart => ExactOK(files, fd_table, busy, lost)
  BY DEF FilesInv, Sound
<1>3. /\ m2.table[s].inode = PipePage /\ m2.table[s].pos = 2 /\ m2.table[s].flag = "PIPE_FLAG"
      /\ SameCalls(busy, busy, p)
  BY DEF SameCalls
<1>4. NULL \notin Inode /\ PipePage \notin Inode /\ NULL # PipePage
  BY Sizes DEF NULL, PipePage
<1>5. ASSUME NEW i \in Inode
      PROVE  /\ m2.inode[i].cnt = files.inode[i].cnt /\ files.inode[i].cnt \in Nat
             /\ Has(files, s, i) \in {0, 1} /\ ~Making(busy[p], i)
             /\ Gain(files, m2, busy, busy, s, p, i) = 0 - Has(files, s, i)
  <2>1. files.inode[i].cnt \in 0 .. CntMod - 1
    BY <1>1, FieldTypes, Records
  <2>2. Has(m2, s, i) = 0
    BY <1>3, <1>4 DEF Has
  <2>3. ~Making(busy[p], i)
    BY DEF Making, NotBusy, Creating
  <2>4. QED
    BY <2>1, <2>2, <2>3, GainSame, Sizes
<1>6. HeldOK(m2, busy)
  <2>1. \A i \in Inode :
          /\ ~Making(busy[p], i)
          /\ m2.inode[i].cnt >= files.inode[i].cnt + Gain(files, m2, busy, busy, s, p, i)
    BY <1>5
  <2>2. QED
    BY <1>1, <1>3, <2>1, HeldStep
<1>7. ListOK(m2)
  BY <1>1 DEF ListOK
<1>8. CallsOK(m2, busy)
  <2>1. CallOK(m2, busy, p) /\ busy[p].ino \in {NULL, NULL}
    BY DEF CallOK, NotBusy, Loading, Creating
  <2>2. NotTheirs(busy, p, NULL)
    BY <1>1, <1>4, Calls DEF NotTheirs
  <2>3. OnlyInode(files, m2, NULL) /\ OnlyLists(files, m2, NULL) /\ OnlySets(files, m2, NULL)
    BY <1>3 DEF OnlyInode, OnlyLists, OnlySets, SameEntries
  <2>4. QED
    BY <1>1, <1>3, <2>1, <2>2, <2>3, CallsStep
<1>9. ASSUME ap
      PROVE  ExactOK(m2, fds2, busy, lst2)
  <2>1. /\ ExactOK(files, fd_table, busy, lost) /\ files.table[s].inode = NULL
        /\ \A q \in Proc \ {p} : busy[q].op \in {"open"} \cup Creating => busy[q].slot # s
    BY <1>2, <1>9 DEF SlotIsOurs
  <2>2. CountOK(m2, busy)
    <3>1. \A i \in Inode : Has(files, s, i) = 0
      BY <1>4, <2>1 DEF Has
    <3>2. \A i \in Inode :
            /\ ~Making(busy[p], i)
            /\ m2.inode[i].cnt = files.inode[i].cnt + Gain(files, m2, busy, busy, s, p, i)
      BY <1>5, <3>1
    <3>3. CountOK(files, busy)
      BY <2>1 DEF ExactOK
    <3>4. QED
      BY <1>1, <1>3, <3>2, <3>3, CountStep
  <2>3. RefsTo(fd_table, s) = {}
    BY <2>1 DEF ExactOK, EntryOK
  <2>4. \A t \in Slot \ {s} : RefsTo(fds2, t) = RefsTo(fd_table, t) /\ lst2[t] = lost[t]
    BY DEF RefsElsewhere
  <2>5. EntryOK(m2, fds2, lst2, s)
    BY <1>3, <1>4, <2>3 DEF EntryOK
  <2>6. PickOK(m2, fds2, busy, p) /\ busy[p].op # "open"
    BY DEF PickOK, NotBusy, Creating
  <2>7. QED
    BY <1>1, <1>3, <2>1, <2>2, <2>4, <2>5, <2>6, ExactStep
<1>10. QED
  BY <1>6, <1>7, <1>8, <1>9 DEF Sound

LEMMA PipeKeeps ==
  ASSUME FilesInv, NEW p \in Proc, sys_pipe(p)
  PROVE  FilesInv'
<1> DEFINE s == get_free_slot_in_global
           t == fd_table[p]
           one == pcb_fd_install(t, s)
           failed == 2 - Cardinality(FreeFds(t))
           e == [inode |-> PipePage, pos |-> 2, flag |-> "PIPE_FLAG"]
           fds1 == [fd_table EXCEPT ![p] = one]
           fds2 == [fd_table EXCEPT ![p] = pcb_fd_install(one, s)]
<1>1. /\ files \in FilesType /\ busy \in [Proc -> CallType] /\ fd_table \in [Proc -> TableType]
      /\ apart \in BOOLEAN /\ lost \in [Slot -> Nat] /\ DeadOK(fd_table, live, busy)
      /\ Sound(files, fd_table, busy, lost, apart)
  BY DEF FilesInv, Types
<1>2. /\ p \in live /\ busy[p] = NotBusy
      /\ apart' = (apart /\ ~PickedTwice(s)) /\ UNCHANGED <<live, busy, exists, inode_bitmap>>
  BY DEF sys_pipe, CanCall
<1>3. apart' \in BOOLEAN /\ (apart' => apart)
  BY <1>1, <1>2
<1>4. CASE s = -1
  <2>1. files' = [files EXCEPT !.fault = TRUE] /\ UNCHANGED <<fd_table, lost>>
    BY <1>4 DEF sys_pipe
  <2> DEFINE g == files'
  <2>2. g \in FilesType /\ g.table = files.table /\ g.inode = files.inode /\ g.open = files.open
    <3>1. /\ [files EXCEPT !.fault = TRUE].table = files.table
          /\ [files EXCEPT !.fault = TRUE].inode = files.inode
          /\ [files EXCEPT !.fault = TRUE].open = files.open
      BY <1>1, Fields
    <3>2. [files EXCEPT !.fault = TRUE] \in FilesType
      BY <1>1 DEF FilesType
    <3>3. QED
      BY <2>1, <3>1, <3>2
  <2> HIDE DEF g
  <2>3. Sound(g, fd_table, busy, lost, apart')
    BY <1>1, <1>3, <2>2, SoundSame
  <2>4. QED
    BY <1>1, <1>2, <1>3, <2>1, <2>2, <2>3 DEF FilesInv, Types, g
<1>5. CASE s # -1
  <2>1. /\ files' = [files EXCEPT !.table = [files.table EXCEPT ![s] = e]]
        /\ fd_table' = fds2
        /\ lost' = [lost EXCEPT ![s] = IF failed < 0 THEN 0 ELSE failed]
    BY <1>5 DEF sys_pipe
  <2>2. s \in Slot /\ files.table[s].inode = NULL
    BY <1>5, FreeSlotIs
  <2> HIDE DEF s
  <2>3. apart' => apart /\ SlotIsOurs(files, busy, p, s)
    BY <1>2, <1>3, <2>2, OursIfFree
  <2>4. e \in EntryRec
    BY Sizes DEF EntryRec
  <2> DEFINE g == files'
             ap == apart'
             l2 == lost'
  <2>5. /\ g \in FilesType /\ g.inode = files.inode /\ g.open = files.open
        /\ g.table[s] = [inode |-> PipePage, pos |-> 2, flag |-> "PIPE_FLAG"]
        /\ SameEntries(files, g, s)
    <3> DEFINE y == [files.table EXCEPT ![s] = e]
    <3>1. y[s] = e /\ \A x \in Slot \ {s} : y[x] = files.table[x]
      BY <1>1, <2>2, FieldTypes
    <3>2. g = [files EXCEPT !.table = y]
      BY <2>1
    <3>3. g \in FilesType
      BY <1>1, <2>2, <2>4, <3>2, EntryWith
    <3> HIDE DEF y, g
    <3>4. g.table = y /\ g.inode = files.inode /\ g.open = files.open
      BY <1>1, <3>2, Fields
    <3>5. QED
      BY <3>1, <3>3, <3>4 DEF SameEntries
  <2>6. t \in TableType
    BY <1>1
  <2> HIDE DEF t
  <2>7. one \in TableType
    BY <2>2, <2>6, Install
  <2> HIDE DEF one
  <2>8. /\ fds1 \in [Proc -> TableType] /\ fds1[p] = one
        /\ fds2 = [fds1 EXCEPT ![p] = pcb_fd_install(fds1[p], s)]
        /\ \A q \in Proc \ {p} : fds2[q] = fd_table[q]
    BY <1>1, <2>7
  <2>9. Installs(fd_table, fds1, p, s) /\ Installs(fds1, fds2, p, s)
    BY <2>8 DEF Installs, one, t
  <2>10. /\ Installed(fd_table, fds1, p, s) /\ Installed(fds1, fds2, p, s)
         /\ fds2 \in [Proc -> TableType]
    <3> HIDE DEF fds1, fds2
    <3>1. p \in Proc /\ s \in Slot /\ fd_table \in [Proc -> TableType] /\ fds1 \in [Proc -> TableType]
      BY <1>1, <2>2, <2>8
    <3>2. QED
      BY ONLY <2>9, <3>1, InstallsOne
  <2> HIDE DEF fds1, fds2
  <2>11. /\ RefsElsewhere(fd_table, fds1, s) /\ RefsElsewhere(fds1, fds2, s)
    BY <2>2, <2>10, InstalledRefs DEF RefsElsewhere
  <2>12. l2 \in [Slot -> Nat] /\ \A x \in Slot \ {s} : l2[x] = lost[x]
    <3>1. Cardinality(FreeFds(fd_table[p])) \in Nat
      BY <1>1, <2>2, <2>9, InstallCounts
    <3>2. (IF failed < 0 THEN 0 ELSE failed) \in Nat
      <4> DEFINE n == Cardinality(FreeFds(t))
      <4>1. n \in Nat
        BY <3>1 DEF t
      <4> HIDE DEF n
      <4>2. (IF 2 - n < 0 THEN 0 ELSE 2 - n) \in Nat
        BY ONLY <4>1
      <4>3. QED
        BY <4>2 DEF n
    <3> HIDE DEF failed
    <3>3. QED
      BY <1>1, <2>1, <2>2, <3>2
  <2>13. ASSUME RefsTo(fd_table, s) = {}
         PROVE  Cardinality(RefsTo(fds2, s)) + l2[s] = 2
    <3>1. l2[s] = IF failed < 0 THEN 0 ELSE failed
      BY <1>1, <2>1, <2>2
    <3>2. Cardinality(RefsTo(fd_table, s)) = 0
      BY <2>13, FS_EmptySet
    <3>3. /\ Cardinality(RefsTo(fds1, s)) = Cardinality(RefsTo(fd_table, s)) + Room(t)
          /\ Cardinality(FreeFds(fds1[p])) = Cardinality(FreeFds(t)) - Room(t)
          /\ Cardinality(FreeFds(t)) \in Nat
          /\ Room(t) = IF Cardinality(FreeFds(t)) = 0 THEN 0 ELSE 1
      BY <1>1, <2>2, <2>8, <2>9, InstallCounts DEF t
    <3>4. /\ Cardinality(RefsTo(fds2, s)) = Cardinality(RefsTo(fds1, s)) + Room(fds1[p])
          /\ Room(fds1[p]) = IF Cardinality(FreeFds(fds1[p])) = 0 THEN 0 ELSE 1
      BY <2>2, <2>8, <2>9, <2>10, InstallCounts
    <3>5. QED
      BY ONLY <3>1, <3>2, <3>3, <3>4
  <2>14. ap => apart /\ SlotIsOurs(files, busy, p, s)
    BY <2>3
  <2> HIDE DEF g, ap, l2
  <2>15. Sound(g, fds2, busy, l2, ap)
    BY <1>2, <2>2, <2>5, <2>8, <2>10, <2>11, <2>12, <2>13, <2>14, PipeStep
  <2>16. DeadOK(fds2, live, busy)
    BY <1>1, <1>2, <2>8 DEF DeadOK
  <2>17. QED
    BY <1>1, <1>2, <1>3, <2>1, <2>5, <2>10, <2>12, <2>15, <2>16 DEF FilesInv, Types, g, ap, l2
<1>6. QED
  BY <1>4, <1>5

-----------------------------------------------------------------------------
LEMMA FirstFiles ==
  ASSUME Init
  PROVE  FilesInv
<1> DEFINE e == [inode |-> NULL, pos |-> 0, flag |-> "none"]
<1>1. /\ files = [table |-> [s \in Slot |-> e], inode |-> [i \in Inode |-> NoInode],
                  open |-> <<>>, fault |-> FALSE]
      /\ fd_table = [p \in Proc |-> NoFds] /\ live = FirstProc
      /\ busy = [p \in Proc |-> NotBusy] /\ exists = InitFile /\ inode_bitmap = InitFile
      /\ lost = [s \in Slot |-> 0] /\ apart = TRUE
  BY DEF Init
<1>2. /\ e \in EntryRec /\ NoInode \in InodeRec /\ NoInode.cnt = 0
      /\ e.inode = NULL /\ NULL \notin Inode /\ NULL # PipePage
  BY Sizes, Records DEF EntryRec, NULL, PipePage
<1> HIDE DEF e
<1>3. /\ files \in FilesType /\ files.open = <<>>
      /\ \A s \in Slot : files.table[s] = e
      /\ \A i \in Inode : files.inode[i].cnt = 0
  BY <1>1, <1>2 DEF FilesType
<1>4. fd_table \in [Proc -> TableType] /\ busy \in [Proc -> CallType]
  BY <1>1, NoFdsType, NotBusyType
<1>5. \A fd \in Fd : NoFds[fd] = -1
  BY FileAssumption DEF NoFds, Fd
<1>6. \A p \in Proc : busy[p] = NotBusy /\ \A fd \in Fd : fd_table[p][fd] = -1
  BY <1>1, <1>5
<1>7. NotBusy.op = "none" /\ NotBusy.ino = NULL
  BY DEF NotBusy
<1>8. Types /\ DeadOK(fd_table, live, busy)
  BY <1>1, <1>3, <1>4, <1>6, FileAssumption DEF Types, DeadOK
<1>9. ListOK(files)
  BY <1>3 DEF ListOK
<1>10. CallsOK(files, busy)
  BY <1>6, <1>7 DEF CallsOK, CallOK, Loading, Creating
<1>11. \A i \in Inode : files.inode[i].cnt = 0 /\ Uses(files, busy, i) = 0
  <2>1. \A i \in Inode : EntriesOf(files, i) = {} /\ ReleasersOf(busy, i) = {}
    BY <1>2, <1>3, <1>6, <1>7 DEF EntriesOf, ReleasersOf, Releasing
  <2>2. Cardinality({}) = 0
    BY FS_EmptySet
  <2>3. \A i \in Inode : Uses(files, busy, i) = 0 + 0
    BY ONLY <2>1, <2>2 DEF Uses
  <2>4. QED
    BY ONLY <1>3, <2>3
<1>12. HeldOK(files, busy) /\ CountOK(files, busy)
  BY <1>11 DEF HeldOK, CountOK
<1>13. \A s \in Slot : EntryOK(files, fd_table, lost, s)
  <2>1. \A s \in Slot : RefsTo(fd_table, s) = {}
    BY <1>6, Sizes DEF RefsTo
  <2>2. QED
    BY <1>2, <1>3, <2>1 DEF EntryOK
<1>14. \A p \in Proc : PickOK(files, fd_table, busy, p)
  BY <1>6, <1>7 DEF PickOK, Creating
<1>15. QED
  BY <1>8, <1>9, <1>10, <1>12, <1>13, <1>14 DEF FilesInv, Sound, ExactOK

LEMMA FilesKept ==
  ASSUME FilesInv, [Next]_vars
  PROVE  FilesInv'
<1>1. ASSUME UNCHANGED vars
      PROVE  FilesInv'
  <2>1. /\ files' = files /\ fd_table' = fd_table /\ live' = live /\ busy' = busy
        /\ exists' = exists /\ inode_bitmap' = inode_bitmap /\ lost' = lost /\ apart' = apart
    BY <1>1 DEF vars
  <2>2. QED
    BY <2>1 DEF FilesInv, Types
<1>2. ASSUME NEW p \in Proc, Call(p)
      PROVE  FilesInv'
  <2>1. CASE \E f \in File, flag \in Flag : sys_open(p, f, flag)
    BY <2>1, OpenKeeps
  <2>2. CASE file_create(p)
    BY <2>2, MakeKeeps
  <2>3. CASE \E f \in File : sys_unlink(p, f)
    BY <2>3, UnlinkKeeps
  <2>4. CASE \E fd \in Fd : sys_close(p, fd)
    BY <2>4, CloseKeeps
  <2>5. CASE sys_pipe(p)
    BY <2>5, PipeKeeps
  <2>6. CASE \E old \in Std : \E new \in {old} \cup Fd : sys_fd_redirect(p, old, new)
    BY <2>6, RedirectKeeps
  <2>7. CASE \E c \in Proc : sys_fork(p, c)
    BY <2>7, ProcessForks
  <2>8. CASE sys_exit(p)
    BY <2>8, ProcessExits
  <2>9. QED
    BY <1>2, <2>1, <2>2, <2>3, <2>4, <2>5, <2>6, <2>7, <2>8 DEF Call
<1>3. ASSUME NEW p \in Proc, Resume(p)
      PROVE  FilesInv'
  <2>1. CASE InodeRead(p)
    BY <2>1, ReadKeeps
  <2>2. CASE EntryWritten(p)
    BY <2>2, WrittenKeeps
  <2>3. CASE CreateRollback(p)
    BY <2>3, RollbackKeeps
  <2>4. CASE CreateDone(p)
    BY <2>4, DoneKeeps
  <2>5. CASE EntryDeleted(p)
    BY <2>5, DeletedKeeps
  <2>6. CASE UnlinkedInodeRead(p)
    BY <2>6, UnlinkedKeeps
  <2>7. CASE NumberReleased(p)
    BY <2>7, NumberKeeps
  <2>8. CASE InodeReleased(p)
    BY <2>8, ReleasedKeeps
  <2>9. QED
    BY <1>3, <2>1, <2>2, <2>3, <2>4, <2>5, <2>6, <2>7, <2>8 DEF Resume
<1>4. QED
  BY <1>1, <1>2, <1>3 DEF Next

(* The inductive invariant of the open files: the list of open inodes, the *)
(* calls asleep in the disk, the counts of inodes and, while nothing was   *)
(* picked twice or shared through fork, of pipes agree (inode.c, file.c,   *)
(* fork.c's update_inode_open_cnts, wait_exit.c's release_prog_resource).  *)
THEOREM FilesInvariant == Spec => []FilesInv
<1>1. Init => FilesInv
  BY FirstFiles
<1>2. FilesInv /\ [Next]_vars => FilesInv'
  BY FilesKept
<1>3. QED
  BY <1>1, <1>2, PTL DEF Spec

LEMMA FilesTyped ==
  ASSUME FilesInv
  PROVE  TypeOK
<1>1. /\ files \in FilesType /\ fd_table \in [Proc -> TableType]
      /\ live \subseteq Proc /\ exists \subseteq File /\ inode_bitmap \subseteq File
  BY DEF FilesInv, Types
<1>2. DOMAIN NoFds = 0 .. MAX_FILES_OPEN_PER_PROC - 1
  BY DEF NoFds
<1>3. TableType \subseteq [0 .. MAX_FILES_OPEN_PER_PROC - 1 -> -1 .. MAX_FILE_OPEN - 1]
  BY DEF TableType
<1>4. fd_table \in [Proc -> [DOMAIN NoFds -> -1 .. MAX_FILE_OPEN - 1]]
  BY <1>1, <1>2, <1>3
<1>5. QED
  BY <1>1, <1>4, FieldTypes DEF TypeOK, InodeRec, EntryRec

(* No entry points to an inode that has been freed: an inode is counted at *)
(* least once for every entry it is in, whatever is shared through fork,   *)
(* opened twice or overtaken while it reads the disk (inode_close frees    *)
(* the inode when i_open_cnts gets to 0).                                  *)
THEOREM InodesHeld == Spec => []InodeHeld
<1>1. ASSUME FilesInv
      PROVE  InodeHeld
  <2>1. HeldOK(files, busy) /\ files \in FilesType
    BY <1>1 DEF FilesInv, Sound, Types
  <2>2. ASSUME NEW i \in Inode, SlotsOf(i) # {}, ~BeingCreated(i)
        PROVE  files.inode[i] # NoInode /\ files.inode[i].cnt >= Cardinality(SlotsOf(i))
    <3>1. SlotsOf(i) = EntriesOf(files, i)
      BY DEF SlotsOf, EntriesOf
    <3>2. files.inode[i].cnt >= Uses(files, busy, i)
      BY <2>1, <2>2 DEF HeldOK, Made, BeingCreated, Creating
    <3>3. IsFiniteSet(EntriesOf(files, i)) /\ IsFiniteSet(ReleasersOf(busy, i))
      BY Finite, FS_Subset DEF EntriesOf, ReleasersOf
    <3>4. /\ Cardinality(EntriesOf(files, i)) \in Nat /\ Cardinality(ReleasersOf(busy, i)) \in Nat
          /\ Cardinality(EntriesOf(files, i)) # 0
      BY <2>2, <3>1, <3>3, FS_CardinalityType, FS_EmptySet
    <3>5. files.inode[i].cnt \in 0 .. CntMod - 1
      BY <2>1, FieldTypes, Records
    <3>6. files.inode[i].cnt >= Cardinality(EntriesOf(files, i)) /\ files.inode[i].cnt # 0
      BY <3>2, <3>4, <3>5, Sizes DEF Uses
    <3>7. QED
      BY <3>1, <3>6, Records
  <2>3. QED
    BY <1>1, <2>2, FilesTyped DEF InodeHeld
<1>2. QED
  BY <1>1, FilesInvariant, PTL

(* Unless an entry was picked by two calls at once or a file shared        *)
(* through fork, i_open_cnts is exactly the number of entries and of the   *)
(* unlinks that have the inode open, and fd_pos of a pipe the number of    *)
(* descriptors for it: an inode leaves memory, and a pipe's page is freed, *)
(* with the last of them.                                                  *)
THEOREM CountsAreExact == Spec => []CountsExact
<1>1. ASSUME FilesInv, apart
      PROVE  /\ \A i \in Inode : ~BeingCreated(i) => files.inode[i].cnt = Users(i)
             /\ \A s \in Slot :
                  /\ files.table[s].inode = PipePage =>
                       files.table[s].pos = Cardinality(Refs(s)) + lost[s]
                  /\ files.table[s].inode = NULL => Refs(s) = {}
  <2>1. ExactOK(files, fd_table, busy, lost) /\ DeadOK(fd_table, live, busy) /\ live \subseteq Proc
    BY <1>1 DEF FilesInv, Sound, Types
  <2>2. ASSUME NEW i \in Inode, ~BeingCreated(i)
        PROVE  files.inode[i].cnt = Users(i)
    <3>1. Users(i) = Uses(files, busy, i)
      BY DEF Users, Uses, SlotsOf, EntriesOf, ReleasersOf, Releasing
    <3>2. QED
      BY <2>1, <2>2, <3>1 DEF ExactOK, CountOK, Made, BeingCreated, Creating
  <2>3. \A s \in Slot : Refs(s) = RefsTo(fd_table, s)
    BY <2>1, Sizes DEF Refs, RefsTo, DeadOK
  <2>4. QED
    BY <2>1, <2>2, <2>3 DEF ExactOK, EntryOK
<1>2. FilesInv => CountsExact
  BY <1>1 DEF CountsExact
<1>3. QED
  BY <1>2, FilesInvariant, PTL
=============================================================================
