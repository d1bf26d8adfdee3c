------------------------------- MODULE Memory -------------------------------
(***************************************************************************)
(* The heap of user processes (memory.c) and what fork and exit do to it:  *)
(* virtual pages from a bitmap of the process, frames from the user pool,  *)
(* small blocks cut from one-page arenas and kept on free lists.           *)
(*                                                                         *)
(* A free list is anchored in the PCB, in kernel memory that every process *)
(* sees, but linked through the free blocks themselves, which are in user  *)
(* pages: a link is read and written through the page table of the process *)
(* that runs.  The links are therefore kept per frame, and an element of a *)
(* list is an address: <<"head", p, c>>, <<"tail", p, c>> (of the list of  *)
(* class c in the PCB p), <<"block", v, i>> or Null.                       *)
(*                                                                         *)
(* System calls run with interrupts off and none of these sleeps, so each  *)
(* is one step.  The kernel's own heap is the same code on one address     *)
(* space that never forks.  Pages of the kernel pool (PCBs, page tables,   *)
(* the processes' bitmaps, fork's buffer) are left out.                    *)
(***************************************************************************)
EXTENDS Integers, FiniteSets, SequencesExt

CONSTANTS
  Proc,               \* PCB pages
  FirstProc,          \* the processes at the start
  VPages,             \* bound on the virtual pages of a process
  Frames,             \* frames of user_pool
  Class,              \* the block sizes, indices of u_block_desc
  blocks_per_arena,   \* of each class
  Large,              \* page counts of the large blocks programs ask for
  ForkWithArenas      \* TRUE if programs fork with small blocks in use

ASSUME MemoryAssumption ==
  /\ FirstProc \subseteq Proc
  /\ VPages \in Nat /\ Frames \in Nat
  /\ blocks_per_arena \in [Class -> Nat \ {0}]
  /\ Large \subseteq Nat \ {0} /\ ForkWithArenas \in BOOLEAN

VPage == 0 .. VPages - 1
Frame == 1 .. Frames
NoFrame == 0
Null == <<"null">>
NoDesc == <<>>            \* a null a->desc
Idx(c) == 1 .. blocks_per_arena[c]
MaxIdx == UNION {Idx(c) : c \in Class}

VARIABLES
  mem,     \* see MemoryInit
  status,  \* of each PCB: "free", "live" or "zombie"
  owned    \* the blocks each program holds, <<v, i>>, or <<v, 0>> if large

memory_vars == <<mem, status, owned>>

(* struct arena and the links of the blocks behind it.                     *)
ZeroPage == [desc |-> NoDesc, cnt |-> 0, large |-> FALSE,
             next |-> [i \in MaxIdx |-> Null], prev |-> [i \in MaxIdx |-> Null]]

(* The next of a list's head and the prev of its tail.                     *)
block_desc_init(p) ==
  [c \in Class |-> [next |-> <<"tail", p, c>>, prev |-> <<"head", p, c>>]]

MemoryInit ==
  /\ mem = [pool |-> {},                               \* user_pool.pool_bitmap
            bits |-> [p \in Proc |-> {}],              \* vaddr_bitmap
            pte |-> [p \in Proc |-> [v \in VPage |-> NoFrame]],
            page |-> [f \in Frame |-> ZeroPage],
            descs |-> [p \in Proc |-> block_desc_init(p)],   \* u_block_desc
            bad |-> "no"]             \* "assert", "fault" or "nomem" after a panic
  /\ status = [p \in Proc |-> IF p \in FirstProc THEN "live" ELSE "free"]
  /\ owned = [p \in Proc |-> {}]

-----------------------------------------------------------------------------
(* Pages.                                                                  *)
Least(S) == CHOOSE x \in S : \A y \in S : x <= y

Fits(m, p, n) == {v \in VPage : v + n <= VPages /\ (v .. v + n - 1) \cap m.bits[p] = {}}

vaddr_get(m, p, n) == Least(Fits(m, p, n))

Marked(m, p, v, n) == [m EXCEPT !.bits[p] = m.bits[p] \cup (v .. v + n - 1)]

(* palloc and page_table_add; an exhausted pool fails the ASSERT in        *)
(* bitmap_scan (module Bitmap).  The caller clears the page.               *)
palloc(m, p, v) ==
  LET f == Least(Frame \ m.pool) IN
  IF m.pool = Frame THEN [m EXCEPT !.bad = "nomem"]
  ELSE IF m.pte[p][v] # NoFrame THEN [m EXCEPT !.bad = "assert"]
  ELSE [m EXCEPT !.pool = m.pool \cup {f}, !.pte[p][v] = f, !.page[f] = ZeroPage]

(* The memory after k rounds of malloc_page's loop.                        *)
Backed(m, p, v, n) ==
  LET after[k \in 0 .. n] ==
        IF k = 0 THEN Marked(m, p, v, n)
        ELSE IF after[k - 1].bad # "no" THEN after[k - 1]
        ELSE palloc(after[k - 1], p, v + k - 1)
  IN  after

malloc_page(m, p, n) == Backed(m, p, vaddr_get(m, p, n), n)[n]

(* The contents of a free frame do not matter: it is cleared when taken.   *)
Forget(page, frames) == [f \in Frame |-> IF f \in frames THEN ZeroPage ELSE page[f]]

(* mfree_page with pfree, page_table_pte_remove and vaddr_remove.          *)
mfree_page(m, p, v, n) ==
  LET run == v .. v + n - 1 IN
  IF \E w \in run : w \notin VPage \/ m.pte[p][w] = NoFrame
    THEN [m EXCEPT !.bad = "fault"]
    ELSE [m EXCEPT !.pool = m.pool \ {m.pte[p][w] : w \in run},
                   !.page = Forget(m.page, {m.pte[p][w] : w \in run}),
                   !.pte[p] = [w \in VPage |-> IF w \in run THEN NoFrame ELSE m.pte[p][w]],
                   !.bits[p] = m.bits[p] \ run]

-----------------------------------------------------------------------------
(* Lists, through the page table of p.                                     *)
Accessible(m, p, a) ==
  CASE a[1] = "block" -> m.pte[p][a[2]] # NoFrame
    [] a[1] \in {"head", "tail"} -> status[a[2]] # "free"
    [] OTHER -> FALSE

Link(m, p, a, field) ==
  IF ~Accessible(m, p, a) THEN Null
  ELSE IF a[1] = "block" THEN m.page[m.pte[p][a[2]]][field][a[3]]
  ELSE m.descs[a[2]][a[3]][field]

SetLink(m, p, a, field, x) ==
  IF m.bad # "no" THEN m
  ELSE IF ~Accessible(m, p, a) THEN [m EXCEPT !.bad = "fault"]
  ELSE IF a[1] = "block" THEN [m EXCEPT !.page[m.pte[p][a[2]]][field][a[3]] = x]
  ELSE [m EXCEPT !.descs[a[2]][a[3]][field] = x]

HeadOf(d) == <<"head", d[1], d[2]>>
TailOf(d) == <<"tail", d[1], d[2]>>

ListAppend(m, p, d, b) ==
  LET last == Link(m, p, TailOf(d), "prev")
      m1 == SetLink(m, p, last, "next", b)
      m2 == SetLink(m1, p, b, "prev", last)
      m3 == SetLink(m2, p, b, "next", TailOf(d))
  IN  SetLink(m3, p, TailOf(d), "prev", b)

ListRemove(m, p, b) ==
  LET before == Link(m, p, b, "prev")
      after == Link(m, p, b, "next")
  IN  SetLink(SetLink(m, p, before, "next", after), p, after, "prev", before)

ListEmpty(m, p, d) == Link(m, p, HeadOf(d), "next") = TailOf(d)

(* Where elem_find's walk from the head ends: b, the tail, or astray.      *)
ListFind(m, p, d, b) ==
  LET Step(a, k) == IF a = b \/ a[1] # "block" THEN a ELSE Link(m, p, a, "next")
      steps == [k \in 1 .. VPages * Cardinality(MaxIdx) |-> k]
      last == FoldLeft(Step, Link(m, p, HeadOf(d), "next"), steps)
  IN  CASE last = b -> "found" [] last = TailOf(d) -> "absent" [] OTHER -> "astray"

(* ASSERT of what elem_find answers.                                       *)
AssertFound(m, p, d, b, expected) ==
  IF m.bad # "no" \/ ListFind(m, p, d, b) = expected THEN m
  ELSE [m EXCEPT !.bad = IF ListFind(m, p, d, b) = "astray" THEN "fault" ELSE "assert"]

-----------------------------------------------------------------------------
(* sys_malloc and sys_free.                                                *)
arena2block(v, i) == <<"block", v, i>>

(* The memory after the blocks up to i of the arena at v are on the list.  *)
Added(m, p, c, v) ==
  LET after[i \in 0 .. blocks_per_arena[c]] ==
        IF i = 0 THEN m
        ELSE ListAppend(AssertFound(after[i - 1], p, <<p, c>>, arena2block(v, i), "absent"),
                        p, <<p, c>>, arena2block(v, i))
  IN  after

NewArena(p, c) ==
  LET v == vaddr_get(mem, p, 1)
      got == malloc_page(mem, p, 1)
      made == [got EXCEPT !.page[got.pte[p][v]].desc = <<p, c>>,
                          !.page[got.pte[p][v]].cnt = blocks_per_arena[c]]
  IN  IF got.bad # "no" THEN got ELSE Added(made, p, c, v)[blocks_per_arena[c]]

(* Faulty variant: the arena's count of free blocks is not lowered.        *)
TakeUncounted(m, p, c) ==
  LET b == Link(m, p, HeadOf(<<p, c>>), "next")
      popped == ListRemove(m, p, b)
  IN  IF popped.bad # "no" \/ b[1] # "block" THEN [popped EXCEPT !.bad = "fault"]
      ELSE LET f == m.pte[p][b[2]]
           IN  [popped EXCEPT !.page[f].next[b[3]] = Null, !.page[f].prev[b[3]] = Null]

(* list_pop, clearing the block and counting it.                           *)
TakeBlock(m, p, c) ==
  LET b == Link(m, p, HeadOf(<<p, c>>), "next")
      popped == ListRemove(m, p, b)
  IN  IF popped.bad # "no" \/ b[1] # "block" THEN [popped EXCEPT !.bad = "fault"]
      ELSE LET f == m.pte[p][b[2]]
           IN  [popped EXCEPT !.page[f].next[b[3]] = Null, !.page[f].prev[b[3]] = Null,
                              !.page[f].cnt = popped.page[f].cnt - 1]

CanCall(p) == mem.bad = "no" /\ status[p] = "live"

sys_malloc_small(p, c) ==
  /\ CanCall(p)
  /\ ListEmpty(mem, p, <<p, c>>) => Fits(mem, p, 1) # {}      \* bound
  /\ LET ready == IF ListEmpty(mem, p, <<p, c>>) THEN NewArena(p, c) ELSE mem
         b == Link(ready, p, HeadOf(<<p, c>>), "next")
         done == IF ready.bad = "no" THEN TakeBlock(ready, p, c) ELSE ready
     IN  /\ mem' = done
         /\ owned' = [owned EXCEPT ![p] = IF done.bad = "no" THEN @ \cup {<<b[2], b[3]>>} ELSE @]
  /\ UNCHANGED status

(* A block of more than 1024 bytes: n pages with one header.               *)
sys_malloc_large(p, n) ==
  /\ CanCall(p) /\ Fits(mem, p, n) # {}                        \* bound
  /\ LET v == vaddr_get(mem, p, n)
         got == malloc_page(mem, p, n)
         f == got.pte[p][v]
     IN  IF got.bad # "no"
           THEN mem' = got /\ UNCHANGED owned
           ELSE /\ mem' = [got EXCEPT !.page[f].cnt = n, !.page[f].large = TRUE]
                /\ owned' = [owned EXCEPT ![p] = @ \cup {<<v, 0>>}]
  /\ UNCHANGED status

(* Faulty variant: the blocks of an empty arena stay on the free list.     *)
ArenaKeptListed(m, p, v) == mfree_page(m, p, v, 1)

DropBlock(m, p, d, b) ==
  LET found == AssertFound(m, p, d, b, "found")
  IN  IF found.bad # "no" THEN found ELSE ListRemove(found, p, b)

(* The memory after the n blocks up to i of the arena at v are off d's     *)
(* list.                                                                   *)
Dropped(m, p, d, v, n) ==
  LET after[i \in 0 .. n] ==
        IF i = 0 THEN m ELSE DropBlock(after[i - 1], p, d, arena2block(v, i))
  IN  after

(* All blocks of the arena are free: unlist them and free the page.        *)
FreeArena(m, p, v) ==
  LET d == m.page[m.pte[p][v]].desc
      unlisted == Dropped(m, p, d, v, blocks_per_arena[d[2]])[blocks_per_arena[d[2]]]
  IN  IF unlisted.bad # "no" THEN unlisted ELSE mfree_page(unlisted, p, v, 1)

FreeBlock(m, p, v, i) ==
  LET f == m.pte[p][v]
      d == m.page[f].desc
      listed == ListAppend(m, p, d, arena2block(v, i))
      counted == [listed EXCEPT !.page[f].cnt = listed.page[f].cnt + 1]
  IN  IF listed.bad # "no" THEN listed
      ELSE IF counted.page[f].cnt = blocks_per_arena[d[2]] THEN FreeArena(counted, p, v)
      ELSE counted

sys_free(p, ptr) ==
  /\ CanCall(p) /\ ptr \in owned[p]
  /\ LET a == mem.page[mem.pte[p][ptr[1]]] IN
       mem' = IF ptr[1] \notin VPage \/ mem.pte[p][ptr[1]] = NoFrame
                THEN [mem EXCEPT !.bad = "fault"]
              ELSE IF a.desc = NoDesc /\ a.large THEN mfree_page(mem, p, ptr[1], a.cnt)
              ELSE IF a.desc = NoDesc THEN [mem EXCEPT !.bad = "fault"]
              ELSE FreeBlock(mem, p, ptr[1], ptr[2])
  /\ owned' = [owned EXCEPT ![p] = @ \ {ptr}]
  /\ UNCHANGED status

-----------------------------------------------------------------------------
(* fork, exit and the end of the PCB.                                      *)

(* copy_body_stack3: a frame for every page in the parent's bitmap, with   *)
(* the page's contents.                                                    *)
CopyPage(m, p, c, v) ==
  LET got == palloc(m, c, v) IN
  IF m.bad # "no" THEN m
  ELSE IF got.bad # "no" THEN got
  ELSE [got EXCEPT !.page[got.pte[c][v]] = got.page[got.pte[p][v]]]

(* The memory when the child has its copies of the first n pages.          *)
Copied(m, p, c) ==
  LET after[n \in 0 .. VPages] ==
        IF n = 0 THEN m
        ELSE IF n - 1 \in mem.bits[p] THEN CopyPage(after[n - 1], p, c, n - 1)
        ELSE after[n - 1]
  IN  after

(* copy_pcb_vaddrbitmap_stack0 gives the child fresh descriptors.  A fork  *)
(* that fails for want of a kernel page has taken no frame yet.            *)
sys_fork(p, c) ==
  /\ CanCall(p) /\ status[c] = "free"
  /\ ForkWithArenas \/ \A v \in mem.bits[p] : mem.page[mem.pte[p][v]].desc = NoDesc   \* bound
  /\ LET pcb == [mem EXCEPT !.bits[c] = mem.bits[p], !.descs[c] = block_desc_init(c),
                            !.pte[c] = [v \in VPage |-> NoFrame]]
     IN  mem' = Copied(pcb, p, c)[VPages]
  /\ status' = [status EXCEPT ![c] = "live"]
  /\ owned' = [owned EXCEPT ![c] = owned[p]]

(* Faulty variant: pages in the bitmap are freed, but not their frames.    *)
ExitKeepsFrames(p) ==
  /\ CanCall(p)
  /\ mem' = [mem EXCEPT !.pte[p] = [v \in VPage |-> NoFrame], !.bits[p] = {}]
  /\ status' = [status EXCEPT ![p] = "zombie"]
  /\ owned' = [owned EXCEPT ![p] = {}]

(* release_prog_resource: the frames of every present pte.  (Of the kernel *)
(* pages of the bitmap it frees one less than fork took.)                  *)
sys_exit(p) ==
  /\ CanCall(p)
  /\ mem' = [mem EXCEPT !.pool = mem.pool \ {mem.pte[p][v] : v \in VPage},
                        !.page = Forget(mem.page, {mem.pte[p][v] : v \in VPage}),
                        !.pte[p] = [v \in VPage |-> NoFrame],
                        !.bits[p] = {}]
  /\ status' = [status EXCEPT ![p] = "zombie"]
  /\ owned' = [owned EXCEPT ![p] = {}]

(* The parent's wait frees the PCB page.                                   *)
Reap(p) ==
  /\ mem.bad = "no" /\ status[p] = "zombie"
  /\ status' = [status EXCEPT ![p] = "free"]
  /\ UNCHANGED <<mem, owned>>

MemoryNext ==
  \E p \in Proc :
    \/ \E c \in Class : sys_malloc_small(p, c)
    \/ \E n \in Large : sys_malloc_large(p, n)
    \/ \E ptr \in owned[p] : sys_free(p, ptr)
    \/ \E c \in Proc : sys_fork(p, c)
    \/ sys_exit(p)
    \/ Reap(p)

MemorySpec == MemoryInit /\ [][MemoryNext]_memory_vars

-----------------------------------------------------------------------------
Addr == {Null} \cup ({"block"} \X VPage \X MaxIdx) \cup ({"head", "tail"} \X Proc \X Class)

MemoryTypeOK ==
  /\ mem.pool \subseteq Frame
  /\ mem.bits \in [Proc -> SUBSET VPage]
  /\ mem.pte \in [Proc -> [VPage -> Frame \cup {NoFrame}]]
  /\ \A f \in Frame :
       LET a == mem.page[f] IN
       /\ a.desc = NoDesc \/ a.desc \in Proc \X Class
       /\ a.cnt \in IF a.large THEN Large
                    ELSE IF a.desc = NoDesc THEN {0} ELSE 0 .. blocks_per_arena[a.desc[2]]
       /\ \A i \in MaxIdx : a.next[i] \in Addr /\ a.prev[i] \in Addr
  /\ \A p \in Proc, c \in Class :
       mem.descs[p][c].next \in Addr /\ mem.descs[p][c].prev \in Addr
  /\ mem.bad \in {"no", "assert", "fault", "nomem"}
  /\ status \in [Proc -> {"free", "live", "zombie"}]

Live == {p \in Proc : status[p] = "live"}

(* The frames in use are exactly those that some living process maps, no   *)
(* frame is mapped twice, and a process maps exactly the pages of its      *)
(* bitmap: nothing leaks and nothing is shared through malloc, free, fork  *)
(* and exit.                                                               *)
FramesExact ==
  mem.bad = "no" =>
    /\ mem.pool = {mem.pte[p][v] : p \in Live, v \in VPage} \ {NoFrame}
    /\ \A p, q \in Live, v, w \in VPage :
         mem.pte[p][v] = mem.pte[q][w] /\ mem.pte[p][v] # NoFrame => p = q /\ v = w
    /\ \A p \in Live : {v \in VPage : mem.pte[p][v] # NoFrame} = mem.bits[p]

(* The blocks on the list of class c, in p's address space, from the head. *)
FreeList(p, c) ==
  LET Step(s, k) ==
        LET a == IF s = <<>> THEN HeadOf(<<p, c>>) ELSE s[Len(s)]
            b == Link(mem, p, a, "next")
        IN  IF b[1] = "block" THEN Append(s, b) ELSE s
  IN  FoldLeft(Step, <<>>, [k \in 1 .. VPages * Cardinality(MaxIdx) |-> k])

ArenasOf(p, c) == {v \in mem.bits[p] : mem.page[mem.pte[p][v]].desc = <<p, c>>}

(* A block of a process's arenas is either the program's or on the free    *)
(* list, once; an arena's cnt is the number of its free blocks, and one    *)
(* with all its blocks free has been given back.                           *)
HeapExact ==
  /\ MemoryTypeOK
  /\ mem.bad = "no" =>
       \A p \in Live, c \in Class :
         LET list == FreeList(p, c)
             free == {<<b[2], b[3]>> : b \in ToSet(list)}
         IN  /\ IsInjective(list)
             /\ free \cap owned[p] = {}
             /\ free \cup {o \in owned[p] : o[1] \in ArenasOf(p, c)} = ArenasOf(p, c) \X Idx(c)
             /\ \A v \in ArenasOf(p, c) :
                  LET cnt == mem.page[mem.pte[p][v]].cnt IN
                  /\ cnt = Cardinality({o \in free : o[1] = v})
                  /\ cnt < blocks_per_arena[c]

(* The ASSERTs of sys_malloc, sys_free and page_table_add hold, and no     *)
(* list is followed astray.                                                *)
AssertsHold == mem.bad \notin {"assert", "fault"}
=============================================================================
