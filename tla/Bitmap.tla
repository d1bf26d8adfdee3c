------------------------------- MODULE Bitmap -------------------------------
(***************************************************************************)
(* The bitmaps of bitmap.c and the allocators on them: vaddr_get and       *)
(* vaddr_remove hand out and take back runs of bits (virtual pages),       *)
(* palloc and pfree, allocate_pid and release_pid single bits.  A bitmap   *)
(* is Bytes bytes of ByteBits bits; bit number Bytes * ByteBits, the first *)
(* one of whatever follows in memory, is there too because bitmap_scan     *)
(* reads it.                                                               *)
(***************************************************************************)
EXTENDS Integers, FiniteSetsExt

CONSTANTS
  Bytes,      \* btmp_bytes_len
  ByteBits,   \* 8
  MaxRun,     \* bound on cnt
  Beyond      \* the values the bit after the bitmap may have: {TRUE} if taken

ASSUME BitmapAssumption ==
  /\ Bytes \in Nat \ {0} /\ ByteBits \in Nat \ {0} /\ MaxRun \in Nat \ {0}
  /\ Beyond \subseteq BOOLEAN /\ Beyond # {}

Size == Bytes * ByteBits

VARIABLES
  bits,      \* the bits, TRUE when taken, with the one beyond
  runs,      \* the runs handed out, [start, cnt]
  panic      \* ASSERT(idx_byte < btmp_bytes_len) has fired

bitmap_vars == <<bits, runs, panic>>

BitmapInit ==
  /\ \E b \in Beyond : bits = [i \in 0 .. Size |-> IF i = Size THEN b ELSE FALSE]
  /\ runs = {}
  /\ panic = FALSE

-----------------------------------------------------------------------------
FreeBytes == {b \in 0 .. Bytes - 1 :
                \E i \in 0 .. ByteBits - 1 : ~bits[b * ByteBits + i]}

(* The first free bit of the first byte that is not 0xff.                  *)
first_free ==
  LET b == Min(FreeBytes)
  IN  b * ByteBits + Min({i \in 0 .. ByteBits - 1 : ~bits[b * ByteBits + i]})

(* Faulty variant: a taken bit does not start the count again.             *)
CountedWithoutReset ==
  LET first == first_free
      count[n \in first .. Size] ==
        IF n = first THEN 1 ELSE IF bits[n] THEN count[n - 1] ELSE count[n - 1] + 1
  IN  count

(* The loop's count when next_bit is n: the free bits that end there.      *)
counted ==
  LET first == first_free
      count[n \in first .. Size] ==
        IF n = first THEN 1 ELSE IF bits[n] THEN 0 ELSE count[n - 1] + 1
  IN  count

(* The loop tests bit_left = Size - first_free bits after first_free.      *)
Hits(cnt) ==
  LET count == counted IN {n \in first_free + 1 .. Size : count[n] = cnt}

(* The index bitmap_scan returns; Fails stands for its failing ASSERT.     *)
Fails == -2

bitmap_scan(cnt) ==
  IF FreeBytes = {} THEN Fails
  ELSE IF cnt = 1 THEN first_free
  ELSE IF Hits(cnt) = {} THEN -1
  ELSE Min(Hits(cnt)) - cnt + 1

bitmap_set(start, cnt, value) ==
  bits' = [i \in 0 .. Size |-> IF i \in start .. start + cnt - 1 THEN value ELSE bits[i]]

(* vaddr_get, and with cnt = 1 palloc and allocate_pid.                    *)
Allocate(cnt) ==
  /\ ~panic
  /\ LET i == bitmap_scan(cnt) IN
       \/ /\ i >= 0
          /\ bitmap_set(i, cnt, TRUE)
          /\ runs' = runs \cup {[start |-> i, cnt |-> cnt]}
          /\ UNCHANGED panic
       \/ /\ i < 0
          /\ panic' = (i = Fails)
          /\ UNCHANGED <<bits, runs>>

(* vaddr_remove, pfree, release_pid: of a run that was handed out.         *)
Free(r) ==
  /\ ~panic
  /\ bitmap_set(r.start, r.cnt, FALSE)
  /\ runs' = runs \ {r}
  /\ UNCHANGED panic

BitmapNext == (\E cnt \in 1 .. MaxRun : Allocate(cnt)) \/ (\E r \in runs : Free(r))

BitmapSpec == BitmapInit /\ [][BitmapNext]_bitmap_vars

-----------------------------------------------------------------------------
BitmapTypeOK ==
  /\ bits \in [0 .. Size -> BOOLEAN]
  /\ runs \subseteq [start : 0 .. Size - 1, cnt : 1 .. MaxRun]
  /\ panic \in BOOLEAN

Span(r) == r.start .. r.start + r.cnt - 1

(* The reference: where a run of cnt free bits inside the bitmap starts.   *)
Places(cnt) == {i \in 0 .. Size - cnt : \A j \in i .. i + cnt - 1 : ~bits[j]}

(* Nothing is handed out twice and what is handed out is marked.  If the   *)
(* bitmap has room, bitmap_scan finds the lowest place; if it has none and *)
(* the bit beyond is taken, it fails.                                      *)
FirstFit ==
  /\ BitmapTypeOK
  /\ \A r, q \in runs : r # q => Span(r) \cap Span(q) = {}
  /\ {i \in 0 .. Size - 1 : bits[i]} = (UNION {Span(r) : r \in runs}) \ {Size}
  /\ \A cnt \in 1 .. MaxRun :
       /\ Places(cnt) # {} => bitmap_scan(cnt) = Min(Places(cnt))
       /\ Places(cnt) = {} /\ bits[Size] => bitmap_scan(cnt) < 0
=============================================================================
