----------------------------- MODULE FileBlocks -----------------------------
(***************************************************************************)
(* The contents of regular files: file_write, file_read and sys_lseek on   *)
(* the block map of an inode (file.c, fs.c), the allocation of blocks and  *)
(* inode numbers, and what create, open, close and unlink do to the inode, *)
(* the bitmaps and the directory entry in memory and on the disk           *)
(* (file.c, inode.c).  Directories themselves are module Directory's; here *)
(* the root directory is one sector of entries.                            *)
(*                                                                         *)
(* System calls run with interrupts off and give up the CPU only inside    *)
(* ide_read and ide_write.  So a call is a sequence of disk operations,    *)
(* and a step is the effect of the one the process waits for, with the     *)
(* code up to the next one; steps of several processes interleave.         *)
(*                                                                         *)
(* A behaviour ends with its first mishap: an ASSERT that fails, or one of *)
(* the races of the code that lose or mix up data (see Mishap).            *)
(***************************************************************************)
EXTENDS Integers, Sequences, FiniteSets, FiniteSetsExt, Functions

CONSTANTS
  Task,
  Name,           \* file names, positive numbers
  Ino,            \* inode numbers of files; 0 is the root directory's
  BlockSize,      \* 512
  Direct,         \* 12
  Indirect,       \* 128, the block numbers that fit into a table
  NBlocks,        \* data blocks; bit 0 of the bitmap is the root directory's
  SecBits,        \* 4096, the bits of a bitmap that one sector holds
  InodeSize,      \* 76, the bytes of an inode on the disk
  SectorSize,     \* 512
  InoMod,         \* 256: inode_sync keeps the number in a uint8_t
  PosMod,         \* 2^32: fd_pos is a uint32_t
  WriteCounts,    \* bound on the counts programs write
  ReadCounts,     \* ... and read
  Seeks,          \* bound on the positions they seek
  MaxCreates      \* bound on the files that are created

MaxBlocks == Direct + Indirect
MaxBytes == MaxBlocks * BlockSize
Block == 1 .. NBlocks
Cell == 0 .. Max({BlockSize, Indirect}) - 1

ASSUME BlocksAssumption ==
  /\ IsFiniteSet(Task) /\ Name \subseteq Nat \ {0} /\ Ino \subseteq Nat \ {0}
  /\ {BlockSize, Direct, Indirect, NBlocks, SecBits, InodeSize, SectorSize, InoMod}
       \subseteq Nat \ {0}
  /\ UNION {WriteCounts, ReadCounts, Seeks} \subseteq Nat /\ MaxCreates \in Nat
  /\ PosMod > MaxBytes

VARIABLES
  ram,      \* block and inode bitmap and the inodes in memory
  disk,     \* the same on the disk, the blocks, and the directory's entries
  file,     \* the file a process has open, with fd_pos
  call,     \* the disk operation a process waits for, with its locals
  mishap,   \* why the behaviour has ended
  made      \* how many files have been created

blocks_vars == <<ram, disk, file, call, mishap, made>>

(* Why a behaviour ends: a bitmap is full or another ASSERT fails; a       *)
(* read-modify-write of a sector of inodes or entries overwrote another    *)
(* process's (sector), two sectors were read into a buffer of one and      *)
(* spoiled what lies behind it (buffer), or inode_sync cut the number and  *)
(* stored the inode in another's place (cut); a number was taken whose old *)
(* inode is still to be cleared (number); the bit of a new table lies in   *)
(* another bitmap sector than the one that is synced (table); an inode was *)
(* loaded twice (copies) or loaded while its file was deleted (unlinked);  *)
(* a name was created twice (twice).                                       *)
Mishap == {"none", "full", "assert", "sector", "buffer", "cut", "number", "table",
           "copies", "unlinked", "twice"}

(* inode_init *)
NewInode == [cnt |-> 0, size |-> 0, sect |-> [k \in 0 .. Direct |-> 0]]

NoFile == [ino |-> 0]
NoCall == [op |-> "none", what |-> "none"]
NoSector == [k \in Cell |-> 0]
NoBlocks == [k \in 0 .. MaxBlocks - 1 |-> 0]

(* The k-th byte of a file, as the program that writes it numbers them.    *)
Byte(name, k) == name * MaxBytes + k

BlocksInit ==
  /\ ram = [bmap |-> {}, imap |-> {}, inode |-> [i \in Ino \cup {0} |-> NewInode]]
  /\ disk = [bmap |-> {}, imap |-> {}, inode |-> [i \in Ino \cup {0} |-> NewInode],
             blk |-> [b \in Block \cup {0} |-> NoSector], entry |-> {}]
  /\ file = [p \in Task |-> NoFile]
  /\ call = [p \in Task |-> NoCall]
  /\ mishap = "none" /\ made = 0

-----------------------------------------------------------------------------
(* What a step does to memory, to its call and, if all goes wrong, to the  *)
(* behaviour.                                                              *)
Out(m, c, h) == [mem |-> m, c |-> c, mishap |-> h]

Becomes(p, out) ==
  /\ ram' = out.mem
  /\ call' = [call EXCEPT ![p] = out.c]
  /\ mishap' = out.mishap

At(p, op) == mishap = "none" /\ call[p].op = op
Idle(p) == mishap = "none" /\ call[p] = NoCall

SameSector(a, b) == a \div SecBits = b \div SecBits

(* bitmap_sync: the sector with this bit, as memory has it when the        *)
(* transfer takes place.                                                   *)
bitmap_sync(bits, onDisk, bit) ==
  {b \in bits : SameSector(b, bit)} \cup {b \in onDisk : ~SameSector(b, bit)}

(* The lowest free block is taken.  A full bitmap, which fails             *)
(* bitmap_scan's ASSERT, gives none.                                       *)
block_bitmap_alloc(m) ==
  LET b == IF m.bmap = Block THEN {} ELSE {Min(Block \ m.bmap)}
  IN  [got |-> b, mem |-> [m EXCEPT !.bmap = @ \cup b]]

-----------------------------------------------------------------------------
(* file_write.  Its locals: left (size_left), has and will (the blocks the *)
(* file has and will use), idx (block_idx), blocks (all_blocks), bit (the  *)
(* block whose bit is being synced), first (first_write_block).            *)

(* The loop over the bytes, or inode_sync when there are none left.        *)
NextChunk(m, c) ==
  Out(m, [c EXCEPT !.op = IF c.left > 0 THEN "chunk" ELSE "sync"], "none")

(* The loops that allocate blocks has .. will - 1.                         *)
AllocNext(m, c) ==
  IF c.idx = c.will THEN
    IF c.has < c.will /\ c.will > Direct THEN Out(m, [c EXCEPT !.op = "puttable"], "none")
    ELSE NextChunk(m, c)
  ELSE IF c.idx < Direct /\ m.inode[c.ino].sect[c.idx] # 0 THEN Out(m, c, "assert")
  ELSE LET new == block_bitmap_alloc(m)
           b == Max(new.got)
       IN  IF new.got = {} THEN Out(m, c, "full")
           ELSE Out([new.mem EXCEPT !.inode[c.ino].sect =
                       IF c.idx < Direct THEN [@ EXCEPT ![c.idx] = b] ELSE @],
                    [c EXCEPT !.op = "bitmap", !.bit = b, !.blocks[c.idx] = b,
                              !.idx = @ + 1], "none")

(* The indirect table of a file that outgrows its direct blocks.  Its own  *)
(* bit reaches the disk with that of the block allocated next.             *)
NewTable(m, c) ==
  IF m.inode[c.ino].sect[Direct] # 0 THEN Out(m, c, "assert")
  ELSE LET new == block_bitmap_alloc(m)
           b == Max(new.got)
           out == AllocNext([new.mem EXCEPT !.inode[c.ino].sect[Direct] = b], c)
       IN  IF new.got = {} THEN Out(m, c, "full")
           ELSE IF out.mishap = "none" /\ ~SameSector(b, out.c.bit)
           THEN [out EXCEPT !.mishap = "table"] ELSE out

(* Faulty variant: no block is counted for the next byte of a file whose   *)
(* size is a multiple of BlockSize.                                        *)
UsedRoundedUp(size) == (size + BlockSize - 1) \div BlockSize

used_blocks(size) == size \div BlockSize + 1

(* From file_has_used_blocks to the first disk operation after it.         *)
CollectBlocks(m, c) ==
  LET inode == m.inode[c.ino]
      has == used_blocks(inode.size)
      will == used_blocks(inode.size + c.left)
      d == [c EXCEPT !.has = has, !.will = will, !.idx = has,
                     !.blocks[has - 1] = IF has <= Direct THEN inode.sect[has - 1] ELSE 0]
  IN  IF will > MaxBlocks THEN Out(m, c, "assert")
      ELSE IF has > Direct THEN
        IF inode.sect[Direct] = 0 THEN Out(m, c, "assert")
        ELSE Out(m, [d EXCEPT !.op = "gettable"], "none")
      ELSE IF has < will /\ will > Direct THEN NewTable(m, d)
      ELSE IF has < will /\ inode.sect[has - 1] = 0 THEN Out(m, c, "assert")
      ELSE AllocNext(m, d)

(* A write that would go past MaxBytes returns -1 at once.                 *)
file_write(p, n) ==
  /\ Idle(p) /\ file[p].ino # 0 /\ file[p].wr
  /\ ram.inode[file[p].ino].size + n <= MaxBytes
  /\ LET i == file[p].ino
         c == [op |-> "first", what |-> "write", ino |-> i, left |-> n, has |-> 0,
               will |-> 0, idx |-> 0, blocks |-> NoBlocks, bit |-> 0, first |-> TRUE]
         new == block_bitmap_alloc(ram)
     IN  Becomes(p, IF ram.inode[i].sect[0] # 0 THEN CollectBlocks(ram, c)
                    ELSE IF new.got = {} THEN Out(ram, c, "full")
                    ELSE Out([new.mem EXCEPT !.inode[i].sect[0] = Max(new.got)],
                             [c EXCEPT !.bit = Max(new.got)], "none"))
  /\ UNCHANGED <<disk, file>>

(* Faulty variant: the bits of blocks allocated in the loop stay in        *)
(* memory.                                                                 *)
BitUnsynced(p) ==
  /\ At(p, "first") \/ At(p, "bitmap")
  /\ disk' = IF call[p].op = "bitmap" THEN disk
             ELSE [disk EXCEPT !.bmap = bitmap_sync(ram.bmap, @, call[p].bit)]
  /\ Becomes(p, IF call[p].op = "first" THEN CollectBlocks(ram, call[p])
                ELSE AllocNext(ram, call[p]))
  /\ UNCHANGED file

(* The first block's bit, or that of a block allocated in the loop.        *)
BitSynced(p) ==
  /\ At(p, "first") \/ At(p, "bitmap")
  /\ disk' = [disk EXCEPT !.bmap = bitmap_sync(ram.bmap, @, call[p].bit)]
  /\ Becomes(p, IF call[p].op = "first" THEN CollectBlocks(ram, call[p])
                ELSE AllocNext(ram, call[p]))
  /\ UNCHANGED file

(* all_blocks with the table that is in this block of the disk.            *)
WithTable(blocks, table) ==
  [k \in DOMAIN blocks |-> IF k < Direct THEN blocks[k] ELSE disk.blk[table][k - Direct]]

GetTable(p) ==
  /\ At(p, "gettable")
  /\ LET c == call[p] IN
     Becomes(p, AllocNext(ram, [c EXCEPT !.blocks =
                  WithTable(@, ram.inode[c.ino].sect[Direct])]))
  /\ UNCHANGED <<disk, file>>

PutTable(p) ==
  /\ At(p, "puttable")
  /\ LET c == call[p]
         table == [k \in Cell |-> IF k < Indirect THEN c.blocks[Direct + k] ELSE 0]
     IN  /\ disk' = [disk EXCEPT !.blk[ram.inode[c.ino].sect[Direct]] = table]
         /\ Becomes(p, NextChunk(ram, c))
  /\ UNCHANGED file

(* Faulty variant: the old contents of the first block are not read.       *)
ZeroedBlock(c, lba) == NoSector

(* What io_buf holds before the new bytes: only the first block is read.   *)
io_buf(c, lba) == IF c.first THEN disk.blk[lba] ELSE NoSector

(* One round of the loop that writes.  Reading the first block and writing *)
(* it are one step: only this process writes to it.                        *)
WriteChunk(p) ==
  /\ At(p, "chunk")
  /\ LET c == call[p]
         size == ram.inode[c.ino].size
         lba == c.blocks[size \div BlockSize]
         off == size % BlockSize
         n == Min({c.left, BlockSize - off})
         old == io_buf(c, lba)
     IN  /\ disk' = [disk EXCEPT !.blk[lba] =
                       [k \in Cell |-> IF k \in off .. off + n - 1
                                         THEN Byte(file[p].name, size + k - off)
                                         ELSE old[k]]]
         /\ Becomes(p, NextChunk([ram EXCEPT !.inode[c.ino].size = size + n],
                                  [c EXCEPT !.left = @ - n, !.first = FALSE]))
  /\ UNCHANGED file

-----------------------------------------------------------------------------
(* inode_sync and inode_delete: one read and one write of the sector, or   *)
(* the two sectors, that the inode lies in.  c.ino is the inode, what      *)
(* tells which call it is part of.                                         *)
inode_locate(i) == (i * InodeSize) \div SectorSize .. ((i + 1) * InodeSize - 1) \div SectorSize

two_sec(i) == SectorSize - ((i * InodeSize) % SectorSize) < InodeSize

(* The inodes that the sectors of inode i hold, wholly or in part.         *)
InodeSector(i) == {k \in Ino \cup {0} : inode_locate(k) \cap inode_locate(i) # {}}

(* The inode a call is syncing: file_create and sys_unlink sync the parent *)
(* directory's first.                                                      *)
Syncing(c) == IF c.what \in {"parent", "deparent"} THEN 0 ELSE c.ino

(* Faulty variant: the number is cut to one bit.                           *)
OneBit(c) == IF c.what = "delete" THEN c.ino ELSE Syncing(c) % 2

(* Where inode_sync, with its uint8_t, and inode_delete store it.          *)
Target(c) == IF c.what = "delete" THEN c.ino ELSE Syncing(c) % InoMod

Cut(c) == c.what # "delete" /\ Syncing(c) >= InoMod

(* file_write's io_buf has one sector only.  Where the second one goes is  *)
(* another block of the heap: its loss matters, or it does not.            *)
SectorRead(p) ==
  /\ At(p, "sync")
  /\ LET c == call[p]
         overrun == c.what = "write" /\ two_sec(Target(c))
     IN  /\ call' = [call EXCEPT ![p] =
                       [op |-> "syncw", what |-> c.what, ino |-> c.ino,
                        img |-> [k \in InodeSector(Target(c)) |-> disk.inode[k]]]]
         /\ mishap' \in {"none"} \cup IF overrun THEN {"buffer"} ELSE {}
  /\ UNCHANGED <<ram, disk, file>>

(* What is stored: i_open_cnts is cleared, and inode_delete stores zeros.  *)
pure_inode(c) ==
  IF c.what = "delete" THEN NewInode ELSE [ram.inode[Syncing(c)] EXCEPT !.cnt = 0]

(* What follows in each call when the inode is on the disk.                *)
AfterSync(c) ==
  CASE c.what = "write" -> Out(ram, NoCall, "none")
    [] c.what = "parent" -> Out(ram, [op |-> "sync", what |-> "create", ino |-> c.ino], "none")
    [] c.what = "create" -> Out(ram, [op |-> "imap", what |-> "create", ino |-> c.ino], "none")
    [] c.what = "deparent" -> Out(ram, [op |-> "load", what |-> "unlink", ino |-> c.ino], "none")
    [] c.what = "delete" -> Out([ram EXCEPT !.inode[c.ino] = NewInode], NoCall, "none")

(* An inode that changed on the disk since the sectors were read is put    *)
(* back, or the part of it that they hold.  fd_pos follows i_size - 1      *)
(* while file_write writes.                                                *)
SectorWritten(p) ==
  /\ At(p, "syncw")
  /\ LET c == call[p]
         t == Target(c)
         out == AfterSync(c)
         lost == \E k \in DOMAIN c.img \ {t} : disk.inode[k] # c.img[k]
     IN  /\ disk' = [disk EXCEPT !.inode =
                       [k \in DOMAIN @ |-> IF k = t THEN pure_inode(c)
                                           ELSE IF k \in DOMAIN c.img THEN c.img[k]
                                           ELSE @[k]]]
         /\ Becomes(p, IF lost THEN [out EXCEPT !.mishap = "sector"]
                        ELSE IF Cut(c) THEN [out EXCEPT !.mishap = "cut"] ELSE out)
         /\ file' = IF c.what = "write"
                      THEN [file EXCEPT ![p].pos = (ram.inode[c.ino].size - 1) % PosMod]
                    ELSE file

-----------------------------------------------------------------------------
(* file_read.  Its locals: want (size), blocks (all_blocks), got (buf).    *)

ReadChunkNext(c) == IF Len(c.got) < c.want THEN [c EXCEPT !.op = "readchunk"]
                    ELSE [c EXCEPT !.op = "got"]

(* A read at the end of the file returns -1 at once.                       *)
file_read(p, n) ==
  /\ Idle(p) /\ file[p].ino # 0
  /\ LET inode == ram.inode[file[p].ino]
         pos == file[p].pos
         past == (pos + n) % PosMod > inode.size
         want == IF past THEN (inode.size - pos) % PosMod ELSE n
         start == pos \div BlockSize
         end == ((pos + want) % PosMod) \div BlockSize
         c == [op |-> "readtable", what |-> "read", ino |-> file[p].ino, from |-> pos,
               want |-> want, got |-> <<>>,
               blocks |-> [k \in DOMAIN NoBlocks |->
                             IF k < Direct /\ k \in start .. end THEN inode.sect[k] ELSE 0]]
     IN  /\ ~(past /\ want = 0)
         /\ Becomes(p,
              IF start >= MaxBlocks - 1 \/ end >= MaxBlocks - 1 THEN Out(ram, c, "assert")
              ELSE IF end >= Direct /\ start # end /\ inode.sect[Direct] = 0
                THEN Out(ram, c, "assert")
              ELSE Out(ram, IF end >= Direct THEN c ELSE ReadChunkNext(c), "none"))
  /\ UNCHANGED <<disk, file>>

ReadTable(p) ==
  /\ At(p, "readtable")
  /\ LET c == call[p] IN
     call' = [call EXCEPT ![p] = ReadChunkNext([c EXCEPT !.blocks =
                WithTable(@, ram.inode[c.ino].sect[Direct])])]
  /\ UNCHANGED <<ram, disk, file, mishap>>

ReadChunk(p) ==
  /\ At(p, "readchunk")
  /\ LET c == call[p]
         pos == file[p].pos
         off == pos % BlockSize
         n == Min({c.want - Len(c.got), BlockSize - off})
         sector == disk.blk[c.blocks[pos \div BlockSize]]
     IN  /\ call' = [call EXCEPT ![p] = ReadChunkNext(
                       [c EXCEPT !.got = @ \o [k \in 1 .. n |-> sector[off + k - 1]]])]
         /\ file' = [file EXCEPT ![p].pos = pos + n]
  /\ UNCHANGED <<ram, disk, mishap>>

ReadDone(p) ==
  /\ At(p, "got")
  /\ call' = [call EXCEPT ![p] = NoCall]
  /\ UNCHANGED <<ram, disk, file, mishap>>

(* Whatever whence is, the new position is accepted inside the file only.  *)
sys_lseek(p, new_pos) ==
  /\ Idle(p) /\ file[p].ino # 0
  /\ new_pos \in 0 .. ram.inode[file[p].ino].size - 1
  /\ file' = [file EXCEPT ![p].pos = new_pos]
  /\ UNCHANGED <<ram, disk, call, mishap>>

-----------------------------------------------------------------------------
(* Names.  A step begins with the read of the directory that finds the     *)
(* name or does not.                                                       *)
Found(name) == {i \in Ino : <<name, i>> \in disk.entry}

(* An unlink of inode i is under way.                                      *)
Deleting(i) == \E q \in Task : /\ call[q].what \in {"deparent", "unlink", "delete"}
                              /\ call[q].ino = i

(* Entries of file_table name this inode; file_create fills its entry in   *)
(* before it sleeps, file_open when inode_open is back.                    *)
InUse(i) == \E q \in Task : file[q].ino = i

(* sys_open with O_CREAT, and file_create up to sync_dir_entry.            *)
file_create(p, name) ==
  /\ Idle(p) /\ file[p].ino = 0 /\ Found(name) = {}
  /\ made < MaxCreates /\ made' = made + 1
  /\ IF ram.imap = Ino THEN mishap' = "full" /\ UNCHANGED <<ram, file, call>>
     ELSE LET i == Min(Ino \ ram.imap) IN
          /\ ram' = [ram EXCEPT !.imap = @ \cup {i}, !.inode[i] = NewInode]
          /\ file' = [file EXCEPT ![p] = [ino |-> i, name |-> name, pos |-> 0, wr |-> TRUE]]
          /\ call' = [call EXCEPT ![p] = [op |-> "enread", what |-> "parent", ino |-> i,
                                          name |-> name]]
          /\ mishap' = IF Deleting(i) THEN "number" ELSE "none"
  /\ UNCHANGED disk

(* sys_unlink up to delete_dir_entry.                                      *)
sys_unlink(p, name) ==
  /\ Idle(p)
  /\ \E i \in Found(name) :
       /\ ~InUse(i)
       /\ call' = [call EXCEPT ![p] = [op |-> "deread", what |-> "deparent", ino |-> i,
                                       name |-> name]]
  /\ UNCHANGED <<ram, disk, file, mishap>>

(* sync_dir_entry and delete_dir_entry read the directory's sector, change *)
(* an entry and write it back; then the directory's inode is synced.       *)
EntryRead(p) ==
  /\ At(p, "enread") \/ At(p, "deread")
  /\ LET c == call[p]
         e == <<c.name, c.ino>>
     IN  call' = [call EXCEPT ![p] =
           [op |-> IF c.op = "enread" THEN "entry" ELSE "unentry",
            what |-> c.what, ino |-> c.ino, name |-> c.name, old |-> disk.entry,
            img |-> IF c.op = "enread" THEN disk.entry \cup {e} ELSE disk.entry \ {e}]]
  /\ UNCHANGED <<ram, disk, file, mishap>>

EntryWritten(p) ==
  /\ At(p, "entry") \/ At(p, "unentry")
  /\ LET c == call[p] IN
     /\ disk' = [disk EXCEPT !.entry = c.img]
     /\ Becomes(p, Out(ram, [op |-> "sync", what |-> c.what, ino |-> c.ino],
                       IF disk.entry # c.old THEN "sector"
                       ELSE IF c.op = "entry" /\ Found(c.name) # {} THEN "twice" ELSE "none"))
  /\ UNCHANGED file

(* The end of file_create: the inode bitmap is synced, the inode is on     *)
(* open_inodes.                                                            *)
CreateDone(p) ==
  /\ At(p, "imap")
  /\ disk' = [disk EXCEPT !.imap = ram.imap]
  /\ Becomes(p, Out([ram EXCEPT !.inode[call[p].ino].cnt = 1], NoCall, "none"))
  /\ UNCHANGED file

(* file_open.  Nobody opens for writing a file that another process writes *)
(* (what write_deny does then is module FileTable's).                      *)
Opened(p, i, name, wr) ==
  file' = [file EXCEPT ![p] = [ino |-> i, name |-> name, pos |-> 0, wr |-> wr]]

file_open(p, name, wr) ==
  /\ Idle(p) /\ file[p].ino = 0
  /\ \E i \in Found(name) :
       /\ wr => \A q \in Task : file[q].ino = i => ~file[q].wr
       /\ \/ /\ ram.inode[i].cnt > 0
             /\ Becomes(p, Out([ram EXCEPT !.inode[i].cnt = @ + 1], NoCall, "none"))
             /\ Opened(p, i, name, wr)
          \/ /\ ram.inode[i].cnt = 0
             /\ Becomes(p, Out(ram, [op |-> "load", what |-> "open", ino |-> i,
                                     name |-> name, wr |-> wr], "none"))
             /\ UNCHANGED file
  /\ UNCHANGED disk

sys_close(p) ==
  /\ Idle(p) /\ file[p].ino # 0
  /\ LET i == file[p].ino
         inode == ram.inode[i]
     IN  ram' = [ram EXCEPT !.inode[i] = IF inode.cnt = 1 THEN NewInode
                                         ELSE [inode EXCEPT !.cnt = @ - 1]]
  /\ file' = [file EXCEPT ![p] = NoFile]
  /\ UNCHANGED <<disk, call, mishap>>

-----------------------------------------------------------------------------
(* inode_release: the blocks, then the number, then the inode.             *)
FreeNext(m, c) ==
  IF c.todo # <<>>
  THEN Out([m EXCEPT !.bmap = @ \ {Head(c.todo)}],
           [c EXCEPT !.op = "free", !.bit = Head(c.todo), !.todo = Tail(@)], "none")
  ELSE Out([m EXCEPT !.imap = @ \ {c.ino}], [op |-> "ifree", what |-> "unlink", ino |-> c.ino],
           "none")

Nonzero(s) == SelectSeq(s, LAMBDA b : b # 0)

Releasing(m, i, table) ==
  LET sect == m.inode[i].sect
      direct == Nonzero([k \in 1 .. Direct |-> sect[k - 1]])
  IN  FreeNext(m, [op |-> "free", what |-> "unlink", ino |-> i, bit |-> 0,
                   todo |-> Nonzero(<<sect[Direct]>>) \o direct \o table])

(* inode_open has read the inode, for file_open or for inode_release.      *)
InodeRead(p) ==
  /\ At(p, "load")
  /\ UNCHANGED disk
  /\ LET c == call[p]
         i == c.ino
         m == [ram EXCEPT !.inode[i] = [disk.inode[i] EXCEPT !.cnt = 1]]
         copies == ram.inode[i].cnt > 0 \/ InUse(i)
     IN
     \/ /\ c.what = "open"
        /\ Becomes(p, Out(m, NoCall,
             IF copies THEN "copies"
             ELSE IF <<c.name, i>> \notin disk.entry \/ Deleting(i) THEN "unlinked"
             ELSE "none"))
        /\ Opened(p, i, c.name, c.wr)
     \/ /\ c.what = "unlink"
        /\ Becomes(p, IF copies THEN Out(m, c, "unlinked")
                      ELSE IF m.inode[i].sect[Direct] # 0
                        THEN Out(m, [op |-> "table", what |-> "unlink", ino |-> i], "none")
                      ELSE Releasing(m, i, <<>>))
        /\ UNCHANGED file

ReleaseTable(p) ==
  /\ At(p, "table")
  /\ LET i == call[p].ino
         t == disk.blk[ram.inode[i].sect[Direct]]
     IN  Becomes(p, Releasing(ram, i, Nonzero([k \in 1 .. Indirect |-> t[k - 1]])))
  /\ UNCHANGED <<disk, file>>

BlockReleased(p) ==
  /\ At(p, "free")
  /\ disk' = [disk EXCEPT !.bmap = bitmap_sync(ram.bmap, @, call[p].bit)]
  /\ Becomes(p, FreeNext(ram, call[p]))
  /\ UNCHANGED file

NumberReleased(p) ==
  /\ At(p, "ifree")
  /\ disk' = [disk EXCEPT !.imap = ram.imap]
  /\ Becomes(p, Out(ram, [op |-> "sync", what |-> "delete", ino |-> call[p].ino], "none"))
  /\ UNCHANGED file

BlocksNext ==
  \E p \in Task :
    \/ \E name \in Name : file_create(p, name)
    \/ /\ UNCHANGED made
       /\ \/ \E name \in Name : \/ sys_unlink(p, name)
                                \/ \E wr \in BOOLEAN : file_open(p, name, wr)
          \/ (\E n \in WriteCounts : file_write(p, n)) \/ (\E n \in ReadCounts : file_read(p, n))
          \/ \E pos \in Seeks : sys_lseek(p, pos)
          \/ sys_close(p)
          \/ BitSynced(p) \/ GetTable(p) \/ PutTable(p) \/ WriteChunk(p)
          \/ SectorRead(p) \/ SectorWritten(p)
          \/ ReadTable(p) \/ ReadChunk(p) \/ ReadDone(p)
          \/ EntryRead(p) \/ EntryWritten(p) \/ CreateDone(p) \/ InodeRead(p)
          \/ ReleaseTable(p) \/ BlockReleased(p) \/ NumberReleased(p)

BlocksSpec == BlocksInit /\ [][BlocksNext]_blocks_vars

-----------------------------------------------------------------------------
BlocksTypeOK ==
  /\ ram.bmap \subseteq Block /\ ram.imap \subseteq Ino
  /\ disk.bmap \subseteq Block /\ disk.imap \subseteq Ino
  /\ disk.entry \subseteq Name \X Ino
  /\ \A p \in Task : file[p].ino # 0 => file[p].pos \in 0 .. PosMod - 1
  /\ mishap \in Mishap

(* The inode as the kernel sees it: in memory while some process has it    *)
(* open, creates it or deletes it, else on the disk.                       *)
Current(i) == IF ram.inode[i].cnt > 0 \/ InUse(i) THEN ram.inode[i] ELSE disk.inode[i]

(* The table of a file: not yet on the disk while file_write adds to it.   *)
TableOf(i) ==
  LET writers == {p \in Task : call[p].op \in {"bitmap", "puttable"} /\ call[p].ino = i} IN
  IF writers # {}
  THEN [k \in Cell |-> IF k < Indirect
                       THEN call[CHOOSE p \in writers : TRUE].blocks[Direct + k] ELSE 0]
  ELSE disk.blk[Current(i).sect[Direct]]

(* The blocks of an inode by their index, the table's own as the last.     *)
BlockMap(inode, table) ==
  [k \in 0 .. MaxBlocks |-> IF k < Direct THEN inode.sect[k]
                            ELSE IF k = MaxBlocks THEN inode.sect[Direct]
                            ELSE IF inode.sect[Direct] = 0 THEN 0
                            ELSE table[k - Direct]]

Used(map) == {k \in DOMAIN map : map[k] # 0}

(* The blocks of file i, or what is left of them while it is deleted.      *)
Held(i) ==
  LET rel == {p \in Task : call[p].op = "free" /\ call[p].ino = i} IN
  IF rel # {} THEN call[CHOOSE p \in rel : TRUE].todo
  ELSE BlockMap(Current(i), TableOf(i))

OneOwner(maps) ==
  \A i, j \in DOMAIN maps : \A k \in Used(maps[i]), l \in Used(maps[j]) :
    maps[i][k] = maps[j][l] => i = j /\ k = l

Blocks(maps) == UNION {{maps[i][k] : k \in Used(maps[i])} : i \in DOMAIN maps}

(* No block belongs to two files or twice to one, and the bitmap marks     *)
(* exactly the blocks in use, at every point where another process may     *)
(* run.  An ASSERT of file_write fails only for the file's very last       *)
(* block, one of file_read for the last two or at the position an empty    *)
(* write to an empty file leaves.                                          *)
BlocksExact ==
  /\ BlocksTypeOK
  /\ mishap = "none" =>
       LET maps == [i \in ram.imap |-> Held(i)]
       IN  OneOwner(maps) /\ Blocks(maps) = ram.bmap
  /\ mishap = "assert" =>
       \E p \in Task :
         LET c == call[p] IN
         \/ c.op = "first" /\ ram.inode[c.ino].size + c.left = MaxBytes
         \/ /\ c.op = "readtable"
            /\ \/ c.from + c.want >= MaxBytes - BlockSize
               \/ c.from = PosMod - 1 /\ ram.inode[c.ino].size = 0

(* Inode i is the file of this name: the directory says so, or a process   *)
(* that has opened it.                                                     *)
IsFile(name, i) ==
  <<name, i>> \in disk.entry \/ \E p \in Task : file[p].ino = i /\ file[p].name = name

Contents(inode, table) ==
  LET map == BlockMap(inode, table) IN
  [k \in 0 .. inode.size - 1 |-> disk.blk[map[k \div BlockSize]][k % BlockSize]]

Written(name, size) == [k \in 0 .. size - 1 |-> Byte(name, k)]

(* A file consists of the bytes that were written to it, whatever is       *)
(* allocated and freed beside it, and a read gets the bytes of its file    *)
(* from its position on although another process appends meanwhile.        *)
BytesAreWritten ==
  mishap = "none" =>
    /\ \A name \in Name, i \in Ino :
         IsFile(name, i) =>
           Contents(Current(i), TableOf(i)) = Written(name, Current(i).size)
    /\ \A p \in Task :
         call[p].op \in {"readchunk", "got"} =>
           call[p].got = [k \in 1 .. Len(call[p].got) |->
                            Byte(file[p].name, call[p].from + k - 1)]

(* What a call changed is on the disk when it returns: the bitmaps when no *)
(* call is under way, an inode when none is under way on it.  An inode     *)
(* that leaves memory with the last close can be read again.               *)
DiskUpToDate ==
  mishap = "none" =>
    /\ (\A p \in Task : call[p] = NoCall) => disk.bmap = ram.bmap /\ disk.imap = ram.imap
    /\ \A i \in Ino :
         ram.inode[i].cnt > 0 /\ (\A p \in Task : call[p] # NoCall => call[p].ino # i)
         => disk.inode[i] = [ram.inode[i] EXCEPT !.cnt = 0]

(* If the power fails between two transfers, the disk is usable: in every  *)
(* state, the files that have an entry consist of bytes written to them,   *)
(* in blocks that the bitmap on the disk marks and that no other of them   *)
(* has.                                                                    *)
DiskSafe ==
  mishap = "none" =>
    LET maps == [e \in disk.entry |->
                   BlockMap(disk.inode[e[2]], disk.blk[disk.inode[e[2]].sect[Direct]])]
    IN  /\ OneOwner(maps) /\ Blocks(maps) \subseteq disk.bmap
        /\ \A e \in disk.entry :
             LET inode == disk.inode[e[2]]
             IN  Contents(inode, disk.blk[inode.sect[Direct]]) = Written(e[1], inode.size)
=============================================================================
