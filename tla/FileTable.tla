----------------------------- MODULE FileTable ------------------------------
(***************************************************************************)
(* Open files: the global file_table (file.c), the fd_table of each        *)
(* process, the in-memory inodes and their open counts (inode.c), pipes as *)
(* entries of the same table (pipe.c), and what fork and exit do to them.  *)
(*                                                                         *)
(* System calls run with interrupts off, so other processes run only while *)
(* one sleeps on the disk: when inode_open reads an inode, when            *)
(* file_create writes the new directory entry and when sys_unlink removes  *)
(* one.  Those calls have an action for each piece between two sleeps;     *)
(* busy[p] holds their local variables.                                    *)
(*                                                                         *)
(* A file is its inode number; paths and directories are left out, and so  *)
(* are a file's contents and position.  Programs pass only descriptors     *)
(* they have open, and redirect only their standard ones, as the shell.    *)
(***************************************************************************)
EXTENDS Integers, Sequences, FiniteSets

CONSTANTS
  Proc,                      \* the processes there can be
  FirstProc,                 \* the ones running at the start
  File,                      \* inode numbers
  InitFile,                  \* the files on the disk at the start
  Flag,                      \* the flags programs pass to open
  MaxPipes,                  \* bound on the pipes at once
  Std,                       \* the standard descriptors they redirect
  MAX_FILE_OPEN,             \* entries of file_table
  MAX_FILES_OPEN_PER_PROC,   \* entries of fd_table
  MaxInode,                  \* bound on the inodes in memory at once
  CntMod                     \* the range of the counters, 2^32

ASSUME FileAssumption ==
  /\ IsFiniteSet(Proc) /\ FirstProc \subseteq Proc
  /\ File \subseteq Nat /\ InitFile \subseteq File
  /\ Flag \subseteq {"O_RDONLY", "O_WRONLY", "O_RDWR", "O_CREAT"}
  /\ MaxPipes \in Nat /\ Std \subseteq {0, 1}
  /\ MAX_FILE_OPEN \in Nat \ 0 .. 2 /\ MAX_FILES_OPEN_PER_PROC \in Nat \ 0 .. 3
  /\ MaxInode \in Nat /\ CntMod \in Nat \ 0 .. 2

Slot == 3 .. MAX_FILE_OPEN - 1
Fd == 3 .. MAX_FILES_OPEN_PER_PROC - 1
Inode == 1 .. MaxInode
NULL == 0            \* a null fd_inode
PipePage == -1       \* an fd_inode that is the page of a pipe's ring

VARIABLES
  files,      \* [table, inode, open, fault]: file_table, the inodes in
              \* memory, the list open_inodes, and TRUE after a wild access
  fd_table,   \* of each process
  live,       \* the processes that have not exited
  busy,       \* the call a process sleeps in
  exists,     \* the files with a directory entry on the disk
  inode_bitmap,   \* the inode numbers in use
  lost,       \* history: failed pcb_fd_install calls of a pipe, per slot
  apart       \* history: no entry was picked by two calls at once and no
              \* file shared through fork

vars == <<files, fd_table, live, busy, exists, inode_bitmap, lost, apart>>

NoInode == [i_no |-> NULL, cnt |-> 0, write_deny |-> FALSE]
NoFds == [fd \in 0 .. MAX_FILES_OPEN_PER_PROC - 1 |-> IF fd < 3 THEN fd ELSE -1]
NotBusy == [op |-> "none", slot |-> 0, ino |-> NULL, file |-> NULL, flag |-> "none"]

Init ==
  /\ files = [table |-> [s \in Slot |-> [inode |-> NULL, pos |-> 0, flag |-> "none"]],
              inode |-> [i \in Inode |-> NoInode],
              open |-> <<>>, fault |-> FALSE]
  /\ fd_table = [p \in Proc |-> NoFds]
  /\ live = FirstProc
  /\ busy = [p \in Proc |-> NotBusy]
  /\ exists = InitFile
  /\ inode_bitmap = InitFile
  /\ lost = [s \in Slot |-> 0]
  /\ apart = TRUE

-----------------------------------------------------------------------------
(* The tables.                                                             *)

CanCall(p) == ~files.fault /\ p \in live /\ busy[p] = NotBusy
In(p, op) == ~files.fault /\ busy[p].op = op

(* Bound: the counters stay away from the end of their range.              *)
RoomToCount ==
  /\ \A i \in Inode : files.inode[i].cnt + Cardinality(Fd) < CntMod
  /\ \A s \in Slot : files.table[s].pos + Cardinality(Fd) < CntMod

FreeSlots == {s \in Slot : files.table[s].inode = NULL}

Least(S) == CHOOSE x \in S : \A y \in S : x <= y

get_free_slot_in_global == IF FreeSlots = {} THEN -1 ELSE Least(FreeSlots)

(* A call takes the entry that file_open, asleep in another process, has   *)
(* picked and not filled.                                                  *)
PickedTwice(s) == \E q \in Proc : busy[q].op = "open" /\ busy[q].slot = s

FreeFds(table) == {fd \in Fd : table[fd] = -1}

(* pcb_fd_install: with no free descriptor nothing is installed, and the   *)
(* caller returns -1.                                                      *)
pcb_fd_install(table, s) ==
  IF FreeFds(table) = {} THEN table ELSE [table EXCEPT ![Least(FreeFds(table))] = s]

is_pipe(m, s) == m.table[s].flag = "PIPE_FLAG"

(* Faulty variant: a second opener is not counted.                         *)
FoundUncounted(m, i) == m

(* inode_open of an inode that is in memory.                               *)
inode_found(m, i) ==
  [m EXCEPT !.inode = [m.inode EXCEPT ![i].cnt = (m.inode[i].cnt + 1) % CntMod]]

(* inode_open's end after the disk read.                                   *)
inode_loaded(m, i, f) ==
  [m EXCEPT !.inode = [m.inode EXCEPT ![i] = [i_no |-> f, cnt |-> 1, write_deny |-> FALSE]],
            !.open = <<i>> \o m.open]

(* Faulty variant: the closing entry stays counted.                        *)
CloseUncounted(m, i) == m

(* Unlink i, if it is in the list.                                         *)
list_remove(list, i) ==
  LET k == CHOOSE j \in DOMAIN list : list[j] = i
  IN  IF \E j \in DOMAIN list : list[j] = i
        THEN SubSeq(list, 1, k - 1) \o SubSeq(list, k + 1, Len(list))
        ELSE list

inode_close(m, i) ==
  LET n == (m.inode[i].cnt - 1) % CntMod
  IN  IF n = 0
        THEN [m EXCEPT !.inode = [m.inode EXCEPT ![i] = NoInode],
                       !.open = list_remove(m.open, i)]
        ELSE [m EXCEPT !.inode = [m.inode EXCEPT ![i].cnt = n]]

(* The slot is emptied, whoever else refers to it.                         *)
file_close(m, s) ==
  LET i == m.table[s].inode IN
  IF i \notin Inode
    THEN [m EXCEPT !.fault = TRUE]
    ELSE inode_close([m EXCEPT !.inode = [m.inode EXCEPT ![i].write_deny = FALSE],
                               !.table = [m.table EXCEPT ![s].inode = NULL]], i)

(* What sys_close and release_prog_resource do with the entry s.           *)
CloseEntry(m, s) ==
  IF is_pipe(m, s)
    THEN LET n == (m.table[s].pos - 1) % CntMod
             e == m.table[s]
         IN  [m EXCEPT !.table = [m.table EXCEPT
                ![s] = [inode |-> IF n = 0 THEN NULL ELSE e.inode, pos |-> n,
                        flag |-> e.flag]]]
    ELSE file_close(m, s)

-----------------------------------------------------------------------------
(* sys_open without O_CREAT, of a file that is there.                      *)

(* The rest of file_open once it has the inode: a denied writer gets -1    *)
(* and leaves the entry as it is.                                          *)
file_open(p, m, s, i, flag) ==
  LET filled == [m EXCEPT !.table = [m.table EXCEPT
                   ![s] = [inode |-> i, pos |-> 0, flag |-> flag]]]
      writes == flag \in {"O_WRONLY", "O_RDWR"}
  IN  IF writes /\ m.inode[i].write_deny
        THEN files' = filled /\ UNCHANGED fd_table
        ELSE /\ files' = [filled EXCEPT !.inode = [filled.inode EXCEPT
                            ![i].write_deny = @ \/ writes]]
             /\ fd_table' = [fd_table EXCEPT ![p] = pcb_fd_install(fd_table[p], s)]

(* Where the list of open inodes has file f; its loop finds the first.     *)
Listed(f) == {k \in DOMAIN files.open : files.inode[files.open[k]].i_no = f}

FirstListed(f) == files.open[Least(Listed(f))]

(* sys_malloc of an inode; "in use" is i_no # NULL.                        *)
FreeInodes == {i \in Inode : files.inode[i] = NoInode
                             /\ \A q \in Proc : busy[q].ino # i}

sys_open(p, f, flag) ==
  /\ CanCall(p) /\ flag # "O_CREAT" /\ f \in exists /\ RoomToCount
  /\ get_free_slot_in_global # -1
  /\ LET s == get_free_slot_in_global IN
       \/ /\ Listed(f) # {}
          /\ file_open(p, inode_found(files, FirstListed(f)), s, FirstListed(f), flag)
          /\ UNCHANGED busy
       \/ /\ Listed(f) = {} /\ FreeInodes # {}
          /\ busy' = [busy EXCEPT ![p] = [op |-> "open", slot |-> s, file |-> f,
                                          ino |-> Least(FreeInodes), flag |-> flag]]
          /\ UNCHANGED <<files, fd_table>>
  /\ apart' = (apart /\ ~PickedTwice(get_free_slot_in_global))
  /\ UNCHANGED <<live, exists, inode_bitmap, lost>>

InodeRead(p) ==
  LET b == busy[p] IN
  /\ In(p, "open")
  /\ file_open(p, inode_loaded(files, b.ino, b.file), b.slot, b.ino, b.flag)
  /\ busy' = [busy EXCEPT ![p] = NotBusy]
  /\ UNCHANGED <<live, exists, inode_bitmap, lost, apart>>

-----------------------------------------------------------------------------
(* sys_open with O_CREAT, of a file that is not there: a new inode number, *)
(* an entry, then the directory on the disk.                               *)
inode_bitmap_alloc == Least(File \ inode_bitmap)

file_create(p) ==
  /\ CanCall(p) /\ "O_CREAT" \in Flag /\ File # inode_bitmap
  /\ FreeInodes # {} /\ get_free_slot_in_global # -1
  /\ LET i == Least(FreeInodes)
         s == get_free_slot_in_global
         f == inode_bitmap_alloc
     IN  /\ inode_bitmap' = inode_bitmap \cup {f}
         /\ files' = [files EXCEPT
                !.inode = [files.inode EXCEPT ![i] = [NoInode EXCEPT !.i_no = f]],
                !.table = [files.table EXCEPT ![s] =
                             [inode |-> i, pos |-> 0, flag |-> "O_CREAT"]]]
         /\ busy' = [busy EXCEPT ![p] = [op |-> "create", slot |-> s, file |-> f,
                                         ino |-> i, flag |-> "O_CREAT"]]
  /\ apart' = (apart /\ ~PickedTwice(get_free_slot_in_global))
  /\ UNCHANGED <<fd_table, live, exists, lost>>

(* sync_dir_entry has written the entry, or found no room: roll back.      *)
EntryWritten(p) ==
  /\ In(p, "create")
  /\ exists' = exists \cup {busy[p].file}
  /\ busy' = [busy EXCEPT ![p].op = "created"]
  /\ UNCHANGED <<files, fd_table, live, inode_bitmap, lost, apart>>

CreateRollback(p) ==
  LET b == busy[p] IN
  /\ In(p, "create")
  /\ files' = [files EXCEPT
         !.table = [files.table EXCEPT ![b.slot] =
                      [inode |-> NULL, pos |-> 0, flag |-> "none"]],
         !.inode = [files.inode EXCEPT ![b.ino] = NoInode]]
  /\ inode_bitmap' = inode_bitmap \ {b.file}
  /\ busy' = [busy EXCEPT ![p] = NotBusy]
  /\ UNCHANGED <<fd_table, live, exists, lost, apart>>

(* The inode and its bitmap are synced too: list it and install the fd.    *)
CreateDone(p) ==
  LET b == busy[p] IN
  /\ In(p, "created")
  /\ files' = [files EXCEPT !.inode = [files.inode EXCEPT ![b.ino].cnt = 1],
                            !.open = <<b.ino>> \o files.open]
  /\ fd_table' = [fd_table EXCEPT ![p] = pcb_fd_install(fd_table[p], b.slot)]
  /\ busy' = [busy EXCEPT ![p] = NotBusy]
  /\ UNCHANGED <<live, exists, inode_bitmap, lost, apart>>

-----------------------------------------------------------------------------
(* sys_unlink of a file that no entry has open.                            *)
InUse(f) == \E s \in Slot : /\ files.table[s].inode \in Inode
                            /\ files.inode[files.table[s].inode].i_no = f

sys_unlink(p, f) ==
  /\ CanCall(p) /\ f \in exists /\ ~InUse(f)
  /\ busy' = [busy EXCEPT ![p] = [NotBusy EXCEPT !.op = "unlink", !.file = f]]
  /\ UNCHANGED <<files, fd_table, live, exists, inode_bitmap, lost, apart>>

(* delete_dir_entry is done; inode_release begins with inode_open.         *)
EntryDeleted(p) ==
  LET f == busy[p].file IN
  /\ In(p, "unlink")
  /\ exists' = exists \ {f}
  /\ \/ /\ Listed(f) # {} /\ RoomToCount
        /\ files' = inode_found(files, FirstListed(f))
        /\ busy' = [busy EXCEPT ![p].op = "release", ![p].ino = FirstListed(f)]
     \/ /\ Listed(f) = {} /\ FreeInodes # {}
        /\ busy' = [busy EXCEPT ![p].op = "load", ![p].ino = Least(FreeInodes)]
        /\ UNCHANGED files
  /\ UNCHANGED <<fd_table, live, inode_bitmap, lost, apart>>

UnlinkedInodeRead(p) ==
  /\ In(p, "load")
  /\ files' = inode_loaded(files, busy[p].ino, busy[p].file)
  /\ busy' = [busy EXCEPT ![p].op = "release"]
  /\ UNCHANGED <<fd_table, live, exists, inode_bitmap, lost, apart>>

(* inode_release gives back the number (and the blocks) and, after more    *)
(* writing, closes the inode.                                              *)
NumberReleased(p) ==
  /\ In(p, "release")
  /\ inode_bitmap' = inode_bitmap \ {busy[p].file}
  /\ busy' = [busy EXCEPT ![p].op = "close"]
  /\ UNCHANGED <<files, fd_table, live, exists, lost, apart>>

InodeReleased(p) ==
  /\ In(p, "close")
  /\ files' = inode_close(files, busy[p].ino)
  /\ busy' = [busy EXCEPT ![p] = NotBusy]
  /\ UNCHANGED <<fd_table, live, exists, inode_bitmap, lost, apart>>

-----------------------------------------------------------------------------
(* The calls that never sleep.                                             *)

sys_close(p, fd) ==
  /\ CanCall(p) /\ fd_table[p][fd] # -1
  /\ files' = CloseEntry(files, fd_table[p][fd])
  /\ fd_table' = [fd_table EXCEPT ![p][fd] = -1]
  /\ UNCHANGED <<live, busy, exists, inode_bitmap, lost, apart>>

(* A pipe is an entry counted 2 behind two descriptors.  With a full table *)
(* entry -1 is written.                                                    *)
sys_pipe(p) ==
  /\ CanCall(p)
  /\ Cardinality({s \in Slot : files.table[s].inode = PipePage}) < MaxPipes
  /\ LET s == get_free_slot_in_global
         one == pcb_fd_install(fd_table[p], s)
         failed == 2 - Cardinality(FreeFds(fd_table[p]))
     IN  IF s = -1
           THEN /\ files' = [files EXCEPT !.fault = TRUE]
                /\ UNCHANGED <<fd_table, lost>>
           ELSE /\ files' = [files EXCEPT !.table = [files.table EXCEPT
                       ![s] = [inode |-> PipePage, pos |-> 2, flag |-> "PIPE_FLAG"]]]
                /\ fd_table' = [fd_table EXCEPT ![p] = pcb_fd_install(one, s)]
                /\ lost' = [lost EXCEPT ![s] = IF failed < 0 THEN 0 ELSE failed]
  /\ apart' = (apart /\ ~PickedTwice(get_free_slot_in_global))
  /\ UNCHANGED <<live, busy, exists, inode_bitmap>>

(* The shell's use: standard input or output becomes an end of a pipe, or  *)
(* itself again.                                                           *)
sys_fd_redirect(p, old, new) ==
  /\ CanCall(p) /\ fd_table[p][new] # -1
  /\ fd_table' = [fd_table EXCEPT ![p][old] = IF new < 3 THEN new ELSE fd_table[p][new]]
  /\ UNCHANGED <<files, live, busy, exists, inode_bitmap, lost, apart>>

(* One round of update_inode_open_cnts.                                    *)
CountEntry(m, s) ==
  IF is_pipe(m, s)
    THEN [m EXCEPT !.table = [m.table EXCEPT ![s].pos = (@ + 1) % CntMod]]
  ELSE IF m.table[s].inode \in Inode
    THEN inode_found(m, m.table[s].inode)
    ELSE [m EXCEPT !.fault = TRUE]

(* The files after its rounds for the descriptors up to fd.                *)
Counted(table) ==
  LET after[fd \in 2 .. MAX_FILES_OPEN_PER_PROC - 1] ==
        IF fd = 2 THEN files
        ELSE IF table[fd] = -1 THEN after[fd - 1]
        ELSE CountEntry(after[fd - 1], table[fd])
  IN  after

update_inode_open_cnts(table) == Counted(table)[MAX_FILES_OPEN_PER_PROC - 1]

sys_fork(p, c) ==
  /\ CanCall(p) /\ c \notin live /\ RoomToCount
  /\ fd_table' = [fd_table EXCEPT ![c] = fd_table[p]]
  /\ files' = update_inode_open_cnts(fd_table[p])
  /\ live' = live \cup {c}
  /\ apart' = (apart /\ \A fd \in Fd : fd_table[p][fd] # -1 => is_pipe(files, fd_table[p][fd]))
  /\ UNCHANGED <<busy, exists, inode_bitmap, lost>>

(* The files after its rounds for the descriptors up to fd.                *)
Closed(table) ==
  LET after[fd \in 2 .. MAX_FILES_OPEN_PER_PROC - 1] ==
        IF fd = 2 THEN files
        ELSE IF table[fd] = -1 THEN after[fd - 1]
        ELSE CloseEntry(after[fd - 1], table[fd])
  IN  after

release_prog_resource(p) == Closed(fd_table[p])[MAX_FILES_OPEN_PER_PROC - 1]

sys_exit(p) ==
  /\ CanCall(p)
  /\ files' = release_prog_resource(p)
  /\ fd_table' = [fd_table EXCEPT ![p] = NoFds]
  /\ live' = live \ {p}
  /\ UNCHANGED <<busy, exists, inode_bitmap, lost, apart>>

-----------------------------------------------------------------------------
Call(p) ==
  \/ \E f \in File, flag \in Flag : sys_open(p, f, flag)
  \/ file_create(p)
  \/ \E f \in File : sys_unlink(p, f)
  \/ \E fd \in Fd : sys_close(p, fd)
  \/ sys_pipe(p)
  \/ \E old \in Std : \E new \in {old} \cup Fd : sys_fd_redirect(p, old, new)
  \/ \E c \in Proc : sys_fork(p, c)
  \/ sys_exit(p)

Resume(p) ==
  \/ InodeRead(p)
  \/ EntryWritten(p) \/ CreateRollback(p) \/ CreateDone(p)
  \/ EntryDeleted(p) \/ UnlinkedInodeRead(p) \/ NumberReleased(p)
  \/ InodeReleased(p)

Next == \E p \in Proc : Call(p) \/ Resume(p)

Spec == Init /\ [][Next]_vars

-----------------------------------------------------------------------------
TypeOK ==
  /\ files.table \in [Slot -> [inode : Inode \cup {NULL, PipePage},
                               pos : 0 .. CntMod - 1,
                               flag : Flag \cup {"PIPE_FLAG", "none"}]]
  /\ files.inode \in [Inode -> [i_no : File \cup {NULL}, cnt : 0 .. CntMod - 1,
                                write_deny : BOOLEAN]]
  /\ files.open \in Seq(Inode) /\ files.fault \in BOOLEAN
  /\ fd_table \in [Proc -> [DOMAIN NoFds -> -1 .. MAX_FILE_OPEN - 1]]
  /\ live \subseteq Proc
  /\ exists \subseteq File /\ inode_bitmap \subseteq File

SlotsOf(i) == {s \in Slot : files.table[s].inode = i}
BeingCreated(i) == \E p \in Proc : busy[p].op \in {"create", "created"} /\ busy[p].ino = i

(* No entry points to an inode that has been freed, whatever is shared     *)
(* through fork, opened twice or overtaken while it reads the disk: an     *)
(* inode is counted at least once for every entry it is in.                *)
InodeHeld ==
  /\ TypeOK
  /\ \A i \in Inode :
       SlotsOf(i) # {} /\ ~BeingCreated(i) =>
         /\ files.inode[i] # NoInode
         /\ files.inode[i].cnt >= Cardinality(SlotsOf(i))

(* The number of entries, and of unlinks under way, that have the inode.   *)
Users(i) ==
  Cardinality(SlotsOf(i)) +
  Cardinality({p \in Proc : busy[p].op \in {"release", "close"} /\ busy[p].ino = i})

Refs(s) == {pf \in live \X Fd : fd_table[pf[1]][pf[2]] = s}

(* Unless two calls picked one entry or a file was shared through fork,    *)
(* i_open_cnts is exactly the number of entries (and of the unlink) that   *)
(* have the inode open, so it leaves memory with the last of them; the     *)
(* fd_pos of a pipe is the number of descriptors for it in all processes   *)
(* (and of those that could not be installed), so its page is freed by the *)
(* close or exit that closes the last one; and no descriptor leads to an   *)
(* empty entry.                                                            *)
CountsExact ==
  apart =>
    /\ \A i \in Inode : ~BeingCreated(i) => files.inode[i].cnt = Users(i)
    /\ \A s \in Slot :
         /\ files.table[s].inode = PipePage =>
              files.table[s].pos = Cardinality(Refs(s)) + lost[s]
         /\ files.table[s].inode = NULL => Refs(s) = {}

Writing(p) == {s \in Slot : /\ files.table[s].flag \in {"O_WRONLY", "O_RDWR"}
                            /\ files.table[s].inode \in Inode
                            /\ \E fd \in Fd : fd_table[p][fd] = s}

(* inode.h, of write_deny: a file cannot be written in parallel, processes *)
(* check this flag first.                                                  *)
OneWriter ==
  \A p, q \in live : \A s \in Writing(p), u \in Writing(q) :
    /\ p # q /\ s # u
    => files.inode[files.table[s].inode].i_no # files.inode[files.table[u].inode].i_no
=============================================================================
