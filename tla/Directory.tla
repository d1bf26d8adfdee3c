------------------------------ MODULE Directory ------------------------------
(***************************************************************************)
(* Directories and path names: search_file and the system calls over it    *)
(* (fs.c), directory entries in their blocks (dir.c), and the shell's      *)
(* commands that reach them with relative paths (buildin_cmd.c).           *)
(*                                                                         *)
(* One process at a time is in the file system here, so a system call is   *)
(* one step; what happens between two disk operations of a call is module  *)
(* FileBlocks's subject.  Every bitmap change is followed by bitmap_sync,  *)
(* so one copy of each bitmap is enough; of inodes both are kept, because  *)
(* the code writes them back by hand.  i_size and dir_pos count entries.   *)
(*                                                                         *)
(* A behaviour ends when fs.bad is set (see Bad).                          *)
(***************************************************************************)
EXTENDS Integers, Sequences, FiniteSets, FiniteSetsExt, SequencesExt

CONSTANTS
  Name,       \* file and directory names, strings other than "." and ".."
  NInodes,    \* 4096; inode 0 is the root directory's
  NBlocks,    \* data blocks; block 1 is the root directory's first
  PerSec,     \* directory entries in a block, 512 / sizeof(struct dir_entry)
  Direct,     \* 12
  Arg,        \* bound on the paths typed: [abs : BOOLEAN, words : Seq(...)]
  MaxDepth,   \* bound on the length of a path
  MaxHandles  \* bound: with fewer handles open another is opened

Ino == 0 .. NInodes - 1
Block == 1 .. NBlocks
Path == UNION {[1 .. n -> Name] : n \in 0 .. MaxDepth}
Dots == {".", ".."}

ASSUME DirectoryAssumption ==
  /\ Name \cap Dots = {} /\ "" \notin Name
  /\ {NInodes, NBlocks, Direct} \subseteq Nat \ {0}
  /\ PerSec \in Nat \ {0, 1}
  /\ {MaxDepth, MaxHandles} \subseteq Nat
  /\ \A a \in Arg : a.abs \in BOOLEAN /\ a.words \in Seq(Name \cup Dots)

VARIABLES
  fs,          \* inodes, blocks and bitmaps
  cwd,         \* cwd_inode_nr
  cwd_cache,   \* the path in the shell's prompt
  dir,         \* the stream opendir has returned
  fd,          \* the inode of the regular file that is open, or 0
  kept,        \* history: the directories sys_open has not closed
  nodes        \* derived: the tree that the entries of fs make up

vars == <<fs, cwd, cwd_cache, dir, fd, kept, nodes>>

(* Why a behaviour ends: a bitmap is full, which fails bitmap_scan's       *)
(* ASSERT (full); another ASSERT fails (assert); sync_dir_entry gives the  *)
(* directory a new indirect table and drops the old one (orphan);          *)
(* delete_dir_entry counts indirect blocks forever (hang); the inode of a  *)
(* removed directory stays in open_inodes (stale); the cwd is removed      *)
(* (cwd); a path through a regular file removes that file (through).       *)
Bad == {"none", "full", "assert", "orphan", "hang", "stale", "cwd", "through"}

(* inode_init, and an inode that is not in open_inodes *)
NewInode == [size |-> 0, sect |-> [k \in 1 .. Direct + 1 |-> 0]]
Closed == [cnt |-> 0, size |-> 0, sect |-> [k \in 1 .. Direct + 1 |-> 0]]

(* create_dir_entry; FT_UNKNOWN marks a free slot *)
create_dir_entry(name, i, type) == [name |-> name, ino |-> i, type |-> type]
NoEntry == create_dir_entry("", 0, "unknown")
NoSector == [j \in 1 .. PerSec |-> NoEntry]

(* The first block of directory i: its own entry and its parent's.         *)
DotBlock(i, parent) ==
  [NoSector EXCEPT ![1] = create_dir_entry(".", i, "dir"),
                   ![2] = create_dir_entry("..", parent, "dir")]

(* &root_dir, which dir_close leaves alone; other handles are inode        *)
(* numbers.                                                                *)
RootDir == -1
NoDir == -2
DirIno(h) == IF h = RootDir THEN 0 ELSE h

NoStream == [h |-> NoDir, pos |-> 0, seen |-> {}, fresh |-> FALSE]

(* partition_format, mount_partition and open_root_dir *)
Init ==
  LET root == [NewInode EXCEPT !.size = 2, !.sect[1] = 1]
  IN  /\ fs = [inode |-> [i \in Ino |-> IF i = 0 THEN root ELSE NewInode],
               open  |-> [i \in Ino |->
                           IF i = 0 THEN [cnt |-> 1, size |-> 2, sect |-> root.sect]
                           ELSE Closed],
               blk   |-> [b \in Block |-> IF b = 1 THEN DotBlock(0, 0) ELSE NoSector],
               table |-> [b \in Block |-> 0],
               bmap  |-> {1}, imap |-> {0}, bad |-> "none"]
      /\ cwd = 0 /\ cwd_cache = <<>>
      /\ dir = NoStream /\ fd = 0
      /\ kept = [i \in Ino |-> 0] /\ nodes = {}

-----------------------------------------------------------------------------
(* Inodes.                                                                 *)

inode_open(f, i) ==
  [f EXCEPT !.open[i] = IF @.cnt > 0 THEN [@ EXCEPT !.cnt = @ + 1]
                        ELSE [cnt |-> 1, size |-> f.inode[i].size,
                              sect |-> f.inode[i].sect]]

inode_close(f, i) ==
  [f EXCEPT !.open[i] = IF @.cnt = 1 THEN Closed ELSE [@ EXCEPT !.cnt = @ - 1]]

dir_close(f, h) == IF h = RootDir THEN f ELSE inode_close(f, h)

inode_sync(f, i) ==
  [f EXCEPT !.inode[i] = [size |-> f.open[i].size, sect |-> f.open[i].sect]]

(* What a block holds when it is freed.  The code leaves it there; it is   *)
(* of no account, since a block is written before it is linked again, and  *)
(* so that states do not differ in it alone the model blanks it.           *)
Forget(blk, blocks) == [b \in Block |-> IF b \in blocks THEN NoSector ELSE blk[b]]

(* Blocks, number and inode of i are free again; its copy in memory goes   *)
(* when the last handle is closed.  (A regular file has no blocks here,    *)
(* and a directory that is removed has no table.)                          *)
inode_release(f, i) ==
  LET g == inode_open(f, i)
  IN  inode_close([g EXCEPT !.bmap = @ \ Range(g.open[i].sect),
                            !.blk = Forget(@, Range(g.open[i].sect)),
                            !.imap = @ \ {i},
                            !.inode[i] = NewInode], i)

-----------------------------------------------------------------------------
(* Directory entries.                                                      *)

(* all_blocks, with the one cell of the indirect table that is ever used.  *)
AllBlocks(f, nd) ==
  LET t == nd.sect[Direct + 1]
  IN  SubSeq(nd.sect, 1, Direct) \o (IF t = 0 THEN <<>> ELSE <<f.table[t]>>)

(* The entries a scan of these blocks meets, in its order.                 *)
Scan(f, all) ==
  LET Slot(n) == LET b == all[(n - 1) \div PerSec + 1]
                 IN  IF b = 0 THEN NoEntry ELSE f.blk[b][((n - 1) % PerSec) + 1]
  IN  SelectSeq([n \in 1 .. Len(all) * PerSec |-> Slot(n)], LAMBDA e : e.type # "unknown")

Entries(f, i) == Scan(f, AllBlocks(f, f.open[i]))

FirstEntry(s) == IF s = <<>> THEN NoEntry ELSE Head(s)

search_dir_entry(f, i, name) ==
  FirstEntry(SelectSeq(Entries(f, i), LAMBDA e : e.name = name))

(* The blocks with a free slot come before the first number that is 0:     *)
(* the scan takes whichever it meets first.  Only the direct blocks are    *)
(* collected, so index Direct always looks like a directory that has no    *)
(* table yet.                                                              *)
sync_dir_entry(f, i, e) ==
  LET sect == f.open[i].sect
      Slots(b) == {j \in 1 .. PerSec : f.blk[b][j].type = "unknown"}
      Fits == {k \in 1 .. Direct : sect[k] = 0 \/ Slots(sect[k]) # {}}
      k == Min(Fits)
      b == IF Fits = {} \/ sect[k] = 0 THEN Min(Block \ f.bmap) ELSE sect[k]
      c == Min(Block \ (f.bmap \cup {b}))
      Sector == [NoSector EXCEPT ![1] = e]
      Grown(g) == [g EXCEPT !.open[i].size = @ + 1]
  IN  IF Fits # {} /\ sect[k] # 0
      THEN Grown([f EXCEPT !.blk[b][Min(Slots(b))] = e])
      ELSE IF Cardinality(Block \ f.bmap) < (IF Fits = {} THEN 2 ELSE 1)
      THEN [f EXCEPT !.bad = "full"]
      ELSE IF Fits # {}
      THEN Grown([f EXCEPT !.bmap = @ \cup {b}, !.blk[b] = Sector,
                           !.open[i].sect[k] = b])
      ELSE IF sect[Direct + 1] # 0
      THEN [f EXCEPT !.bad = "orphan"]
      ELSE Grown([f EXCEPT !.bmap = @ \cup {b, c}, !.blk[c] = Sector,
                           !.table[b] = c, !.open[i].sect[Direct + 1] = b])

Live(e) == e.type # "unknown" /\ e.name \notin Dots

(* Faulty variant: a block is never reclaimed.                             *)
NeverSole(sector) == FALSE

(* Faulty variant: a block is reclaimed with one entry left in it.         *)
SoleOrTwo(sector) ==
  /\ Cardinality({j \in 1 .. PerSec : Live(sector[j])}) <= 2
  /\ \A j \in 1 .. PerSec : sector[j].name # "."

(* The entry to delete is the only one, and this is not the first block.   *)
Sole(sector) ==
  /\ Cardinality({j \in 1 .. PerSec : Live(sector[j])}) = 1
  /\ \A j \in 1 .. PerSec : sector[j].name # "."

delete_dir_entry(f, d, i) ==
  LET all == AllBlocks(f, f.open[d])
      Here(b) == {j \in 1 .. PerSec : Live(f.blk[b][j]) /\ f.blk[b][j].ino = i}
      k == Min({n \in DOMAIN all : all[n] # 0 /\ Here(all[n]) # {}})
      b == all[k]
      Shrunk(g) == inode_sync([g EXCEPT !.open[d].size = @ - 1], d)
  IN  IF \A n \in DOMAIN all : all[n] = 0 \/ Here(all[n]) = {} THEN f
      ELSE IF Cardinality(Here(b)) > 1 THEN [f EXCEPT !.bad = "assert"]
      ELSE IF ~Sole(f.blk[b])
      THEN Shrunk([f EXCEPT !.blk[b][Min(Here(b))] = NoEntry])
      ELSE IF k > Direct THEN [f EXCEPT !.bad = "hang"]
      ELSE Shrunk([f EXCEPT !.bmap = @ \ {b}, !.blk = Forget(@, {b}),
                            !.open[d].sect[k] = 0])

(* Faulty variant: the scan ends at a block that has been reclaimed.       *)
ReadToHole(f, i, pos) ==
  LET sect == SubSeq(f.open[i].sect, 1, Direct)
      Holes == {k \in DOMAIN sect : sect[k] = 0}
      found == Scan(f, SubSeq(sect, 1, IF Holes = {} THEN Direct ELSE Min(Holes) - 1))
  IN  IF pos >= f.open[i].size \/ pos >= Len(found) THEN NoEntry ELSE found[pos + 1]

(* The entry at position pos, or NoEntry at the end of the directory.      *)
dir_read(f, i, pos) ==
  IF pos >= f.open[i].size \/ pos >= Len(Entries(f, i)) THEN NoEntry
  ELSE Entries(f, i)[pos + 1]

dir_is_empty(f, i) == f.open[i].size = 2

dir_remove(f, parent, i) ==
  IF \E k \in 2 .. Direct + 1 : f.open[i].sect[k] # 0 THEN [f EXCEPT !.bad = "assert"]
  ELSE inode_release(delete_dir_entry(f, DirIno(parent), i), i)

-----------------------------------------------------------------------------
(* Path names.                                                             *)

(* One round of search_file's loop, which found entry e.  depth counts the *)
(* names that were searched (path_depth_cnt of searched_path).             *)
SearchStep(s, e) ==
  CASE e.type = "unknown" -> [s EXCEPT !.depth = @ + 1, !.done = TRUE, !.ret = -1]
    [] e.type = "file" -> [s EXCEPT !.depth = @ + 1, !.done = TRUE, !.ret = e.ino,
                                    !.type = "file"]
    [] e.type = "dir" -> [s EXCEPT !.depth = @ + 1, !.ret = e.ino,
                                   !.fs = inode_open(dir_close(@, s.parent), e.ino),
                                   !.parent = e.ino, !.above = DirIno(s.parent)]

RECURSIVE SearchLoop(_, _)
SearchLoop(s, path) ==
  IF s.done \/ path = <<>> THEN s
  ELSE SearchLoop(SearchStep(s, search_dir_entry(s.fs, DirIno(s.parent), Head(path))),
                  Tail(path))

(* Faulty variant: the last directory searched stays open.                 *)
ReopenKeeps(s) == inode_open(s.fs, s.above)

(* The whole path named directories: the last one is closed and the one    *)
(* above it opened.                                                        *)
Reopen(s) == inode_open(dir_close(s.fs, s.parent), s.above)

SearchStart(f) == [fs |-> f, parent |-> RootDir, above |-> 0, ret |-> 0,
                   type |-> "unknown", depth |-> 0, done |-> FALSE]

SearchEnd(s) ==
  IF s.done THEN s ELSE [s EXCEPT !.fs = Reopen(s), !.parent = s.above, !.type = "dir"]

(* search_file: the inode number or -1, and a handle on the parent, which  *)
(* the caller has to close.                                                *)
search_file(f, path) ==
  IF path \in {<<>>, <<".">>, <<"..">>} THEN [SearchStart(f) EXCEPT !.type = "dir"]
  ELSE SearchEnd(SearchLoop(SearchStart(f), path))

RECURSIVE getcwd(_, _)
(* sys_getcwd of directory i, by the ".." entries and get_child_dir_name.  *)
getcwd(f, i) ==
  LET up == f.blk[inode_open(f, i).open[i].sect[1]][2].ino
      child == FirstEntry(SelectSeq(Entries(inode_open(f, up), up),
                                    LAMBDA e : e.ino = i))
  IN  IF i = 0 THEN <<>> ELSE Append(getcwd(f, up), child.name)

(* Faulty variant: ".." is dropped like ".".                               *)
DropDots(path, word) == IF word \in Dots THEN path ELSE Append(path, word)

wash_word(path, word) ==
  CASE word = ".." -> IF path = <<>> THEN path ELSE Front(path)
    [] word = "." -> path
    [] OTHER -> Append(path, word)

RECURSIVE wash_path(_)
wash_path(words) ==
  IF words = <<>> THEN <<>> ELSE wash_word(wash_path(Front(words)), Last(words))

make_clear_abs_path(arg) ==
  wash_path((IF arg.abs THEN <<>> ELSE getcwd(fs, cwd)) \o arg.words)

-----------------------------------------------------------------------------
(* System calls: the file system after the call and what it returns.       *)

Result(f, ret) == [fs |-> f, ret |-> ret]

(* The lowest free number, when there is one.                              *)
inode_bitmap_alloc(f) == Min(Ino \ f.imap)

(* The entry of a new object goes into the parent, whose inode is written. *)
Install(f, parent, e) ==
  inode_sync(sync_dir_entry(f, DirIno(parent), e), DirIno(parent))

sys_mkdir(f, path) ==
  LET s == search_file(f, path)
      i == inode_bitmap_alloc(s.fs)
      b == Min(Block \ s.fs.bmap)
      nd == [NewInode EXCEPT !.size = 2, !.sect[1] = b]
      g == [s.fs EXCEPT !.imap = @ \cup {i}, !.bmap = @ \cup {b},
                        !.blk[b] = DotBlock(i, DirIno(s.parent))]
      h == Install(g, s.parent, create_dir_entry(Last(path), i, "dir"))
  IN  IF s.ret # -1 \/ s.depth # Len(path) THEN Result(dir_close(s.fs, s.parent), -1)
      ELSE IF s.fs.imap = Ino \/ s.fs.bmap = Block
      THEN Result([f EXCEPT !.bad = "full"], -1)
      ELSE Result(dir_close([h EXCEPT !.inode[i] = nd], s.parent), 0)

(* The parent of a file that existed is not closed.                        *)
sys_open(f, path, creat) ==
  LET s == search_file(f, path)
      i == inode_bitmap_alloc(s.fs)
      h == Install([s.fs EXCEPT !.imap = @ \cup {i}], s.parent,
                   create_dir_entry(Last(path), i, "file"))
      Refused == Result(dir_close(s.fs, s.parent), -1)
  IN  IF s.type = "dir" \/ s.depth # Len(path) \/ creat = (s.ret # -1) THEN Refused
      ELSE IF ~creat THEN Result(inode_open(s.fs, s.ret), s.ret)
      ELSE IF s.fs.imap = Ino THEN Result([f EXCEPT !.bad = "full"], -1)
      ELSE Result(dir_close([h EXCEPT !.inode[i] = NewInode,
                                      !.open[i] = [Closed EXCEPT !.cnt = 1]], s.parent), i)

sys_unlink(f, path) ==
  LET s == search_file(f, path)
      g == inode_release(delete_dir_entry(s.fs, DirIno(s.parent), s.ret), s.ret)
  IN  IF s.ret = -1 \/ s.type = "dir" \/ s.ret = fd
      THEN Result(dir_close(s.fs, s.parent), -1)
      ELSE Result(dir_close(IF s.depth = Len(path) THEN g ELSE [g EXCEPT !.bad = "through"],
                            s.parent), 0)

sys_rmdir(f, path) ==
  LET s == search_file(f, path)
      g == inode_open(s.fs, s.ret)
      h == inode_close(dir_remove(g, s.parent, s.ret), s.ret)
      why == CASE h.bad # "none" -> h.bad
               [] h.open[s.ret].cnt > 0 -> "stale"
               [] s.ret = cwd -> "cwd"
               [] OTHER -> "none"
  IN  IF s.type # "dir" \/ s.ret = -1 THEN Result(dir_close(s.fs, s.parent), -1)
      ELSE IF ~dir_is_empty(g, s.ret)
      THEN Result(dir_close(inode_close(g, s.ret), s.parent), -1)
      ELSE Result(dir_close([h EXCEPT !.bad = why], s.parent), 0)

(* The handle of a directory, or NoDir.                                    *)
sys_opendir(f, path) ==
  LET s == search_file(f, path)
  IN  IF path = <<>> THEN Result(f, RootDir)
      ELSE IF s.type # "dir" THEN Result(dir_close(s.fs, s.parent), NoDir)
      ELSE Result(dir_close(inode_open(s.fs, s.ret), s.parent), s.ret)

(* The type of the object, or "unknown".  A path through a regular file    *)
(* gets that file's.                                                       *)
sys_stat(f, path) ==
  LET s == search_file(f, path)
      g == inode_close(inode_open(s.fs, s.ret), s.ret)
  IN  IF path = <<>> THEN Result(f, "dir")
      ELSE IF s.ret = -1 THEN Result(dir_close(s.fs, s.parent), "unknown")
      ELSE Result(dir_close(g, s.parent), s.type)

sys_chdir(f, path) ==
  LET s == search_file(f, path)
  IN  Result(dir_close(s.fs, s.parent), IF s.type = "dir" THEN s.ret ELSE -1)

-----------------------------------------------------------------------------
(* The tree that the entries on the disk make up, below directory i.       *)
RECURSIVE Below(_, _, _)
Below(f, i, path) ==
  LET Children == {e \in Range(Entries(inode_open(f, i), i)) : Live(e)}
  IN  UNION {{[path |-> Append(path, e.name), ino |-> e.ino, type |-> e.type]} \cup
             (IF e.type = "dir" /\ Len(path) < MaxDepth
              THEN Below(f, e.ino, Append(path, e.name)) ELSE {}) : e \in Children}

-----------------------------------------------------------------------------
(* Actions.                                                                *)

Going == fs.bad = "none"

(* The handles that are open beside root_dir.                              *)
Handles == SumFunction(kept) + Cardinality({h \in {fd} : h # 0})
           + Cardinality({h \in {dir.h} : h # NoDir})

(* The file system a call leaves.  A call that ends the behaviour halfway  *)
(* is not shown halfway.                                                   *)
Commit(f) ==
  /\ fs' = IF f.bad \in {"full", "assert", "orphan", "hang"}
           THEN [fs EXCEPT !.bad = f.bad] ELSE f
  /\ nodes' = IF fs' = fs THEN nodes ELSE Below(fs', 0, <<>>)
  /\ dir' = IF dir.fresh => Entries(f, DirIno(dir.h)) = Entries(fs, DirIno(dir.h))
            THEN dir ELSE [dir EXCEPT !.fresh = FALSE, !.seen = {}]

(* The paths that are modelled: within the bound, and not "/", which the   *)
(* commands refuse.                                                        *)
InBound(path) == path # <<>> /\ Len(path) <= MaxDepth

buildin_mkdir(arg) ==
  /\ Going
  /\ \E path \in {make_clear_abs_path(arg)} :
       InBound(path) /\ Commit(sys_mkdir(fs, path).fs)
  /\ UNCHANGED <<cwd, cwd_cache, fd, kept>>

buildin_rmdir(arg) ==
  /\ Going
  /\ \E path \in {make_clear_abs_path(arg)} :
       InBound(path) /\ Commit(sys_rmdir(fs, path).fs)
  /\ UNCHANGED <<cwd, cwd_cache, fd, kept>>

buildin_rm(arg) ==
  /\ Going
  /\ \E path \in {make_clear_abs_path(arg)} :
       InBound(path) /\ Commit(sys_unlink(fs, path).fs)
  /\ UNCHANGED <<cwd, cwd_cache, fd, kept>>

(* cd: the prompt shows the path that was given to chdir.                  *)
buildin_cd(arg) ==
  /\ Going
  /\ \E path \in {make_clear_abs_path(arg)} : \E r \in {sys_chdir(fs, path)} :
       /\ Len(path) <= MaxDepth
       /\ fs' = r.fs
       /\ IF r.ret = -1 THEN UNCHANGED <<cwd, cwd_cache>>
          ELSE cwd' = r.ret /\ cwd_cache' = path
  /\ UNCHANGED <<dir, fd, kept, nodes>>

(* A program creates a file, or opens one that exists.                     *)
Open(arg, creat) ==
  /\ Going /\ fd = 0 /\ Handles < MaxHandles
  /\ \E path \in {make_clear_abs_path(arg)} : \E r \in {sys_open(fs, path, creat)} :
       LET left == search_file(fs, path).parent
       IN  /\ InBound(path)
           /\ Commit(r.fs)
           /\ fd' = IF r.fs.bad = "none" /\ r.ret # -1 THEN r.ret ELSE 0
           /\ kept' = IF ~creat /\ r.ret # -1 /\ left # RootDir
                         THEN [kept EXCEPT ![left] = @ + 1] ELSE kept
  /\ UNCHANGED <<cwd, cwd_cache>>

Close ==
  /\ Going /\ fd # 0
  /\ fs' = inode_close(fs, fd) /\ fd' = 0
  /\ UNCHANGED <<cwd, cwd_cache, dir, kept, nodes>>

(* stat, opendir and rewinddir, as ls calls them: the stream on "/" is     *)
(* root_dir itself, which all processes share and one of them may have     *)
(* left anywhere.                                                          *)
buildin_ls(arg) ==
  /\ Going /\ dir.h = NoDir /\ Handles < MaxHandles
  /\ \E path \in {make_clear_abs_path(arg)} : \E st \in {sys_stat(fs, path)} :
       /\ Len(path) <= MaxDepth
       /\ IF st.ret # "dir" THEN fs' = st.fs /\ UNCHANGED dir
          ELSE \E r \in {sys_opendir(st.fs, path)} :
                 /\ fs' = r.fs
                 /\ dir' = [h |-> r.ret, pos |-> 0, seen |-> {}, fresh |-> TRUE]
  /\ UNCHANGED <<cwd, cwd_cache, fd, kept, nodes>>

Readdir ==
  LET e == dir_read(fs, DirIno(dir.h), dir.pos)
  IN  /\ Going /\ dir.h # NoDir
      /\ e # NoEntry
      /\ dir' = [dir EXCEPT !.pos = @ + 1, !.seen = IF dir.fresh THEN @ \cup {e.name} ELSE {}]
      /\ UNCHANGED <<fs, cwd, cwd_cache, fd, kept, nodes>>

Rewinddir ==
  /\ Going /\ dir.h # NoDir
  /\ dir' = [dir EXCEPT !.pos = 0, !.seen = {}, !.fresh = TRUE]
  /\ UNCHANGED <<fs, cwd, cwd_cache, fd, kept, nodes>>

Closedir ==
  /\ Going /\ dir.h # NoDir
  /\ fs' = dir_close(fs, dir.h)
  /\ dir' = NoStream
  /\ UNCHANGED <<cwd, cwd_cache, fd, kept, nodes>>

Next ==
  \/ \E arg \in Arg :
       \/ buildin_mkdir(arg) \/ buildin_rmdir(arg) \/ buildin_rm(arg) \/ buildin_cd(arg)
       \/ buildin_ls(arg)
       \/ \E creat \in BOOLEAN : Open(arg, creat)
  \/ Close \/ Readdir \/ Rewinddir \/ Closedir

Spec == Init /\ [][Next]_vars

-----------------------------------------------------------------------------
TypeOK ==
  /\ fs.bad \in Bad /\ fs.imap \subseteq Ino /\ fs.bmap \subseteq Block
  /\ \A i \in Ino : /\ fs.open[i].cnt \in Nat /\ fs.open[i].size \in Nat
                     /\ Range(fs.open[i].sect) \cup Range(fs.inode[i].sect) \subseteq Block \cup {0}
  /\ cwd \in Ino /\ fd \in Ino /\ dir.h \in Ino \cup {RootDir, NoDir}
  /\ dir.pos \in 0 .. 2 + NInodes

(* The blocks a directory's inode names, the table and its block included. *)
BlocksOf(i) ==
  LET g == inode_open(fs, i)
  IN  (Range(AllBlocks(g, g.open[i])) \cup {g.open[i].sect[Direct + 1]}) \ {0}

(* Entries, inodes and bitmaps agree after every call: no name and no      *)
(* inode occurs twice, used numbers and blocks are exactly those of the    *)
(* tree and no block has two owners, i_size counts a directory's entries   *)
(* and its first two are "." and "..", an inode in memory equals the one   *)
(* on the disk, and i_open_cnts counts the handles: no call leaks one but  *)
(* the one of sys_open.  No ASSERT of dir.c fails.                         *)
TreeOK ==
  LET dirs == {[path |-> <<>>, ino |-> 0, type |-> "dir"]} \cup
              {n \in nodes : n.type = "dir"}
      Parent(n) == IF n.path = <<>> THEN 0
                   ELSE (CHOOSE d \in dirs : d.path = Front(n.path)).ino
      Uses(i) == Cardinality({h \in {0} : i = 0} \cup {h \in {1} : dir.h = i}
                             \cup {h \in {2} : i # 0 /\ fd = i}) + kept[i]
  IN  /\ TypeOK
      /\ fs.bad # "assert"
      /\ Going =>
           /\ \A m, n \in nodes : m # n => m.ino # n.ino /\ m.path # n.path
           /\ fs.imap = {0} \cup {n.ino : n \in nodes}
           /\ fs.bmap = UNION {BlocksOf(d.ino) : d \in dirs}
           /\ \A d, e \in dirs : d # e => BlocksOf(d.ino) \cap BlocksOf(e.ino) = {}
           /\ \A d \in dirs :
                LET entries == Entries(inode_open(fs, d.ino), d.ino)
                IN  /\ fs.inode[d.ino].size = Len(entries)
                    /\ SubSeq(entries, 1, 2) =
                         <<create_dir_entry(".", d.ino, "dir"),
                           create_dir_entry("..", Parent(d), "dir")>>
           /\ \A i \in Ino :
                /\ fs.open[i].cnt = Uses(i)
                /\ fs.open[i].cnt > 0 =>
                     fs.inode[i] = [size |-> fs.open[i].size, sect |-> fs.open[i].sect]

(* search_file tells the four cases apart that its callers ask about: the  *)
(* path is there, only its last name is missing, a directory on the way is *)
(* missing, a file is in the way.  And once the caller has closed the      *)
(* parent, everything is as it was.                                        *)
SearchRight ==
  LET Dir(p) == p = <<>> \/ \E n \in nodes : n.path = p /\ n.type = "dir"
      File(p) == \E n \in nodes : n.path = p /\ n.type = "file"
  IN  Going => \A p \in Path :
        LET s == search_file(fs, p)
            there == \E n \in nodes : n.path = p /\ n.ino = s.ret
        IN  /\ dir_close(s.fs, s.parent) = fs
            /\ (s.type = "dir") <=> Dir(p)
            /\ (s.type = "file" /\ s.depth = Len(p)) <=> File(p)
            /\ Dir(p) \/ File(p) => (p = <<>> /\ s.ret = 0) \/ there
            /\ (s.ret = -1 /\ s.depth = Len(p)) <=>
                 p # <<>> /\ Dir(Front(p)) /\ ~Dir(p) /\ ~File(p)
            /\ (s.type = "file" /\ s.depth < Len(p)) <=>
                 \E k \in 1 .. Len(p) - 1 : File(SubSeq(p, 1, k))

(* The prompt, getcwd and the inode of the cwd mean the same directory,    *)
(* and a path that search_file can follow through "." and ".." entries     *)
(* leads where wash_path's shortened path leads.                           *)
CwdRoundTrip ==
  Going =>
    /\ getcwd(fs, cwd) = cwd_cache
    /\ search_file(fs, cwd_cache).ret = cwd
    /\ \A arg \in Arg :
         LET raw == (IF arg.abs THEN <<>> ELSE getcwd(fs, cwd)) \o arg.words
             s == search_file(fs, raw)
         IN  s.ret # -1 /\ (s.type = "dir" \/ s.depth = Len(raw)) =>
               search_file(fs, make_clear_abs_path(arg)).ret = s.ret

(* A directory that does not change while it is read gives every entry     *)
(* once, and readdir ends with the last one, wherever deleted entries and  *)
(* reclaimed blocks have left holes.                                       *)
ReaddirComplete ==
  Going /\ dir.fresh =>
    LET i == DirIno(dir.h)
        names == {"."} \cup {".."} \cup
                 {Last(n.path) : n \in {m \in nodes : Front(m.path) = getcwd(fs, i)}}
    IN  /\ Cardinality(dir.seen) = dir.pos
        /\ dir.seen \subseteq names
        /\ dir_read(fs, i, dir.pos) = NoEntry <=> dir.seen = names

Tree == {[path |-> n.path, type |-> n.type] : n \in nodes}

N == INSTANCE Namespace WITH tree <- Tree

(* Every call adds or removes at most one name, under the rules of module  *)
(* Namespace.                                                              *)
ImplementsNamespace == N!Spec
==============================================================================
