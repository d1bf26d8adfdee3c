# ukernel in TLA+

ukernel is a small 32-bit x86 teaching kernel: preemptive threads, semaphores
and locks, an interrupt-driven keyboard and IDE driver, a block file system,
user processes with fork, exec, wait and exit, pipes and a shell.  This
directory holds TLA+ models of its core, the TLC runs that check them and TLAPS
proofs, for every size of the system, of the safety properties of locks, queues,
pipes, the IDE channel, processes, open files, what files have on the disk,
lists, bitmaps and the keyboard's decoder.  Source paths below are relative to
`src/`.

All source files are in one directory; `sync.c:26` means line 26 of that file.

## 1. The system

### How it executes

One CPU.  A *task* is a page holding a `struct task_struct` (PCB) and a kernel
stack.  Three kinds run:

* `main`, the boot thread, runs kernel code with interrupts enabled until it
  calls `thread_exit`;
* `idle` blocks itself and, when `schedule` finds no ready task, is unblocked
  to execute `sti; hlt`;
* processes run in user mode and enter the kernel through `int 0x80`.  The gate
  is an *interrupt gate*: the whole system call runs with IF = 0, and another
  task runs only where the call blocks (`thread_block`, `sema_down`) or yields
  (`msleep`).

So the points where tasks interleave are: anywhere in user mode and in `main`
(timer interrupt), and at the sleeping points of system calls.  The models put
action boundaries exactly there.

### Inventory

| Component | State | Operations | Interacts with | What makes it correct |
|---|---|---|---|---|
| Scheduler (`thread.c`, `timer.c`) | current task, `thread_ready_list`, status and ticks of each PCB | `schedule`, `thread_block`, `thread_unblock`, `thread_yield`, timer handler, `idle` | everyone | no ASSERT fires; a task is on the ready list iff READY, once; somebody always runs |
| Semaphores, locks (`sync.c`) | value, waiters, holder, repeat count | `sema_down/up`, `lock_acquire/release` | scheduler, ready list (same `general_tag`) | mutual exclusion, no lost wake-up, recursion, progress |
| I/O queue (`ioqueue.c`) | ring, lock, consumer, producer | `ioq_getchar`, `ioq_putchar` | keyboard interrupt, pipes, locks | FIFO, nobody sleeps for ever beside data |
| Keyboard (`keyboard.c`) | modifier flags, `ext_scancode` | interrupt handler | I/O queue | characters as typed |
| IDE (`ide.c`) | channel lock, `expecting_intr`, `disk_done` | `ide_read`, `ide_write`, `intr_hd_handler`, `busy_wait` | locks, timer, drive | own data, whole range, no lost interrupt |
| Processes (`fork.c`, `wait_exit.c`, `thread.c`) | PCB fields, `thread_all_list`, pid pool | fork, wait, exit, adoption by init | scheduler, memory, files | pids and PCBs exact, waiters woken |
| Memory (`memory.c`, `bitmap.c`) | frame pools, virtual bitmaps, page tables, arenas, free lists | `sys_malloc`, `sys_free`, page allocation | fork, exit | frames and blocks exact |
| Lists (`list.c`) | links | push, append, pop, remove, find | all of the above | both directions agree, a tag on one list |
| File table (`file.c`, `inode.c`, `fs.c`, `pipe.c`) | `file_table`, `fd_table`, `open_inodes`, counts, `write_deny` | open, create, close, unlink, pipe, redirect, fork, exit | disk (sleeps), memory, processes | nothing freed while in use, counts exact |
| File contents (`file.c`, `inode.c`) | block map, both bitmaps and the inode, in memory and on the disk | read, write, seek, inode_sync, inode_release | disk (sleeps) | what is read is what was written, no block has two owners, the disk follows memory |
| Directories and paths (`dir.c`, `fs.c`) | entries in directory blocks, open counts, cwd | search_file, create/delete entry, mkdir, rmdir, open, unlink, opendir, readdir, chdir, getcwd | inodes, bitmaps | a tree of unique names, no handle leaked, paths mean one thing |
| Shell commands (`buildin_cmd.c`, `shell.c`) | `cwd_cache` | cd, ls, mkdir, rmdir, rm, wash_path | the calls above | the prompt is the cwd |
| exec, process start, TSS, syscall table, console, the rest of the shell, boot | | | | |

The hard behaviours are preemption inside the lock code, wake-ups that race
with going to sleep, tests made before a sleep and used after it (open, unlink,
`ioq_getchar`), fork copying structures that hold pointers, exit order of
parents and children, the edges of ring, bitmap and sector counts, sectors that
are read, changed and written back with a sleep in between, several structures
on the disk that one call updates one after the other, and directories full of
holes.  `PROJECT.json` lists the hazards line by line; those that only restate
a disagreement of section 5 are named there.

## 2. Modules

| Module | Models | Notes |
|---|---|---|
| `Thread` | scheduler | operators on a record `[cur, ready, status, ticks, panic]`; `SchedOK` is its invariant |
| `Mutex`, `Sync`, `MCSync` | locks under preemption | `Sync` refines `Mutex` |
| `SyscallLock` | the same lock where each call is atomic | used by `KbdQueue`, `Pipe`, `Ide` |
| `Fifo`, `Ioqueue` | abstract queue; the ring | |
| `KbdQueue`, `Pipe` | the two users of the ring | both refine `Fifo` |
| `KeyDecode` | the scan code state machine | keyboard and user are external |
| `Ide` | one channel, its interrupt and drive | drive is external |
| `Process` | fork, wait, exit, pids | |
| `FileTable` | open files, inodes, pipes' entries | |
| `FileBlocks` | contents of files, bitmaps and inodes in memory and on the disk | two processes, a step per disk operation |
| `Namespace`, `Directory` | directories, paths, the shell's commands on them | `Directory` refines `Namespace`; a step per system call |
| `Memory` | user heap, frames, fork, exit | |
| `List` | `list.c` on its pointers | |
| `Bitmap` | `bitmap_scan`, `bitmap_set` and their allocators | |
| `ThreadProofs` | lemmas every proof about threads uses | scheduler, `SyscallLock`, ring, sleeping for a queue |
| `SyncProofs`, `ProcessProofs`, `KbdQueueProofs`, `PipeProofs`, `IdeProofs` | theorems about the module of that name, in `KbdQueueProofs` also about `KeyDecode` | all extend `ThreadProofs` |
| `FileTableProofs` | theorems about `FileTable` | |
| `StructureProofs` | theorems about `List`, `Bitmap`, `Memory` and `FileBlocks` | four parts that share nothing |
| `MC...` | instances for TLC | `MCStructures` explores `List`, `Bitmap` and `KeyDecode`, which share nothing, one at a time |

A definition with the name of a C function models that function; other names
are pieces of one (PROJECT.json, `map`).  "Faulty variant" marks an operator
that is part of no specification: it is the wrong code that the corresponding
property rejects.

### Thread

`sched.panic` becomes TRUE when an `ASSERT` or `PANIC` fires; everything stops
then.  `schedule` is split as in the code: `requeue` (a RUNNING task goes back
with fresh ticks), `wake_idle` (empty ready list), `dispatch`.  A tick uses up
one unit of the slice or schedules.  `general_tag` is one link field, so a task
in two lists is a corruption: `TagInOneList` in `Sync` is about that.

### Sync

`pc` marks the steps between which the timer can come.  A process has `intr` =
FALSE from `SyscallEnter` to `SyscallExit`; `main` keeps it TRUE except in
`sema_down`/`sema_up`.  `lock_acquire` is the five steps `LockAcquire` (the test
of holder), `SemaDownEnter`, `SemaDownBlock` (queue and sleep, repeated after
each wake-up) or `SemaDownTake`, `SetHolder`, `SetRepeat`; `lock_release` is
`LastRelease`/`NestedRelease`, `ClearHolder`, `ClearRepeat`, `SemaUp`.  Inside a
lock a task may yield (`busy_wait`) or sleep until a handler wakes it
(`ioq_wait`), as its users do; `DeviceIntr` is what wakes it, and it need never
come.  Bound: `MaxRepeat`.

### KbdQueue and Pipe

`ioq_getchar` in a system call, `ioq_putchar` in the keyboard interrupt; for a
pipe both in system calls, a character per step.  The consumer/producer field,
the queue's lock and the order "test, take lock, sleep, release lock" are as in
the code.  `pipe_read` cuts the size to what the ring holds.  `callers` is a
history variable: who ever called; the properties of a lone reader or writer
use it.  Bounds: `bufsize`, `MaxCount` characters per call.

### Ide

A request is cut into commands of at most `MaxOp` (256) sectors; the register
takes the count modulo 256 with 0 for 256 (`byte_count`).  `busy_wait` polls at
most `PollLimit` times with a nap that needs the timer to tick.  The drive
(external) becomes ready or stores data in its own time and raises its line,
which the PIC holds.

### Process

A PCB page is a member of `Task`; a page not on `thread_all_list` is free and
may be reused by the next fork, and so may its pid (lowest free).  `sys_wait`
loops: reap a zombie, return if there are no children, else sleep.  `sys_exit`
adopts the children out to init, wakes a waiting parent, and hangs.  `Sleeper`
bounds which processes also sleep in other calls, so that a parent can be
blocked for another reason when its child exits.  `maker` is history.

`ForkFails` is a fork that gets no kernel page after the child's PCB page: it
returns -1, nothing is undone, and `lost` collects the page, with its pid if
`fork_pid` came first.  So every failed fork shrinks the pools for good (section
5), and `ParentIsReal` counts what is lost too.  In a build with ASSERT a request
for one page never returns NULL (`bitmap_scan` fails its ASSERT first); the 23
pages of the bitmap can.  `Memory` and `FileTable` have no failing fork: it comes
before the first user frame is taken and before inodes are counted.

### FileTable

Calls are atomic except where they read or write the disk: `sys_open` sleeps in
`inode_open` (`InodeRead` is the rest), `file_create` in `sync_dir_entry`
(`EntryWritten` or `CreateRollback`, then `CreateDone`), `sys_unlink` in
`delete_dir_entry` and `inode_release`.  `busy[p]` holds the locals.  Counters
are modulo `CntMod`, kept off the wrap-around by `RoomToCount`.  `fault` marks
an access through a null or wild pointer and ends the behaviour.  `lost` and
`apart` are history.  Bounds: files, inodes in memory, `MaxPipes`, and which
standard descriptors are redirected (`Std`).

### FileBlocks

A system call gives up the CPU only inside `ide_read` and `ide_write`, so a call
is a sequence of disk operations; `call[p]` names the one process p waits for
and holds its locals, and an action is the effect of that operation with all the
code up to the next one.  `file_write` is `file_write`, `BitSynced` (once per
block), `GetTable`, `PutTable`, `WriteChunk`, `SectorRead`, `SectorWritten`;
`inode_sync` and `inode_delete` are the last two, a read-modify-write of the
sector, or the two sectors, in which the inode lies (`inode_locate`, from
`InodeSize` and `SectorSize`) beside other inodes.  An inode that changed on the
disk meanwhile is taken as overwritten even if only a part of it lies in these
sectors.  `file_read`, `file_create`, `file_open`, `sys_unlink` and
`inode_release` are cut the same way.  `ram` and `disk` keep both copies of
bitmaps and inodes.  A program writes the bytes of a file in order and numbers
them (`Byte`), so that a byte in the wrong place shows. `fd_pos` wraps at
`PosMod` and the number that `inode_sync` uses at `InoMod`.

The code does lose data in some interleavings (section 5).  A behaviour ends
there: `mishap` tells which it was and the invariants describe all states
before. `full`, `assert`, `sector`, `buffer`, `number`, `table`, `copies`,
`unlinked` and `twice` are reached in the run; `cut` needs an inode number from
`InoMod` on, which the two files of the run do not have, and is there for the
theorems.  After the second sector is read behind `file_write`'s buffer
(`buffer`) the behaviour may also go on, since what lies there may be unused. A
transfer is one step, also one of two sectors.  `BlocksExact` also says on which
calls the `assert` can happen.  The root directory is one sector of entries
here, and nobody opens a file for writing that another process writes: that is
`FileTable`'s subject.  Bounds: the counts written and read, the positions
sought, `MaxCreates`.  (`ram`, `BlocksInit`, `BlocksSpec` and the like have
names of their own so that one module of proofs can extend this module and
others.)

### Directory

A system call is an operator from a file system record to a record and a return
value, an action is a command of the shell or a call of a program.  `fs` keeps
inodes on the disk (`inode`) and in `open_inodes` (`open`, with the count),
directory blocks with their slots, indirect tables and the bitmaps.  Handles are
inode numbers, or `RootDir` for the address of `root_dir`, which `dir_close`
leaves alone; a stream on "/" is that object, shared by everybody, which is why
`ls` rewinds what it opens.  `search_file` follows the code's loop, with the
depth its callers compare.  `getcwd` climbs the ".." entries; `wash_path` works
on the words of the path.  A path is a sequence of names, so slashes and name
lengths are left out.

`kept` is history: handles that `sys_open` leaves open.  `nodes` is derived from
`fs` by `Below` and stored so that properties need not compute it again.  A freed
block's contents are blanked (`Forget`): they are never read again before they
are written, and states would differ in nothing else.  `dir.seen` collects what
`readdir` returned since the directory was last opened, rewound or changed.

`fs.bad` ends a behaviour, for the reasons of section 5.  In the run `full`,
`hang`, `stale`, `cwd` and `through` are reached; that `assert` is not is part
of `TreeOK`; `orphan` needs a directory that grows past its first indirect block
twice, more entries than the bound allows.  Bounds: the paths typed (`Arg`),
their depth, `MaxHandles`: a program that holds that many handles, those
`sys_open` has kept included, opens no other.

### Memory

Links of free lists are read and written through the page table of the running
process; only the list heads, in the PCB, are at the same address for all. This
is why an address is resolved by `Link`/`SetLink` with the process as argument
and links live in frames.  (`ListAppend`, `ListRemove`, `ListEmpty` and
`ListFind` are `list_append`, `list_remove`, `list_empty` and `elem_find` on
these addresses; the C names belong to `List`.)  `bad` records a failed ASSERT,
a stray access (to an unmapped page, or through a null `a->desc`) or an
exhausted pool.  The loops over pages and blocks are recursive functions of the
round.  `owned` is what the program was given; programs free only that.  Kernel
pages are left out: PCBs, page tables, fork's buffer and the bitmaps of the
processes, of which exit frees a page less than fork took (section 5).  Bounds:
pages, frames, classes and their `blocks_per_arena`. `ForkWithArenas` says
whether programs fork while they hold small blocks.

### List, Bitmap, KeyDecode

`List` keeps the pointers and, as a ghost, the sequence each list should be;
the loops (`list_len`, `elem_find`) are walks along the pointers.  `Bitmap` has
bytes of a few bits so that runs cross bytes, and one bit after the end since
the scan reads it.  `KeyDecode` has the bytes on the wire between the keyboard
and the handler, so keys can be pressed before earlier bytes are handled.  A
key's make code is below 128 and its break code, 128 more, is not the prefix
0xe0 (`KeyAssumption`); 0xe0 0x3a is not caps lock.  Of `kbd_buf` it has the
number of characters (`queued`, at most `BufChars`): the handler drops the
character that finds it full, a reader takes one at any time (`CharTaken`).

## 3. Runs

"Sizes" are distinct states.  Each module's `TypeOK` is checked as a conjunct of
an invariant of its run (`IInv`, `SchedulerOK`, `ListInv`, `NoStuckModifier`,
`InodeHeld`, `HeapExact`, `BlocksExact`, `TreeOK`, ...).

| Run | Instance | Sizes | Shows |
|---|---|---|---|
| `sync` | main, 2 processes, idle; 1 lock; recursion 2; slices of 0 and 1 tick | 12 000 | exclusion, no lost wake-up, refinement of `Mutex`, `LockProgress`, and `IInv`, which includes that no ASSERT fails |
| `kbd_queue` | 2 readers, ring of 3, 2 characters | 16 000 | FIFO, wake-up, a lone reader sleeps only without data and its read returns |
| `pipe` | readers and writers, ring of 3 | 13 000 | FIFO, reads never sleep, writers are woken and resume |
| `ide` | main and a process, read and write, up to 3 sectors in chunks of 2 | 95 000 | own data, whole range, no lost interrupt, reads complete |
| `process` | boot tasks and 2 PCBs, 2 exit values | 8 100 | scheduler consistent, parents real, pids exact although forks fail, waiters woken, `WaitReturns` |
| `structures` | 2 lists, 3 elements; 9 bits in 3 bytes, runs up to 4; one key per modifier, 3 characters, an unknown key, 3 down, 3 bytes on the wire, room for 1 in `kbd_buf` | 196 000 | links = sequences, loops agree; first fit; no stuck modifier, characters as typed |
| `file_table` | 2 processes, 1 file, 2 slots, 2 descriptors, 2 inodes | 1 130 000 | inodes held, counts of inodes and pipes exact |
| `file_blocks` | 2 processes, 2 names, 2 inodes of 2 bytes in sectors of 3, so that inode 1 crosses two, blocks of 2 bytes, 1 direct and 3 indirect, 6 blocks in bitmap sectors of 4 bits; writes of 0 and 3 bytes | 1 905 000 | blocks exact, bytes as written, disk up to date after each call, disk usable after a power failure between any two transfers |
| `directory` | 3 names, 4 inodes, 5 blocks of 2 entries, 2 direct blocks, depth 2; paths `/`, `/n1`, `/n2`, `/n3`, `/n1/n1`, `..`, `.././n1`; one handle | 102 000 | tree, bitmaps and open counts agree, search right, cwd and prompt agree, readdir complete, refinement of `Namespace` |
| `memory` | a process and its child, 3 pages each, 4 frames, arenas of 2 blocks, large blocks of 2 pages | 408 000 | frames exact, heap exact, ASSERTs hold |
| `file_writers` | 2 processes, reader and writer flags | | violation of `OneWriter` |
| `memory_shared` | fork with small blocks in use | | violation of `AssertsHold` |

Why the bounds are enough to be interesting.  Three contenders are the least
with which a woken waiter, a newcomer and an owner meet; a ring of 3 holds two
characters, so it is full, empty and wrapped within a call; 3 sectors in chunks
of 2 give a full and a partial command; two processes beside init give children
of one parent, a grandchild and its adoption, and reuse of a freed PCB and pid.
Two slots and two descriptors are both exhausted in `file_table`; 4 frames
cannot back the 6 pages of two processes, so the pool is too.  In
`file_blocks` writes of 3 bytes to blocks of 2 end inside a block and on its
edge, the second one moves the file into its indirect table, the third fills it,
and two files use up the 6 blocks, so blocks are freed and taken again; the bits
of one file lie in two sectors of the bitmap.  In `directory` the root holds
".", ".." and three names in blocks of two entries, so its second block and its
indirect table come and go; both levels, 4 inodes and 5 blocks get full.

Deadlock is checked except in `ide` (a drive that never becomes ready ends in a
PANIC), `structures`, `file_table`, `file_blocks`, `directory`, `memory` and the
two violations, whose models stop at a panic, at a mishap or at a bound.  Names
n2 and n3 of `directory` are interchangeable (symmetry), as are the processes of
`file_blocks`.

**Constraint in `file_table`.**  Once an entry was picked twice or a file shared
(`apart` is FALSE), behaviours are followed only as long as no entry is or was
a pipe: a slot used as both kinds mixes a file offset with a reference count,
and that adds millions of states about which nothing is claimed.

### Fairness

* The CPU executes the instructions of the task that has it: strong fairness of
  the steps *inside* kernel code, per task.  Strong, because a task loses and
  regains the CPU between its steps.
* Timer (and disk) interrupts are held by the PIC until IF = 1: strong fairness
  of `Tick` and, in `ide`, of the handler.
* The drive answers each command (`ide`).
* Programs, users and devices that answer nobody promise nothing: no fairness of
  system call entry, of keys, or of whatever wakes a task in `ioq_wait` (`DeviceIntr`).
  In `sync` a task inside the lock does
  leave it, as the code of every lock user does; the nested release is fair for
  the same reason.

`LockProgress` is about one lock, and holds for it as long as nobody sleeps for
ever in `ioq_wait` with it: the condition is that `sleeper` is `NoTask` again
and again.  A lock that is never held in `ioq_wait` (the console's) satisfies it
always.  It promises that somebody gets the lock, not a particular waiter:
`sema_up` makes the first waiter READY but a newcomer may decrement the value
first.  `ReadCompletes` starts when the reader has the channel for the same
reason, and excludes writes because of `busy_wait` (section 5).  `WaitReturns`
excludes init (section 5).

## 4. Proofs

For every set of tasks, every ring, bitmap and disk request, every number of
files, inodes, blocks, entries and descriptors, every set of keys and elements,
TLAPS proves:

| Module | Theorem | Statement (`Spec => []...` unless said) |
|---|---|---|
| `SyncProofs` | `InductiveInvariant` | `IInv` |
| | `LocksExclude`, `NoWaiterForgotten` | `MutualExclusion`, `NoLostWakeup` |
| | `NoAssertFails`, `TypeCorrect`, `TagsDisjoint`, `SleepRemembered`, `HolderInside` | parts of `IInv` |
| | `Refinement` | `Spec => ImplementsMutex` |
| `ProcessProofs` | `ProcessTablesOK`, `ParentNeverStale`, `NoExitMissed` | `SchedulerOK`, `ParentIsReal`, `WaiterHasNoZombie` |
| `KbdQueueProofs` | `NoKeyMissed`, `LoneReaderOK` | `KeyWakesSomeone`, `BlocksOnlyWithoutData` |
| | `KbdRingIsFifo` | `Spec => IsFifo`, the refinement of `Fifo` |
| | `ModifiersNeverStick` | `DecodeSpec => []NoStuckModifier` |
| | `CharactersAsMeant` | `OneKeyEach => (DecodeSpec => []TypedAsMeant)` |
| `PipeProofs` | `ReadsDoNotBlock`, `NoWriterMissed` | `ReadDoesNotBlock`, `ReadWakesSomeone` |
| | `PipeIsFifo` | `Spec => IsFifo` |
| `IdeProofs` | `DataIsOwn`, `RangeIsWhole`, `NoCompletionLost` | `OwnData`, `WholeRange`, `SleeperWillBeWoken` |
| `FileTableProofs` | `FilesInvariant` | `FilesInv` |
| | `InodesHeld`, `CountsAreExact` | `InodeHeld`, `CountsExact` |
| `StructureProofs` | `ListsAreSequences`, `LoopsFindAll` | `ListInv`, `LoopsAgree` (`Spec` is that of `List`) |
| | `ScanIsFirstFit` | `BitmapSpec => []FirstFit` |
| | `MemoryInvariant`, `FramesAreExact` | `MemorySpec => []MemoryInv`, `[]FramesExact` |
| | `BlocksInvariant`, `DisksAreUpToDate` | `BlocksSpec => []BlocksInv`, `[]DiskUpToDate` |

Each property is an invariant (or PROPERTY) of a run, so TLC has checked the same
formula on the instances of section 3.  The other theorems of these modules
(`ProcessInvariant`, `KbdInvariant`, `PipeInvariant`, `IdeInvariant`,
`BitmapInvariant`, `KeyInvariant`) state the inductive invariants.  `InodesHeld`
and `CountsAreExact` are about all behaviours of `Spec`, without the constraint of
the run `file_table`, and `FramesAreExact` holds for both values of `ForkWithArenas`,
so up to the failed ASSERT that `memory_shared` finds too.  `DisksAreUpToDate` is about
behaviours up to the first mishap, like the property; the store of an inode whose number
does not fit into `inode_sync`'s byte is one (`cut`).

Assumptions, all evaluated by TLC in the runs: `TaskAssumption` (idle is a task,
`NoTask` is none), and for each module with threads that the initial ready list
holds every task but the running one, once.  `ProcessAssumption`: finitely many
PCBs, and init, main and idle are three of them.  `IoqueueAssumption`: a ring of
at least two bytes.  `IdeAssumption`: sectors are numbers and a command moves at
least one.  `ListAssumption`: elements are not sentinels, and loops are followed
for as many rounds as there are elements.  `BitmapAssumption`: sizes are
positive.  `FileAssumption`: processes are finitely many, files are numbers, both
tables have room behind the three standard places (0, 1 and 2), and a counter
holds more than 2.  `MemoryAssumption`: pages and frames are numbered, an arena has
at least one block and a large block at least one page.  `BlocksAssumption`:
processes are finitely many, names and inodes are positive numbers, of any size, the
sizes are positive, and a file is too short for `fd_pos` to wrap inside it.
`KeyAssumption`: see section 2.  `OneKeyEach`, the hypothesis of
`CharactersAsMeant`, is there because the code has one flag for two shift keys
(section 5); `MCStructures` assumes it of its keyboard.

### The arguments

**Sync.**  `MutualExclusion` is not inductive: that a task may take the
semaphore depends on `value`, and that nobody owns when `value` = 1 is
`ValueOK`.  `NoPanic` needs that `thread_unblock` is called only for a blocked
task that is not on the ready list, i.e. that waiters lists hold exactly the
tasks BLOCKED in `down` for that lock (`WaitersOK`), that the sleeper of an
interrupt handler is exactly a task BLOCKED inside (`SleeperOK`), that only these
block (`StatusOK`, `PcOK`), and that the ready list is exactly the READY tasks
(`SchedOK`).  The ASSERTs of `lock_acquire` and `lock_release` need `HolderOK` and
`RepeatOK`.  `NoLostWakeup` is preserved by `SemaUp` because it wakes the first
waiter with the value it gives, and by `SemaDownTake` because the value is then
0.  The conjunction is `IInv`.

**Thread.**  `ThreadProofs` states once what `schedule`, `thread_block`,
`thread_unblock`, `thread_yield` and `timer_tick` do to the scheduler record
(`SchedOK` is preserved, whose status changes, what the ready list becomes); what
taking, queueing for and releasing a lock does to `LockInv`, the contract of a lock
with the tasks that queue for it and the one that holds it; that storing and
fetching a character appends to and takes from `Contents` although head and tail
wrap around; and what each step of sleeping for an I/O queue does to `QueueInv`.

**KbdQueue, Pipe.**  `KbdInv` and `PipeInv` are `QueueInv` (whoever sleeps is a
waiter of the queue's lock or the registered sleeper, which holds that lock) with
what a call still has to do.  `SomeoneToWake` follows: a sleeper that is not
registered waits for a lock, whose holder is registered or awake.  A reader of a
pipe has the CPU from its test of `ioq_length` to its last character, which makes
`ReadDoesNotBlock` inductive.  A lone reader never meets the lock taken, so between
its test and its sleep nothing comes (`LoneReader`); with two readers that is
false (section 5).  A step that changes the ring is a step of `Fifo` by the ring
lemmas, any other a stutter.

**Ide.**  `ChannelInv` gives that at most one task is between `lock_acquire` and
`lock_release`.  `DriveOK` says where the drive, the line, `expecting_intr` and
`disk_done` stand for each point of that task: working, line raised, semaphore
upped, or polled, and all quiet when nobody is there.  So no interrupt can find
a semaphore that is already up, and the data offered are those of the last
command.  `CallsOK` says that the sectors moved so far are the first `done` of the
range.

**Process.**  `ParentIsReal` needs that a process that is about to give its pid
back has no children: a zombie has none, since `sys_exit` gave them to init before
(`Childless`), and that init stays (`BootOK`).  A free PCB means a free pid, by
counting the living and the PCBs that failed forks lost; `find_hanging_child` finds a zombie when there is one, by taking the
first on `thread_all_list` (`LeastNat`: a set of naturals has a least element).

**FileTable.**  `InodeHeld` is not inductive: that closing an entry frees an inode
no other entry has needs the count to cover the unlinks that hold the inode in
`inode_release` too (`HeldOK`), and that a call asleep in `inode_open` or
`file_create` owns the inode it will fill: it is in no list, in no other call and
in no entry but the one being created (`CallsOK`).  An inode found in
`open_inodes` is counted and is there once (`ListOK`), and a process that is not
alive has no descriptor and no call (`DeadOK`), so the child of fork starts empty.
`CountsExact` adds, while `apart` holds, that counts are equal to uses (`CountOK`),
that a file's entry has at most one descriptor and a pipe's entry is flagged as
one (`EntryOK`), and that an entry picked by a sleeping `file_open` is still empty
and picked by it alone, and one being created has no descriptor yet (`PickOK`).  The
conjunction is `FilesInv`.

fork and exit go through the whole descriptor table in one action.  So these parts
are operators on a record of files, descriptor tables and calls, which are
parameters and not the variables.  A round is shown to keep them when a
single entry changes by one descriptor or one use; the files after k rounds of
fork, with the child's table filled up to k, and the files after k rounds of exit, with
the table emptied up to k, satisfy them for every k, by taking the least k where
they would not.  `RoomToCount` keeps the rounds of fork from wrapping a count.

**List.**  `ListInv` (links in both directions are the ghost sequence, no element
on two lists) is inductive as it stands; the lemmas are about `Nth` after an
insertion or removal at a position.  The loops are recursive functions.  No
induction theorem can be used for them, so the proof gives a closed form that
satisfies the same equation (after n rounds the loop is at the element after the
n-th, or at tail), concludes that the function exists, and shows that it agrees
with the closed form by taking the least round where it would not.

**Bitmap.**  `BitmapInv`: the runs handed out are disjoint and the bits in them are
those that are taken.  Bytes and bits in them enumerate the bits in their order
(`BitPlace`, `BitOrder`), so `first_free` is the lowest free bit.  The loop's count,
a recursive function again, is the distance to the last taken bit (`Stops`); a run
of cnt bits is found where the count first reaches cnt, which is the end of the
lowest place.

**KeyDecode.**  The handler runs behind the user, so what can be invariant is
where it will be when it has caught up.  `KeyInv` says that there is a trace of
modifiers along the bytes on the wire that starts with the handler's flags and
ends with modifiers that are held down, and (under `OneKeyEach`) with exactly
those, and a trace of characters that starts with those expected and ends with
none.  A key lengthens the traces at their end, the handler shortens them at
their start, and on a quiet wire they have one element.  A character that finds `kbd_buf`
full is dropped with its place in the trace, so that the traces do not depend on it.

**Memory.**  `FramesExact` speaks of living processes; what a dead one or a free PCB
still maps would be inherited by the child that fork puts there, so `MemoryInv` says
of all of them that they map nothing, together with what `palloc` needs: a frame
outside the pool is in no page table entry.  Most of `sys_malloc` and `sys_free` is list
work through user pages, which the invariant does not follow: each write of a
pointer, of a count or of a panic is shown to leave pool, bitmaps and page tables
alone (`SameFrames`), whatever the lists hold; only `a->desc`, which `sys_free` reads
again after the append, must be the same afterwards (`SameDescs`).  What remains takes a frame
for an unmapped page (`MoreFrames`) or unmaps some pages (`FewerFrames`).  The loops of
`malloc_page`, fork, the new arena and the emptied one are recursive functions.
That such a function exists is proved once for any kind of round (`LoopExists`), and
what each round keeps holds at the end (`RoundsKeep`), both by the least round where
it would not.

**FileBlocks.**  `DiskUpToDate` speaks of quiet moments, so the invariant says what
is out of step at any other one.  A bit of the block bitmap that memory and disk
have differently lies in a sector some call is about to write (`Pending`); inode
numbers differ only inside `file_create` and `inode_release` (`BitmapsOK`); an inode
in memory is the one on the disk unless a call is changing it (`InodeOK`).  The last
needs to know which calls can be on one inode at a time: a call that writes has
the file open; a file being created is open in its creator only and nobody
deletes it; a file being deleted is open nowhere, and only one call may have
loaded it (`CallOK`).  These need that `i_open_cnts` is the number of open files,
unless a call creates or has loaded the inode, and that an inode has one
entry at most, which a deletion removes before it loads.  When a mishap could break one of these the step
records it, and `BlocksInv` says nothing from there on.  A step changes one inode,
so the lemmas show first that all the others keep their part (a sector written
back has the others as they were read, and the number was not cut, or it is a
mishap), then what becomes of
this one.

### Only model-checked

Liveness (`LockProgress`, `ReadReturns`, `WriterResumes`, `ReadCompletes`,
`WaitReturns`) is beyond the prover.  `Directory` walks paths with RECURSIVE
operators, so `TreeOK`, `SearchRight`, `CwdRoundTrip`, `ReaddirComplete` and
`ImplementsNamespace` stay with TLC.  Of `FileBlocks`, `BlocksExact`,
`BytesAreWritten` and `DiskSafe` stay: they follow the list of a file's blocks
through the loops of `file_write` and `inode_release`, which are inductions over
data.  Of `Memory`, `HeapExact` and `AssertsHold` stay: they follow free lists
through page tables, whose walks are inductions over data.  `FilesInv` and
`BlocksInv` themselves have been checked by TLC on the instances of `file_table`
and `file_blocks` before they were proved; they are stated in the modules of
proofs and are no properties of a run.

## 5. Where the code and its comments disagree

Shown by a run:

* `file_writers`: `file_close` clears `write_deny` whoever closes (`file.c:242`);
  `inode.h:14` says a file cannot be written in parallel.
* `memory_shared`: fork resets the child's block descriptors (`fork.c:25`) but
  its copied arenas point to the parent's; freeing on both sides fails the
  ASSERT at `memory.c:494`.

Seen while modelling, and why the properties above carry a condition:

* `ioqueue.c:57`: a second reader that waited for the queue's lock sleeps as the
  consumer without testing the queue again, although the comment says it blocks
  there without data.  Hence `callers` in `BlocksOnlyWithoutData`.
* `pipe.c:67`: a write is cut to `bufsize - ioq_length` "to avoid blocking", but
  the ring holds one less, so a write that fills it sleeps.
* `ide.c:133`: `busy_wait` means to wait 30 seconds; in a system call interrupts
  are off, and if no other task is ready `msleep`'s ticks never come
  (`timer.c:57`).
* `fork.c:28`, `fork.c:162`: a fork that fails for want of a page returns -1 and keeps
  the PCB page, `buf_page` and, after `fork_pid`, the pid (`ForkFails`).
* `wait_exit.c:61` rounds the pages of a process's bitmap down to 22; `fork.c:27` and
  process start round up to 23: every exit leaves one page of the kernel pool taken.
* `thread.c:337`: `thread_exit` frees the PCB page and reads `thread_over->pid` from it
  afterwards.  The read finds the old pid only because the page's translation stays in
  the TLB: `invlpg` in `page_table_pte_remove` names a local variable (`memory.c:384`).
* `wait_exit.c:161`: a zombie handed to init while init is in `sys_wait` wakes
  nobody, so init sleeps beside it until its own child exits.
* `bitmap.c:42`: the scan for several bits tests one bit after the end and can
  return a run that includes it (`bitmap.h:19` says "in the bitmap").
* `bitmap.c:28`: a full bitmap fails an ASSERT, so the NULL that `memory.h:50` and
  `memory.h:53` promise on failure is not returned.
* `keyboard.c:212`: a character that finds `kbd_buf` full is dropped without a sign.
* `keyboard.c:151`: releasing one of two shift keys clears the flag of both.
* `file.c:242` after fork: parent and child share an entry; the first close
  empties it and the second reads through a null `fd_inode`.
* `file.c:204`: `file_open` picks its slot before it sleeps on the disk, so two
  processes can pick the same one.  Hence `apart` in `CountsExact`.

In the file system (each ends a behaviour of `FileBlocks` or `Directory` where
its name is given in parentheses):

* `inode.c:66`: `inode_sync` and `inode_delete` read a sector of several inodes,
  sleep, and write all of it back, so an inode another process wrote meanwhile
  is put back; the same with a directory's sector (`dir.c:216`) (`sector`).
* `inode.c:224`: the number of a deleted inode is free before `inode_delete`
  clears the inode on the disk: a file created in between is cleared
  (`number`).
* `file.c:371`: the bit of a new indirect table is not synced; it reaches the
  disk with that of the next block only if both are in one sector (`table`).
* `inode.c:83`: two processes that load one inode at the same time get two
  copies (`copies`); an open that sleeps is overtaken by unlink (`unlinked`,
  `fs.c:543`); two processes create one name (`twice`, `file.c:159`).
* `file.c:251`: a write up to exactly 140 blocks passes the test and fails the
  ASSERT at `file.c:308`; `file_read` asserts less than 139 (`file.c:511`), so the
  last blocks of a large file cannot be read.  An empty write to an empty file
  leaves `fd_pos` at 2^32 - 1 (`file.c:446`), where a read fails that ASSERT too
  (`assert`).
* `file.c:446`: after a write `fd_pos` is one less than the size.
* `file.c:159`: the entry is written before the inode bitmap: after a power
  failure between the two the number is free on the disk and may be used again.
  `DiskSafe` is about the blocks of the files that have entries.
* `file.c:472`: `file_write` gives `inode_sync` a buffer of 512 bytes, which reads
  1024 into it for an inode that crosses sectors (`inode.c:66`) (`buffer`).
* `inode.c:48`: `inode_sync` keeps the number in a `uint8_t`; inodes from 256 on
  are written over others (`cut`).
* `dir.c:137` says all 12+128 blocks are collected; only 12 are, so a directory
  whose direct blocks are full gets a new indirect table for every entry and loses
  the old one (`orphan`).
* `dir.c:325`: the loop that counts indirect blocks does not advance; the deletion
  of the only entry of an indirect block never returns (`hang`).
* `fs.c:351`: `sys_open` of a file that exists does not close the parent.  The
  directory stays in `open_inodes`, and when it is removed later its number still
  finds the old inode there (`stale`).
* `fs.c:518`: `unlink("/f/x")` with f a regular file deletes f, since the depth is
  not compared (`through`); `stat` of such a path returns f's data.
* `fs.c:767`: `rmdir` of the cwd is not refused; `getcwd` then fails the ASSERT at
  `fs.c:784` (`cwd`).  `rmdir("/a/.")`, which the shell never passes on, releases a
  and leaves its entry.
* `fs.c:854`: `getcwd` in the root returns without freeing `io_buf`.
* `fs.c:141`: `partition_format` clears one bit more than the bitmap has.
* `fs.c:702`: `opendir` tests `name[0]` for '/' and for '.', so "/." is never taken for
  the root there.
* `file.c:128`: `file_create` takes the inode from the process's heap,
  `inode_close` returns it to the kernel's (`inode.c:142`).
* `pipe.c:18`: `get_free_slot_in_global`'s -1 indexes `file_table[-1]`;
  `FileTable` ends there (`fault`).  `pipe.c:21`: the ring with its buffer is larger
  than the one page it gets.

## 6. Not modelled

The layout arithmetic of `partition_format`, `mount_partition` and `filesys_init`,
`identify_disk`, `partition_scan` and boot, which run once and alone (what they
leave is the initial state of `FileBlocks` and `Directory`); `execv`, process start
and the TSS, mostly stack and segment layout; the syscall table, console and
formatting, which keep no state of interest; in the shell `readline`, `cmd_parse`
and the loop over pipes, text handling of a sequential program (its pipes are
`Pipe`'s and `FileTable`'s); the kernel's own heap and the kernel page pool, so none of
the pages lost there (section 5) shows in `FramesExact`; the TLB (`memory.c:384`) and
register switching, below the level of these models.

A power failure in the middle of a transfer is not modelled: `DiskSafe` is about
failures between two, so not about half an inode that crosses sectors.

`Directory` has one process inside the file system at a time.  Two directory calls
that interleave meet the read-modify-write of `FileBlocks` (`sector`, `twice`) and
nothing more is claimed of them.

## 7. Plan

1. `Thread`, `Sync`, proofs: done.  The lock is under everything.
2. `KbdQueue`, `Pipe`, `Ide`, `Process`: done; they compose `Thread` and the
   lock (`SyscallLock`) with a device or with each other.
3. `List` with proof, `Bitmap`, `KeyDecode`: done.
4. `FileTable`, `Memory`: done for the operations named above.
5. `FileBlocks`, `Directory` with `Namespace`: done.
6. Proofs for `Sync`, `Process`, `KbdQueue`, `Pipe`, `Ide`, `FileTable`, `List`,
   `Bitmap`, `KeyDecode`, the frames of `Memory` and `DiskUpToDate` of `FileBlocks`: done.
7. Proofs: on `BlocksInv`, the parts of `BlocksExact` and `DiskSafe` that say no block
   has two owners; the free lists of one address space as the sequences of `List`.
8. `execv` as an action of `Memory`; the heap of `file_create`'s inode (user heap)
   against `inode_close` (kernel heap).
