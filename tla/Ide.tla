-------------------------------- MODULE Ide ---------------------------------
(***************************************************************************)
(* One IDE channel (ide.c): tasks read and write runs of sectors under the *)
(* channel lock, sleep on disk_done until intr_hd_handler ups it, and poll *)
(* the status register in busy_wait, which sleeps by yielding until the    *)
(* timer has ticked (msleep, timer.c).                                     *)
(*                                                                         *)
(* Processes are here inside a system call, with interrupts off; a kernel  *)
(* thread (main, which mounts the file system) runs the same code with     *)
(* interrupts on.  lock_acquire and lock_release are one step each: module *)
(* Sync shows that a preempted lock still behaves as an atomic one.        *)
(***************************************************************************)
EXTENDS SyscallLock, Integers

CONSTANTS
  Main, InitReady,
  KThread,     \* tasks that run this code with IF = 1
  Op,          \* subset of {"read", "write"}
  Lba,         \* first sectors of requests
  MaxCnt,      \* bound on sec_cnt
  MaxOp,       \* sectors one command can move: 256, the range of a byte
  PollLimit    \* polls of busy_wait before it gives up

ASSUME IdeAssumption ==
  /\ Main \in Task \ {Idle}
  /\ InitReady \in Seq(Task) /\ NoDuplicates(InitReady)
  /\ \A t \in Task : elem_find(InitReady, t) <=> t # Main
  /\ KThread \subseteq Task \ {Idle}
  /\ Op \subseteq {"read", "write"}
  /\ Lba \subseteq Nat
  /\ MaxCnt \in Nat /\ MaxOp \in Nat \ {0} /\ PollLimit \in Nat

VARIABLES
  sched, pc,
  req,         \* the call's arguments: [op, lba, cnt]
  done,        \* secs_done
  polls,       \* polls left in busy_wait
  ticked,      \* the timer has advanced since msleep read it
  moved,       \* history: the sectors transferred for the call, in order
  lock,        \* channel->lock
  doneval, donewait,   \* channel->disk_done: value and waiters
  expecting,   \* channel->expecting_intr
  disk,        \* the drive: [state, op, lba, n]
  irq,         \* the drive's interrupt line
  failed       \* busy_wait gave up: PANIC "... sector failed"

task_vars == <<req, done, polls, ticked, moved>>
chan_vars == <<lock, doneval, donewait, expecting>>
drive_vars == <<disk, irq>>
vars == <<sched, pc, task_vars, chan_vars, drive_vars, failed>>

(* user  not in ide.c            lock  in lock_acquire                     *)
(* cmd   top of the while loop   down  in sema_down(&disk_done)            *)
(* poll  in busy_wait            nap   in msleep's yield loop              *)
(* xfer  insw / outsw                                                     *)
PC == {"user", "lock", "cmd", "down", "poll", "nap", "xfer", "idle", "hlt"}

NoReq == [op |-> "read", lba |-> 0, cnt |-> 0]

Init ==
  /\ sched = [cur |-> Main, ready |-> InitReady,
              status |-> [t \in Task |-> IF t = Main THEN "RUNNING" ELSE "READY"],
              ticks |-> Prio, panic |-> FALSE]
  /\ pc = [t \in Task |-> IF t = Idle THEN "idle" ELSE "user"]
  /\ req = [t \in Task |-> NoReq]
  /\ done = [t \in Task |-> 0]
  /\ polls = [t \in Task |-> 0]
  /\ ticked = [t \in Task |-> FALSE]
  /\ moved = [t \in Task |-> <<>>]
  /\ lock = FreeLock
  /\ doneval = 0 /\ donewait = <<>>
  /\ expecting = FALSE
  /\ disk = [state |-> "ready", op |-> "read", lba |-> 0, n |-> 0]
  /\ irq = FALSE
  /\ failed = FALSE

-----------------------------------------------------------------------------
Running == ~sched.panic /\ ~failed
At(t, label) == Running /\ sched.cur = t /\ pc[t] = label
Goto(t, label) == pc' = [pc EXCEPT ![t] = label]

(* ide_read(hd, lba, buf, cnt) or ide_write.                               *)
Request(t, r) ==
  /\ At(t, "user")
  /\ req' = [req EXCEPT ![t] = r]
  /\ done' = [done EXCEPT ![t] = 0]
  /\ moved' = [moved EXCEPT ![t] = <<>>]
  /\ sched' = ASSERT(sched, r.cnt > 0)
  /\ Goto(t, "lock")
  /\ UNCHANGED <<polls, ticked, chan_vars, drive_vars, failed>>

(* Faulty variant: the channel is used without its lock.                   *)
Unlocked(t) ==
  /\ At(t, "lock")
  /\ Goto(t, "cmd")
  /\ lock' = Take(lock, t)
  /\ UNCHANGED <<sched, task_vars, doneval, donewait, expecting, drive_vars, failed>>

LockChannel(t) ==
  /\ At(t, "lock")
  /\ IF CanTake(lock, t)
       THEN /\ lock' = Take(lock, t)
            /\ Goto(t, "cmd")
            /\ UNCHANGED sched
       ELSE /\ lock' = Enqueue(lock, t)
            /\ sched' = thread_block(sched, "BLOCKED")
            /\ UNCHANGED pc
  /\ UNCHANGED <<task_vars, doneval, donewait, expecting, drive_vars, failed>>

(* Faulty variant: the last chunk is not cut down to what is left.         *)
WholeChunks(t) == MaxOp

secs_op(t) ==
  IF done[t] + MaxOp <= req[t].cnt THEN MaxOp ELSE req[t].cnt - done[t]

(* The sector count register is a byte; 0 asks for MaxOp sectors.          *)
byte_count(n) == IF n % MaxOp = 0 THEN MaxOp ELSE n % MaxOp

(* Faulty variant: cmd_out does not set expecting_intr.                    *)
CommandUnexpected(t) ==
  /\ At(t, "cmd") /\ done[t] < req[t].cnt
  /\ disk' = [state |-> "busy", op |-> req[t].op, lba |-> req[t].lba + done[t],
              n |-> byte_count(secs_op(t))]
  /\ Goto(t, IF req[t].op = "read" THEN "down" ELSE "poll")
  /\ polls' = [polls EXCEPT ![t] = PollLimit]
  /\ UNCHANGED <<sched, req, done, ticked, moved, chan_vars, irq, failed>>

(* select_sector and cmd_out; the drive goes busy.                         *)
Command(t) ==
  /\ At(t, "cmd") /\ done[t] < req[t].cnt
  /\ expecting' = TRUE
  /\ disk' = [state |-> "busy", op |-> req[t].op, lba |-> req[t].lba + done[t],
              n |-> byte_count(secs_op(t))]
  /\ IF req[t].op = "read"
       THEN Goto(t, "down") /\ UNCHANGED polls
       ELSE Goto(t, "poll") /\ polls' = [polls EXCEPT ![t] = PollLimit]
  /\ UNCHANGED <<sched, req, done, ticked, moved, lock, doneval, donewait, irq, failed>>

(* sema_down(&disk_done): a read then polls, a write has finished a chunk. *)
AwaitDisk(t) ==
  /\ At(t, "down")
  /\ IF doneval = 0
       THEN /\ donewait' = list_append(donewait, t)
            /\ sched' = thread_block(sched, "BLOCKED")
            /\ UNCHANGED <<pc, done, polls, doneval>>
       ELSE /\ doneval' = doneval - 1
            /\ sched' = ASSERT(sched, doneval - 1 = 0)
            /\ IF req[t].op = "read"
                 THEN /\ Goto(t, "poll")
                      /\ polls' = [polls EXCEPT ![t] = PollLimit]
                      /\ UNCHANGED done
                 ELSE /\ Goto(t, "cmd")
                      /\ done' = [done EXCEPT ![t] = done[t] + secs_op(t)]
                      /\ UNCHANGED polls
            /\ UNCHANGED donewait
  /\ UNCHANGED <<req, ticked, moved, lock, expecting, drive_vars, failed>>

(* busy_wait: a busy drive is polled again after msleep(10); a drive that  *)
(* is not busy must want data; a drive busy too long stops the kernel.     *)
Poll(t) ==
  /\ At(t, "poll")
  /\ \/ /\ polls[t] > 0 /\ disk.state \in {"busy", "writing"}
        /\ polls' = [polls EXCEPT ![t] = polls[t] - 1]
        /\ ticked' = [ticked EXCEPT ![t] = FALSE]
        /\ Goto(t, "nap")
        /\ UNCHANGED failed
     \/ /\ polls[t] > 0 /\ disk.state = "drq"
        /\ Goto(t, "xfer")
        /\ UNCHANGED <<polls, ticked, failed>>
     \/ /\ polls[t] = 0 \/ disk.state = "ready"
        /\ failed' = TRUE
        /\ UNCHANGED <<pc, polls, ticked>>
  /\ UNCHANGED <<sched, req, done, moved, chan_vars, drive_vars>>

(* sleep_to_ticks: yield until the tick counter has moved.                 *)
Nap(t) ==
  /\ At(t, "nap")
  /\ IF ticked[t]
       THEN Goto(t, "poll") /\ UNCHANGED sched
       ELSE sched' = thread_yield(sched) /\ UNCHANGED pc
  /\ UNCHANGED <<task_vars, chan_vars, drive_vars, failed>>

(* read_from_sector or write2sector move as many sectors as the byte says. *)
Transfer(t) ==
  LET n == byte_count(secs_op(t)) IN
  /\ At(t, "xfer")
  /\ moved' = [moved EXCEPT ![t] =
                 moved[t] \o [i \in 1 .. n |-> disk.lba + i - 1]]
  /\ IF req[t].op = "read"
       THEN /\ disk' = [disk EXCEPT !.state = "ready"]
            /\ done' = [done EXCEPT ![t] = done[t] + secs_op(t)]
            /\ Goto(t, "cmd")
       ELSE /\ disk' = [disk EXCEPT !.state = "writing"]
            /\ Goto(t, "down")
            /\ UNCHANGED done
  /\ UNCHANGED <<sched, req, polls, ticked, chan_vars, irq, failed>>

UnlockChannel(t) ==
  /\ At(t, "cmd") /\ done[t] >= req[t].cnt
  /\ sched' = ReleaseSched(sched, lock, t)
  /\ lock' = Release(lock)
  /\ Goto(t, "user")
  /\ UNCHANGED <<task_vars, doneval, donewait, expecting, drive_vars, failed>>

-----------------------------------------------------------------------------
(* The drive, as the driver's comments use it: it interrupts when the data *)
(* of a read command is ready and when the data of a write is stored.      *)
DriveReady ==
  /\ Running /\ disk.state = "busy"
  /\ disk' = [disk EXCEPT !.state = "drq"]
  /\ irq' = (irq \/ disk.op = "read")
  /\ UNCHANGED <<sched, pc, task_vars, chan_vars, failed>>

DriveStored ==
  /\ Running /\ disk.state = "writing"
  /\ disk' = [disk EXCEPT !.state = "ready"]
  /\ irq' = TRUE
  /\ UNCHANGED <<sched, pc, task_vars, chan_vars, failed>>

-----------------------------------------------------------------------------
Interruptible ==
  /\ Running
  /\ sched.cur \in KThread \/ pc[sched.cur] \in {"user", "idle", "hlt"}

ResumeHlt == pc' = [pc EXCEPT ![sched.cur] = IF pc[sched.cur] = "hlt" THEN "idle"
                                             ELSE pc[sched.cur]]

intr_hd_handler ==
  /\ Interruptible /\ irq
  /\ irq' = FALSE
  /\ ResumeHlt
  /\ IF expecting
       THEN /\ expecting' = FALSE
            /\ doneval' = doneval + 1
            /\ sched' = WakeFirst(ASSERT(sched, doneval = 0), donewait)
            /\ donewait' = IF donewait = <<>> THEN <<>> ELSE Tail(donewait)
       ELSE UNCHANGED <<sched, doneval, donewait, expecting>>
  /\ UNCHANGED <<task_vars, lock, disk, failed>>

Tick ==
  /\ Interruptible
  /\ ticked' = [t \in Task |-> TRUE]
  /\ sched' = timer_tick(sched)
  /\ ResumeHlt
  /\ UNCHANGED <<req, done, polls, moved, chan_vars, drive_vars, failed>>

IdleBlock ==
  /\ At(Idle, "idle")
  /\ sched' = thread_block(sched, "BLOCKED")
  /\ Goto(Idle, "hlt")
  /\ UNCHANGED <<task_vars, chan_vars, drive_vars, failed>>

-----------------------------------------------------------------------------
Work(t) ==
  \/ LockChannel(t) \/ Command(t) \/ AwaitDisk(t) \/ Poll(t) \/ Nap(t)
  \/ Transfer(t) \/ UnlockChannel(t)

Next ==
  \/ \E t \in Task \ {Idle} :
       \/ \E r \in [op : Op, lba : Lba, cnt : 1 .. MaxCnt] : Request(t, r)
       \/ Work(t)
  \/ DriveReady \/ DriveStored \/ intr_hd_handler \/ Tick \/ IdleBlock

Spec == Init /\ [][Next]_vars

(* The CPU executes, the drive answers every command, and the PIC holds    *)
(* interrupts until they can be taken.                                     *)
Fairness ==
  /\ \A t \in Task \ {Idle} : SF_vars(Work(t))
  /\ WF_vars(DriveReady) /\ WF_vars(DriveStored)
  /\ SF_vars(intr_hd_handler) /\ SF_vars(Tick) /\ SF_vars(IdleBlock)

FairSpec == Spec /\ Fairness

-----------------------------------------------------------------------------
TypeOK ==
  /\ sched \in SchedType
  /\ pc \in [Task -> PC]
  /\ done \in [Task -> 0 .. MaxCnt]
  /\ polls \in [Task -> 0 .. PollLimit]
  /\ doneval \in {0, 1}
  /\ expecting \in BOOLEAN /\ irq \in BOOLEAN /\ failed \in BOOLEAN
  /\ disk.state \in {"ready", "busy", "drq", "writing"}

(* Neither sema_up's ASSERT(value == 0) in the interrupt handler nor any   *)
(* ASSERT of the lock or the scheduler fires, whichever of the interrupt   *)
(* and the sema_down it answers comes first.                               *)
SchedulerOK == TypeOK /\ SchedOK(sched)

(* The data a task moves is that of the command it issued itself: nobody   *)
(* else's command can get in between on the shared channel.                *)
OwnData ==
  \A t \in Task :
    pc[t] = "xfer" =>
      /\ disk.state = "drq" /\ disk.op = req[t].op
      /\ disk.lba = req[t].lba + done[t] /\ disk.n = secs_op(t)

(* A call that is done has moved each sector of its range exactly once and *)
(* in order, across the 256-sector chunks it is cut into.                  *)
WholeRange ==
  \A t \in Task :
    pc[t] = "cmd" /\ done[t] >= req[t].cnt =>
      moved[t] = [i \in 1 .. req[t].cnt |-> req[t].lba + i - 1]

(* A completion interrupt is never lost: while a task sleeps on disk_done  *)
(* the handler is armed and the drive is working or has its line up; and   *)
(* no ASSERT of the handler, the lock or the scheduler fires.              *)
SleeperWillBeWoken ==
  /\ SchedulerOK
  /\ donewait # <<>> => expecting /\ (irq \/ disk.state \in {"busy", "writing"})

(* A read that has got the channel returns, whether the drive answers      *)
(* before or after the reader sleeps on disk_done.  (Getting the channel   *)
(* is not certain: a woken waiter may find the lock taken again.)          *)
ReadCompletes ==
  \A t \in Task \ {Idle} :
    (pc[t] = "cmd" /\ req[t].op = "read") ~> pc[t] = "user"
=============================================================================
