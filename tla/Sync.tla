-------------------------------- MODULE Sync --------------------------------
(***************************************************************************)
(* The semaphores and recursive locks of sync.c under the scheduler of     *)
(* thread.c, with the timer interrupt that may preempt them.               *)
(*                                                                         *)
(* A process runs kernel code only inside a system call.  int 0x80 goes    *)
(* through an interrupt gate, so the whole call runs with IF = 0 and the   *)
(* process loses the CPU only where it blocks or yields.  A kernel thread  *)
(* (main, until its thread_exit) runs kernel code with IF = 1 and can be   *)
(* preempted between any two steps of lock_acquire and lock_release that   *)
(* are not bracketed by intr_disable / intr_set_status; those steps are    *)
(* therefore actions of their own.                                         *)
(*                                                                         *)
(* A task holds one lock at a time, possibly several times over, as every  *)
(* lock user in the kernel does.  While it holds it, it may yield (msleep  *)
(* in busy_wait) or sleep until an interrupt handler wakes it (ioq_wait).  *)
(***************************************************************************)
EXTENDS Thread

CONSTANTS
  Lock,        \* the struct locks
  KThread,     \* tasks that run kernel code with interrupts enabled
  Main,        \* main_thread, running when thread_init returns
  InitReady,   \* thread_ready_list when interrupts are first enabled
  MaxRepeat    \* bound on holder_repeat_nr

ASSUME SyncAssumption ==
  /\ KThread \subseteq Task \ {Idle}
  /\ Main \in Task \ {Idle}
  /\ InitReady \in Seq(Task)
  /\ NoDuplicates(InitReady)
  /\ \A t \in Task : elem_find(InitReady, t) <=> t # Main
  /\ MaxRepeat \in Nat \ {0}
  /\ Lock # {}

VARIABLES
  sched,       \* the scheduler record of module Thread
  pc,          \* where each task is, see PC
  intr,        \* eflags.IF in the context of each task; the CPU's is cur's
  old,         \* old_status saved by sema_down, per task
  lk,          \* the lock a task is acquiring, holding or releasing
  value,       \* lock.semaphore.value
  waiters,     \* lock.semaphore.waiters
  holder,      \* lock.holder
  repeat,      \* lock.holder_repeat_nr
  sleeper      \* the ioq->consumer style slot guarded by the lock

vars == <<sched, pc, intr, old, lk, value, waiters, holder, repeat, sleeper>>

(* user    user mode                       kernel  kernel mode, no lock    *)
(* acquire about to call sema_down         down    in sema_down's loop     *)
(* own     value taken, holder not set     count   holder set, repeat not  *)
(* cs      lock_acquire returned           clear   release: holder := NULL *)
(* zero    release: repeat := 0            up      about to call sema_up   *)
(* idle    idle() about to thread_block    sti     idle() resumed          *)
(* hlt     idle() halted until an interrupt                                *)
Owning == {"own", "count", "cs", "clear", "zero", "up"}

PC == {"user", "kernel", "acquire", "down", "idle", "sti", "hlt"} \cup Owning

Init ==
  /\ sched = [cur |-> Main, ready |-> InitReady,
              status |-> [t \in Task |-> IF t = Main THEN "RUNNING" ELSE "READY"],
              ticks |-> Prio, panic |-> FALSE]
  /\ pc = [t \in Task |-> IF t = Idle THEN "idle"
                          ELSE IF t \in KThread THEN "kernel" ELSE "user"]
  /\ intr = [t \in Task |-> TRUE]
  /\ old = [t \in Task |-> TRUE]
  /\ lk = [t \in Task |-> CHOOSE l \in Lock : TRUE]
  /\ value = [l \in Lock |-> 1]
  /\ waiters = [l \in Lock |-> <<>>]
  /\ holder = [l \in Lock |-> NoTask]
  /\ repeat = [l \in Lock |-> 0]
  /\ sleeper = [l \in Lock |-> NoTask]

-----------------------------------------------------------------------------
(* t executes its next instructions only while it has the CPU and the      *)
(* kernel has not panicked.                                                *)
At(t, label) == ~sched.panic /\ sched.cur = t /\ pc[t] = label

Goto(t, label) == pc' = [pc EXCEPT ![t] = label]

(* int 0x80: the interrupt gate clears IF.                                 *)
SyscallEnter(t) ==
  /\ At(t, "user")
  /\ Goto(t, "kernel")
  /\ intr' = [intr EXCEPT ![t] = FALSE]
  /\ UNCHANGED <<sched, old, lk, value, waiters, holder, repeat, sleeper>>

(* iretd restores the IF of user mode.                                     *)
SyscallExit(t) ==
  /\ At(t, "kernel") /\ t \notin KThread
  /\ Goto(t, "user")
  /\ intr' = [intr EXCEPT ![t] = TRUE]
  /\ UNCHANGED <<sched, old, lk, value, waiters, holder, repeat, sleeper>>

(* lock_acquire's first test: the holder only counts, others go down.      *)
LockAcquire(t, l) ==
  /\ \/ At(t, "kernel")
     \/ At(t, "cs") /\ l = lk[t]
  /\ lk' = [lk EXCEPT ![t] = l]
  /\ \/ /\ holder[l] # t
        /\ Goto(t, "acquire")
        /\ UNCHANGED repeat
     \/ /\ holder[l] = t
        /\ repeat[l] < MaxRepeat
        /\ repeat' = [repeat EXCEPT ![l] = repeat[l] + 1]
        /\ UNCHANGED pc
  /\ UNCHANGED <<sched, intr, old, value, waiters, holder, sleeper>>

(* sema_down disables interrupts and remembers what they were ...          *)
SemaDownEnter(t) ==
  /\ At(t, "acquire")
  /\ Goto(t, "down")
  /\ old' = [old EXCEPT ![t] = intr[t]]
  /\ intr' = [intr EXCEPT ![t] = FALSE]
  /\ UNCHANGED <<sched, lk, value, waiters, holder, repeat, sleeper>>

(* ... sleeps on the waiters list while the value is 0 ...                 *)
SemaDownBlock(t) ==
  /\ At(t, "down")
  /\ value[lk[t]] = 0
  /\ IF elem_find(waiters[lk[t]], t)
       THEN /\ sched' = ASSERT(sched, FALSE)
            /\ UNCHANGED waiters
       ELSE /\ sched' = thread_block(sched, "BLOCKED")
            /\ waiters' = [waiters EXCEPT ![lk[t]] = list_append(waiters[lk[t]], t)]
  /\ UNCHANGED <<pc, intr, old, lk, value, holder, repeat, sleeper>>

(* Faulty variant: a woken waiter takes the value without testing it.      *)
TakeUntested(t) ==
  /\ At(t, "down")
  /\ value' = [value EXCEPT ![lk[t]] = value[lk[t]] - 1]
  /\ intr' = [intr EXCEPT ![t] = old[t]]
  /\ Goto(t, "own")
  /\ UNCHANGED <<sched, old, lk, waiters, holder, repeat, sleeper>>

(* ... and takes the value and restores the interrupt flag.                *)
SemaDownTake(t) ==
  /\ At(t, "down")
  /\ value[lk[t]] # 0
  /\ value' = [value EXCEPT ![lk[t]] = value[lk[t]] - 1]
  /\ sched' = ASSERT(sched, value[lk[t]] - 1 = 0)
  /\ intr' = [intr EXCEPT ![t] = old[t]]
  /\ Goto(t, "own")
  /\ UNCHANGED <<old, lk, waiters, holder, repeat, sleeper>>

SetHolder(t) ==
  /\ At(t, "own")
  /\ holder' = [holder EXCEPT ![lk[t]] = t]
  /\ Goto(t, "count")
  /\ UNCHANGED <<sched, intr, old, lk, value, waiters, repeat, sleeper>>

SetRepeat(t) ==
  /\ At(t, "count")
  /\ sched' = ASSERT(sched, repeat[lk[t]] = 0)
  /\ repeat' = [repeat EXCEPT ![lk[t]] = 1]
  /\ Goto(t, "cs")
  /\ UNCHANGED <<intr, old, lk, value, waiters, holder, sleeper>>

(* lock_release: a nested release only counts down.                        *)
LockRelease(t) ==
  LET l == lk[t] IN
  /\ At(t, "cs")
  /\ \/ /\ repeat[l] > 1
        /\ sched' = ASSERT(sched, holder[l] = t)
        /\ repeat' = [repeat EXCEPT ![l] = repeat[l] - 1]
        /\ UNCHANGED pc
     \/ /\ repeat[l] <= 1
        /\ sched' = ASSERT(sched, holder[l] = t /\ repeat[l] = 1)
        /\ Goto(t, "clear")
        /\ UNCHANGED repeat
  /\ UNCHANGED <<intr, old, lk, value, waiters, holder, sleeper>>

ClearHolder(t) ==
  /\ At(t, "clear")
  /\ holder' = [holder EXCEPT ![lk[t]] = NoTask]
  /\ Goto(t, "zero")
  /\ UNCHANGED <<sched, intr, old, lk, value, waiters, repeat, sleeper>>

ClearRepeat(t) ==
  /\ At(t, "zero")
  /\ repeat' = [repeat EXCEPT ![lk[t]] = 0]
  /\ Goto(t, "up")
  /\ UNCHANGED <<sched, intr, old, lk, value, waiters, holder, sleeper>>

(* Faulty variants of sema_up: nobody is woken; the waiter is unblocked    *)
(* but not unlinked.                                                       *)
UpWithoutWake(t) ==
  /\ At(t, "up")
  /\ value' = [value EXCEPT ![lk[t]] = value[lk[t]] + 1]
  /\ Goto(t, "kernel")
  /\ UNCHANGED <<sched, intr, old, lk, waiters, holder, repeat, sleeper>>

UpWithoutPop(t) ==
  LET l == lk[t] IN
  /\ At(t, "up")
  /\ sched' = IF waiters[l] = <<>> THEN sched
              ELSE thread_unblock(sched, Head(waiters[l]))
  /\ value' = [value EXCEPT ![l] = value[l] + 1]
  /\ Goto(t, "kernel")
  /\ UNCHANGED <<intr, old, lk, waiters, holder, repeat, sleeper>>

(* sema_up, with interrupts off throughout: the first waiter becomes READY *)
(* but must test the value again when it runs.                             *)
SemaUp(t) ==
  LET l == lk[t]
      s == ASSERT(sched, value[l] = 0)
  IN
  /\ At(t, "up")
  /\ \/ /\ waiters[l] = <<>>
        /\ sched' = s
        /\ UNCHANGED waiters
     \/ /\ waiters[l] # <<>>
        /\ sched' = thread_unblock(s, Head(waiters[l]))
        /\ waiters' = [waiters EXCEPT ![l] = Tail(waiters[l])]
  /\ value' = [value EXCEPT ![l] = value[l] + 1]
  /\ Goto(t, "kernel")
  /\ UNCHANGED <<intr, old, lk, holder, repeat, sleeper>>

-----------------------------------------------------------------------------
(* What a lock holder does that gives the CPU away.                        *)

(* msleep in busy_wait: thread_yield with the channel lock held.           *)
Yield(t) ==
  /\ At(t, "cs")
  /\ sched' = thread_yield(sched)
  /\ UNCHANGED <<pc, intr, old, lk, value, waiters, holder, repeat, sleeper>>

(* ioq_wait: sleep with the lock held until an interrupt handler wakes us; *)
(* only system calls do this, with interrupts off.                         *)
IoqWait(t) ==
  LET l == lk[t]
      s == ASSERT(sched, sleeper[l] = NoTask)
  IN
  /\ At(t, "cs") /\ ~intr[t]
  /\ sched' = thread_block(s, "BLOCKED")
  /\ sleeper' = [sleeper EXCEPT ![l] = t]
  /\ UNCHANGED <<pc, intr, old, lk, value, waiters, holder, repeat>>

(* idle(): block; when woken for want of other work, halt.                 *)
IdleBlock ==
  /\ At(Idle, "idle")
  /\ sched' = thread_block(sched, "BLOCKED")
  /\ Goto(Idle, "sti")
  /\ UNCHANGED <<intr, old, lk, value, waiters, holder, repeat, sleeper>>

IdleHalt ==
  /\ At(Idle, "sti")
  /\ Goto(Idle, "hlt")
  /\ UNCHANGED <<sched, intr, old, lk, value, waiters, holder, repeat, sleeper>>

-----------------------------------------------------------------------------
(* Interrupts: taken when the running context has IF = 1; hlt ends with    *)
(* the handler's return.                                                   *)
Interruptible == ~sched.panic /\ intr[sched.cur]

ResumeHlt ==
  pc' = IF sched.cur = Idle /\ pc[Idle] = "hlt"
          THEN [pc EXCEPT ![Idle] = "idle"] ELSE pc

Tick ==
  /\ Interruptible
  /\ sched' = timer_tick(sched)
  /\ ResumeHlt
  /\ UNCHANGED <<intr, old, lk, value, waiters, holder, repeat, sleeper>>

(* A device handler finds a sleeping task: wakeup(&ioq->consumer).         *)
DeviceIntr(l) ==
  /\ Interruptible
  /\ sleeper[l] # NoTask
  /\ sched' = thread_unblock(sched, sleeper[l])
  /\ sleeper' = [sleeper EXCEPT ![l] = NoTask]
  /\ ResumeHlt
  /\ UNCHANGED <<intr, old, lk, value, waiters, holder, repeat>>

-----------------------------------------------------------------------------
Step(t) ==
  \/ SyscallEnter(t) \/ SyscallExit(t)
  \/ \E l \in Lock : LockAcquire(t, l)
  \/ SemaDownEnter(t) \/ SemaDownBlock(t) \/ SemaDownTake(t)
  \/ SetHolder(t) \/ SetRepeat(t)
  \/ LockRelease(t) \/ ClearHolder(t) \/ ClearRepeat(t) \/ SemaUp(t)
  \/ Yield(t) \/ IoqWait(t)

Next ==
  \/ \E t \in Task \ {Idle} : Step(t)
  \/ IdleBlock \/ IdleHalt
  \/ Tick
  \/ \E l \in Lock : DeviceIntr(l)

Spec == Init /\ [][Next]_vars

(***************************************************************************)
(* Fairness, of the kernel's own steps only.  The CPU never stops          *)
(* executing the running context (SF: a task that gets the CPU again and   *)
(* again executes; the 10 ms tick is far apart from instructions), the     *)
(* timer keeps ticking and the PIC latches its interrupt until IF is set   *)
(* again (SF), and a lock holder finishes: it neither nests nor yields for *)
(* ever, because every critical section in the kernel is a bounded piece   *)
(* of code (SF of its release).  Nothing is assumed of programs, which     *)
(* need never enter the kernel, nor of DeviceIntr, the key or the other    *)
(* end of the pipe, which need never come.                                 *)
(***************************************************************************)
NestedRelease(t) == LockRelease(t) /\ repeat[lk[t]] > 1

LastRelease(t) == LockRelease(t) /\ repeat[lk[t]] <= 1

Work(t) ==
  \/ SyscallExit(t)
  \/ SemaDownEnter(t) \/ SemaDownBlock(t) \/ SemaDownTake(t)
  \/ SetHolder(t) \/ SetRepeat(t)
  \/ LastRelease(t) \/ ClearHolder(t) \/ ClearRepeat(t) \/ SemaUp(t)

Fairness ==
  /\ \A t \in Task \ {Idle} : SF_vars(Work(t)) /\ SF_vars(NestedRelease(t))
  /\ SF_vars(IdleBlock \/ IdleHalt)
  /\ SF_vars(Tick)

FairSpec == Spec /\ Fairness

-----------------------------------------------------------------------------
(* The type invariant: what each struct field of sync.h and thread.h may   *)
(* hold.                                                                   *)
TypeOK ==
  /\ sched \in SchedType
  /\ pc \in [Task -> PC]
  /\ intr \in [Task -> BOOLEAN]
  /\ old \in [Task -> BOOLEAN]
  /\ lk \in [Task -> Lock]
  /\ value \in [Lock -> Nat]
  /\ waiters \in [Lock -> Seq(Task)]
  /\ holder \in [Lock -> Task \cup {NoTask}]
  /\ repeat \in [Lock -> Nat]
  /\ sleeper \in [Lock -> Task \cup {NoTask}]

Owns(t, l) == pc[t] \in Owning /\ lk[t] = l

(* Two tasks are never both between sema_down's decrement and sema_up's    *)
(* increment of the same lock, whatever the timer preempts and however a   *)
(* woken waiter and a newcomer race for the value.                         *)
MutualExclusion ==
  \A t, u \in Task : \A l \in Lock : Owns(t, l) /\ Owns(u, l) => t = u

(* No ASSERT or PANIC of thread_unblock, schedule, thread_yield,           *)
(* sema_down, sema_up, lock_acquire, lock_release or ioq_wait ever fires.  *)
NoPanic == ~sched.panic

(* A waiter is never forgotten: when a lock is free although tasks sleep   *)
(* on it, some task that sema_up woke is on its way to take the value.     *)
NoLostWakeup ==
  \A l \in Lock :
    value[l] = 1 /\ waiters[l] # <<>> =>
      \E t \in Task : /\ pc[t] = "down" /\ lk[t] = l
                      /\ sched.status[t] \in {"READY", "RUNNING"}

(* A PCB has one general_tag for the ready list and for every waiters      *)
(* list: no task is ever linked into two of these lists, or twice in one.  *)
TagInOneList ==
  /\ NoDuplicates(sched.ready)
  /\ \A l \in Lock :
       /\ NoDuplicates(waiters[l])
       /\ \A t \in Task : elem_find(waiters[l], t) =>
            /\ ~elem_find(sched.ready, t)
            /\ \A m \in Lock \ {l} : ~elem_find(waiters[m], t)

(* No task sleeps for nothing: one with status BLOCKED is idle, or is in   *)
(* the waiters list of the lock it wants, or is the task that lock's       *)
(* interrupt handler will wake; no other field remembers it.               *)
SleepersAreRemembered ==
  \A t \in Task :
    sched.status[t] \in Asleep =>
      \/ t = Idle
      \/ pc[t] = "down" /\ elem_find(waiters[lk[t]], t)
      \/ pc[t] = "cs" /\ sleeper[lk[t]] = t

(* lock.holder and holder_repeat_nr say who is inside: the task between    *)
(* lock_acquire's return and lock_release is the holder, counted at least  *)
(* once, and a lock whose holder is NULL counts nothing unless it is just  *)
(* being released.                                                         *)
HolderIsInside ==
  /\ \A t \in Task : pc[t] = "cs" => holder[lk[t]] = t /\ repeat[lk[t]] >= 1
  /\ \A l \in Lock : value[l] = 1 => holder[l] = NoTask /\ repeat[l] = 0

-----------------------------------------------------------------------------
(* The inductive invariant, part by part.                                  *)

PcOK ==
  \A t \in Task : t = Idle <=> pc[t] \in {"idle", "sti", "hlt"}

StatusOK ==
  \A t \in Task :
    /\ sched.status[t] \in {"RUNNING", "READY", "BLOCKED"}
    /\ sched.status[t] = "BLOCKED" /\ t # Idle => pc[t] \in {"down", "cs"}

WaitersOK ==
  \A l \in Lock :
    /\ NoDuplicates(waiters[l])
    /\ \A t \in Task :
         elem_find(waiters[l], t)
           <=> sched.status[t] = "BLOCKED" /\ pc[t] = "down" /\ lk[t] = l

SleeperOK ==
  \A l \in Lock : \A t \in Task :
    sleeper[l] = t <=> sched.status[t] = "BLOCKED" /\ pc[t] = "cs" /\ lk[t] = l

ValueOK ==
  \A l \in Lock :
    /\ value[l] \in {0, 1}
    /\ value[l] = 0 <=> \E t \in Task : Owns(t, l)

HolderOK ==
  \A l \in Lock : \A t \in Task :
    holder[l] = t <=> pc[t] \in {"count", "cs", "clear"} /\ lk[t] = l

RepeatOK ==
  /\ \A l \in Lock : value[l] = 1 => repeat[l] = 0
  /\ \A t \in Task :
       /\ pc[t] = "cs" => repeat[lk[t]] >= 1
       /\ pc[t] \in {"clear", "zero"} => repeat[lk[t]] = 1
       /\ pc[t] \in {"own", "count", "up"} => repeat[lk[t]] = 0

IInv ==
  /\ TypeOK /\ SchedOK(sched)
  /\ PcOK /\ StatusOK /\ WaitersOK /\ SleeperOK
  /\ ValueOK /\ MutualExclusion /\ HolderOK /\ RepeatOK /\ NoLostWakeup

-----------------------------------------------------------------------------
(* Every lock behaves as the abstract Mutex whose owner is the task that   *)
(* took the semaphore's value.                                             *)
Owner ==
  [l \in Lock |-> IF \E t \in Task : Owns(t, l)
                    THEN CHOOSE t \in Task : Owns(t, l)
                    ELSE NoTask]

M == INSTANCE Mutex WITH Client <- Task, Resource <- Lock, Nobody <- NoTask,
                         owner <- Owner

ImplementsMutex == M!Spec

(* Deadlock freedom: while tasks are in sema_down for a lock, somebody     *)
(* gets it, unless a holder that sleeps in ioq_wait is from some time on   *)
(* never woken again: nobody presses a key, say.  That is a condition on   *)
(* the devices, not on the kernel.  (A particular waiter may starve:       *)
(* sema_up makes it READY but a newcomer can take the value first.)        *)
LockProgress ==
  \A l \in Lock :
    []<>(sleeper[l] = NoTask) =>
      ((\E t \in Task : pc[t] = "down" /\ lk[t] = l)
         ~> (\E t \in Task : pc[t] = "own" /\ lk[t] = l))
=============================================================================
