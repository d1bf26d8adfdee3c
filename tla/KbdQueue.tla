------------------------------ MODULE KbdQueue ------------------------------
(***************************************************************************)
(* The keyboard buffer: the ring of ioqueue.c filled by the keyboard       *)
(* interrupt and drained by processes in sys_read(stdin_no), which sleep   *)
(* in ioq_getchar with the queue's lock held while it is empty.            *)
(***************************************************************************)
EXTENDS SyscallLock, Ioqueue, FiniteSets

CONSTANTS
  Main,        \* the process that runs first
  InitReady,   \* the ready list at the start
  MaxCount     \* bound on the count of one sys_read

ASSUME KbdAssumption ==
  /\ Main \in Task \ {Idle}
  /\ InitReady \in Seq(Task) /\ NoDuplicates(InitReady)
  /\ \A t \in Task : elem_find(InitReady, t) <=> t # Main
  /\ MaxCount \in Nat \ {0}

VARIABLES
  sched,       \* scheduler record
  pc,          \* where each task is, see PC
  left,        \* characters the current sys_read still has to deliver
  lock,        \* ioq->lock
  consumer,    \* ioq->consumer
  kbd_buf,     \* the ring
  callers      \* history: the processes that have called sys_read

vars == <<sched, pc, left, lock, consumer, kbd_buf, callers>>

(* user   user mode                     read   ioq_getchar's while test    *)
(* lock   asleep in lock_acquire        wait   about to sleep as consumer  *)
(* woken  asleep or awake in ioq_wait   idle / hlt  idle's loop            *)
PC == {"user", "read", "lock", "wait", "woken", "idle", "hlt"}

Init ==
  /\ sched = [cur |-> Main, ready |-> InitReady,
              status |-> [t \in Task |-> IF t = Main THEN "RUNNING" ELSE "READY"],
              ticks |-> Prio, panic |-> FALSE]
  /\ pc = [t \in Task |-> IF t = Idle THEN "idle" ELSE "user"]
  /\ left = [t \in Task |-> 0]
  /\ lock = FreeLock
  /\ consumer = NoTask
  /\ kbd_buf = ioqueue_init
  /\ callers = {}

-----------------------------------------------------------------------------
At(t, label) == ~sched.panic /\ sched.cur = t /\ pc[t] = label
Goto(t, label) == pc' = [pc EXCEPT ![t] = label]

(* sys_read(stdin_no, buf, count).                                         *)
SysRead(t, count) ==
  /\ At(t, "user")
  /\ left' = [left EXCEPT ![t] = count]
  /\ callers' = callers \cup {t}
  /\ Goto(t, "read")
  /\ UNCHANGED <<sched, lock, consumer, kbd_buf>>

(* ioq_getchar on an empty ring: take the queue's lock ...                 *)
GetLock(t) ==
  /\ \/ At(t, "read") /\ ioq_empty(kbd_buf)
     \/ At(t, "lock")
  /\ IF CanTake(lock, t)
       THEN /\ lock' = Take(lock, t)
            /\ Goto(t, "wait")
            /\ UNCHANGED sched
       ELSE /\ lock' = Enqueue(lock, t)
            /\ Goto(t, "lock")
            /\ sched' = thread_block(sched, "BLOCKED")
  /\ UNCHANGED <<left, consumer, kbd_buf, callers>>

(* Faulty variant: the sleeper does not register as consumer.              *)
WaitUnregistered(t) ==
  /\ At(t, "wait")
  /\ sched' = thread_block(sched, "BLOCKED")
  /\ Goto(t, "woken")
  /\ UNCHANGED <<left, lock, consumer, kbd_buf, callers>>

(* ... sleep as its consumer, holding the lock ...                         *)
IoqWait(t) ==
  /\ At(t, "wait")
  /\ consumer' = t
  /\ sched' = thread_block(ASSERT(sched, consumer = NoTask), "BLOCKED")
  /\ Goto(t, "woken")
  /\ UNCHANGED <<left, lock, kbd_buf, callers>>

(* ... and when woken release the lock and test again.                     *)
ReleaseLock(t) ==
  /\ At(t, "woken")
  /\ sched' = ReleaseSched(sched, lock, t)
  /\ lock' = Release(lock)
  /\ Goto(t, "read")
  /\ UNCHANGED <<left, consumer, kbd_buf, callers>>

(* ioq_getchar on a ring with data.  (No task ever waits as producer: the  *)
(* handler tests ioq_full first.)  After the last character the call       *)
(* returns to user mode.                                                   *)
TakeChar(t) ==
  /\ At(t, "read") /\ ~ioq_empty(kbd_buf)
  /\ kbd_buf' = GetChar(kbd_buf)
  /\ left' = [left EXCEPT ![t] = left[t] - 1]
  /\ Goto(t, IF left[t] = 1 THEN "user" ELSE "read")
  /\ UNCHANGED <<sched, lock, consumer, callers>>

-----------------------------------------------------------------------------
(* Interrupts arrive only in user mode and in idle, whose hlt they end.    *)
Interruptible == ~sched.panic /\ pc[sched.cur] \in {"user", "idle", "hlt"}

ResumeHlt == pc' = [pc EXCEPT ![sched.cur] = IF pc[sched.cur] = "hlt" THEN "idle"
                                             ELSE pc[sched.cur]]

(* Faulty variants of the handler: it does not test for a full ring, or    *)
(* does not wake the consumer.                                             *)
KeyUntested(c) ==
  /\ Interruptible
  /\ kbd_buf' = PutChar(kbd_buf, c)
  /\ sched' = IF consumer = NoTask THEN sched ELSE thread_unblock(sched, consumer)
  /\ consumer' = NoTask
  /\ ResumeHlt
  /\ UNCHANGED <<left, lock, callers>>

KeyWakesNobody(c) ==
  /\ Interruptible
  /\ ~ioq_full(kbd_buf)
  /\ kbd_buf' = PutChar(kbd_buf, c)
  /\ ResumeHlt
  /\ UNCHANGED <<sched, left, lock, consumer, callers>>

(* A key press: dropped when the ring is full, otherwise ioq_putchar,      *)
(* which wakes the sleeping consumer.                                      *)
KeyIntr(c) ==
  /\ Interruptible
  /\ ~ioq_full(kbd_buf)
  /\ kbd_buf' = PutChar(kbd_buf, c)
  /\ sched' = IF consumer = NoTask THEN sched ELSE thread_unblock(sched, consumer)
  /\ consumer' = NoTask
  /\ ResumeHlt
  /\ UNCHANGED <<left, lock, callers>>

Tick ==
  /\ Interruptible
  /\ sched' = timer_tick(sched)
  /\ ResumeHlt
  /\ UNCHANGED <<left, lock, consumer, kbd_buf, callers>>

IdleBlock ==
  /\ At(Idle, "idle")
  /\ sched' = thread_block(sched, "BLOCKED")
  /\ Goto(Idle, "hlt")
  /\ UNCHANGED <<left, lock, consumer, kbd_buf, callers>>

Step(t) ==
  \/ \E n \in 1 .. MaxCount : SysRead(t, n)
  \/ GetLock(t) \/ IoqWait(t) \/ ReleaseLock(t) \/ TakeChar(t)

Next ==
  \/ \E t \in Task \ {Idle} : Step(t)
  \/ IdleBlock
  \/ \E c \in Char : KeyIntr(c)
  \/ Tick

Spec == Init /\ [][Next]_vars

(***************************************************************************)
(* The CPU keeps executing the task that has it, and the timer interrupt   *)
(* is held by the PIC until it can be taken.  Nothing is assumed of the    *)
(* user's typing.                                                          *)
(***************************************************************************)
Fairness ==
  /\ \A t \in Task \ {Idle} :
       SF_vars(GetLock(t) \/ IoqWait(t) \/ ReleaseLock(t) \/ TakeChar(t))
  /\ SF_vars(IdleBlock) /\ SF_vars(Tick)

FairSpec == Spec /\ Fairness

-----------------------------------------------------------------------------
TypeOK ==
  /\ sched \in SchedType
  /\ pc \in [Task -> PC]
  /\ left \in [Task -> 0 .. MaxCount]
  /\ lock.value \in {0, 1} /\ lock.holder \in Task \cup {NoTask}
  /\ consumer \in Task \cup {NoTask}
  /\ kbd_buf \in Ring /\ callers \subseteq Task

(* No ASSERT of ioq_wait, wakeup, lock_release or the scheduler fires.     *)
SchedulerOK == TypeOK /\ SchedOK(sched)

(* The ring is a first-in first-out queue of bufsize - 1 characters.       *)
F == INSTANCE Fifo WITH Item <- Char, Capacity <- bufsize - 1,
                       queue <- Contents(kbd_buf)

IsFifo == F!Spec

(* While readers sleep in ioq_getchar, one of them is the consumer that    *)
(* the handler wakes when it stores a key, or one of them has been woken   *)
(* and will test the ring or pass the lock on; and no ASSERT on the way    *)
(* (ioq_wait, wakeup, lock_release, the scheduler) fires.                  *)
KeyWakesSomeone ==
  /\ SchedulerOK
  /\ (\E t \in Task : pc[t] \in {"lock", "woken"}) =>
      \/ consumer # NoTask /\ pc[consumer] = "woken"
      \/ \E t \in Task : /\ pc[t] \in {"lock", "wait", "woken"}
                         /\ sched.status[t] \in {"READY", "RUNNING"}

(* The comment in ioq_getchar says a consumer blocks there when there is   *)
(* no data.  It is true as long as one process reads the keyboard; a       *)
(* second one sleeps for the lock and does not test the ring again before  *)
(* it sleeps as the consumer.                                              *)
BlocksOnlyWithoutData ==
  Cardinality(callers) <= 1 => (consumer # NoTask => ioq_empty(kbd_buf))

(* Typed characters are delivered to the process that is reading: the ring *)
(* is drained, the call gets all it asked for, or another reader appears.  *)
ReadReturns ==
  \A t \in Task \ {Idle} :
    (callers = {t} /\ pc[t] # "user" /\ ~ioq_empty(kbd_buf))
      ~> (pc[t] = "user" \/ ioq_empty(kbd_buf) \/ callers # {t})
=============================================================================
