-------------------------------- MODULE Pipe --------------------------------
(***************************************************************************)
(* One pipe between processes (pipe.c on the ring of ioqueue.c): a read    *)
(* takes what is there, up to count, and a write puts as much as pipe_write*)
(* thinks fits, sleeping in ioq_putchar when the ring turns out full.      *)
(* All of it runs inside system calls, with interrupts off.                *)
(***************************************************************************)
EXTENDS SyscallLock, Ioqueue

CONSTANTS
  Main, InitReady,
  Writer, Reader,   \* the processes that hold an end of the pipe
  MaxCount          \* bound on the count of one call

ASSUME PipeAssumption ==
  /\ Main \in Task \ {Idle}
  /\ InitReady \in Seq(Task) /\ NoDuplicates(InitReady)
  /\ \A t \in Task : elem_find(InitReady, t) <=> t # Main
  /\ Writer \subseteq Task \ {Idle} /\ Reader \subseteq Task \ {Idle}
  /\ MaxCount \in Nat \ {0}

VARIABLES
  sched, pc,
  left,        \* characters the call still has to move
  lock,        \* ioq->lock
  producer,    \* ioq->producer
  ring,        \* the ring
  callers      \* history: the processes that have called pipe_write

vars == <<sched, pc, left, lock, producer, ring, callers>>

(* user  user mode                      put    pipe_write's loop           *)
(* get   pipe_read's loop               lock   asleep in lock_acquire      *)
(* wait  about to sleep as producer     woken  asleep or awake in ioq_wait *)
PC == {"user", "put", "get", "lock", "wait", "woken", "idle", "hlt"}

Init ==
  /\ sched = [cur |-> Main, ready |-> InitReady,
              status |-> [t \in Task |-> IF t = Main THEN "RUNNING" ELSE "READY"],
              ticks |-> Prio, panic |-> FALSE]
  /\ pc = [t \in Task |-> IF t = Idle THEN "idle" ELSE "user"]
  /\ left = [t \in Task |-> 0]
  /\ lock = FreeLock
  /\ producer = NoTask
  /\ ring = ioqueue_init
  /\ callers = {}

-----------------------------------------------------------------------------
At(t, label) == ~sched.panic /\ sched.cur = t /\ pc[t] = label
Goto(t, label) == pc' = [pc EXCEPT ![t] = label]

Smaller(m, n) == IF m > n THEN n ELSE m

(* The loop's next label: size characters are to be moved.                 *)
Loop(t, label, size) ==
  /\ left' = [left EXCEPT ![t] = size]
  /\ Goto(t, IF size = 0 THEN "user" ELSE label)

(* Faulty variant: a read sets out to take all it was asked for.           *)
ReadAll(t, count) ==
  /\ At(t, "user") /\ t \in Reader
  /\ Loop(t, "get", count)
  /\ UNCHANGED <<sched, lock, producer, ring, callers>>

(* pipe_read computes its size from what is in the ring now.               *)
pipe_read(t, count) ==
  /\ At(t, "user") /\ t \in Reader
  /\ Loop(t, "get", Smaller(ioq_length(ring), count))
  /\ UNCHANGED <<sched, lock, producer, ring, callers>>

(* pipe_write computes its size from the slots that are not in use, the    *)
(* one that stays empty included.                                          *)
pipe_write(t, count) ==
  /\ At(t, "user") /\ t \in Writer
  /\ Loop(t, "put", Smaller(bufsize - ioq_length(ring), count))
  /\ callers' = callers \cup {t}
  /\ UNCHANGED <<sched, lock, producer, ring>>

(* Faulty variant: the producer is not woken.                              *)
TakeWakesNobody(t) ==
  /\ At(t, "get") /\ ~ioq_empty(ring)
  /\ ring' = GetChar(ring)
  /\ Loop(t, "get", left[t] - 1)
  /\ UNCHANGED <<sched, lock, producer, callers>>

(* ioq_getchar in pipe_read: an empty ring would put the reader to sleep;  *)
(* property ReadDoesNotBlock says it is never empty here.                  *)
TakeChar(t) ==
  /\ At(t, "get") /\ ~ioq_empty(ring)
  /\ ring' = GetChar(ring)
  /\ sched' = IF producer = NoTask THEN sched ELSE thread_unblock(sched, producer)
  /\ producer' = NoTask
  /\ Loop(t, "get", left[t] - 1)
  /\ UNCHANGED <<lock, callers>>

(* Faulty variant: a full ring is written to.                              *)
GiveUntested(t, c) ==
  /\ At(t, "put")
  /\ ring' = PutChar(ring, c)
  /\ Loop(t, "put", left[t] - 1)
  /\ UNCHANGED <<sched, lock, producer, callers>>

(* ioq_putchar.  (No task ever waits as consumer, see TakeChar.)           *)
GiveChar(t, c) ==
  /\ At(t, "put") /\ ~ioq_full(ring)
  /\ ring' = PutChar(ring, c)
  /\ Loop(t, "put", left[t] - 1)
  /\ UNCHANGED <<sched, lock, producer, callers>>

(* A full ring: take the queue's lock ...                                  *)
GetLock(t) ==
  /\ \/ At(t, "put") /\ ioq_full(ring)
     \/ At(t, "lock")
  /\ IF CanTake(lock, t)
       THEN /\ lock' = Take(lock, t)
            /\ Goto(t, "wait")
            /\ UNCHANGED sched
       ELSE /\ lock' = Enqueue(lock, t)
            /\ Goto(t, "lock")
            /\ sched' = thread_block(sched, "BLOCKED")
  /\ UNCHANGED <<left, producer, ring, callers>>

(* Faulty variant: the sleeper does not register as producer.              *)
WaitUnregistered(t) ==
  /\ At(t, "wait")
  /\ sched' = thread_block(sched, "BLOCKED")
  /\ Goto(t, "woken")
  /\ UNCHANGED <<left, lock, producer, ring, callers>>

(* ... sleep as its producer, holding the lock ...                         *)
IoqWait(t) ==
  /\ At(t, "wait")
  /\ producer' = t
  /\ sched' = thread_block(ASSERT(sched, producer = NoTask), "BLOCKED")
  /\ Goto(t, "woken")
  /\ UNCHANGED <<left, lock, ring, callers>>

(* ... and when woken release the lock and test again.                     *)
ReleaseLock(t) ==
  /\ At(t, "woken")
  /\ sched' = ReleaseSched(sched, lock, t)
  /\ lock' = Release(lock)
  /\ Goto(t, "put")
  /\ UNCHANGED <<left, producer, ring, callers>>

-----------------------------------------------------------------------------
Interruptible == ~sched.panic /\ pc[sched.cur] \in {"user", "idle", "hlt"}

Tick ==
  /\ Interruptible
  /\ sched' = timer_tick(sched)
  /\ pc' = [pc EXCEPT ![sched.cur] = IF pc[sched.cur] = "hlt" THEN "idle"
                                     ELSE pc[sched.cur]]
  /\ UNCHANGED <<left, lock, producer, ring, callers>>

IdleBlock ==
  /\ At(Idle, "idle")
  /\ sched' = thread_block(sched, "BLOCKED")
  /\ Goto(Idle, "hlt")
  /\ UNCHANGED <<left, lock, producer, ring, callers>>

Work(t) ==
  \/ TakeChar(t)
  \/ \E c \in Char : GiveChar(t, c)
  \/ GetLock(t) \/ IoqWait(t) \/ ReleaseLock(t)

Next ==
  \/ \E t \in Task \ {Idle} :
       \/ \E n \in 1 .. MaxCount : pipe_read(t, n) \/ pipe_write(t, n)
       \/ Work(t)
  \/ Tick \/ IdleBlock

Spec == Init /\ [][Next]_vars

(* The CPU executes the task that has it and timer interrupts come;        *)
(* nothing is assumed of what the programs call.                           *)
Fairness ==
  /\ \A t \in Task \ {Idle} : SF_vars(Work(t))
  /\ SF_vars(Tick) /\ SF_vars(IdleBlock)

FairSpec == Spec /\ Fairness

-----------------------------------------------------------------------------
TypeOK ==
  /\ sched \in SchedType
  /\ pc \in [Task -> PC]
  /\ left \in [Task -> 0 .. MaxCount]
  /\ lock.value \in {0, 1} /\ lock.holder \in Task \cup {NoTask}
  /\ producer \in Task \cup {NoTask}
  /\ ring \in Ring /\ callers \subseteq Writer

(* No ASSERT of ioq_wait, wakeup, lock_release or the scheduler fires,     *)
(* however many processes hold the pipe's ends.                            *)
SchedulerOK == TypeOK /\ SchedOK(sched)

(* What is read from the pipe is what was written, in order, across the    *)
(* wrap-around and across writers that sleep in the middle of a write.     *)
F == INSTANCE Fifo WITH Item <- Char, Capacity <- bufsize - 1,
                        queue <- Contents(ring)

IsFifo == F!Spec

(* "Choose the smaller amount to read, to avoid blocking": the ring holds  *)
(* all that pipe_read set out to take, although other processes use it.    *)
ReadDoesNotBlock ==
  \A t \in Task : pc[t] = "get" => left[t] <= ioq_length(ring)

(* The next read always finds somebody to wake: while writers sleep in     *)
(* ioq_putchar one of them is the registered producer, or one of them is   *)
(* awake and will test the ring or pass the lock on; and no ASSERT on the  *)
(* way fires.                                                              *)
ReadWakesSomeone ==
  /\ SchedulerOK
  /\ (\E t \in Task : pc[t] \in {"lock", "woken"}) =>
      \/ producer # NoTask /\ pc[producer] = "woken"
      \/ \E t \in Task : /\ pc[t] \in {"lock", "wait", "woken"}
                         /\ sched.status[t] \in {"READY", "RUNNING"}

(* As long as one process writes to the pipe, a writer that slept goes on  *)
(* once there is room: its call returns or fills the ring again.           *)
WriterResumes ==
  \A t \in Writer :
    (callers = {t} /\ pc[t] \in {"woken", "put"} /\ ~ioq_full(ring)) ~>
      (pc[t] = "user" \/ ioq_full(ring) \/ callers # {t})
=============================================================================
