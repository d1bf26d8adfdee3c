----------------------------- MODULE PipeProofs -----------------------------
(***************************************************************************)
(* Proofs about a pipe, however many processes hold its ends: it is a      *)
(* first-in first-out queue, a read never finds the ring empty, the next   *)
(* read finds a sleeping writer to wake, and no ASSERT on the way fires.   *)
(***************************************************************************)
EXTENDS Pipe, ThreadProofs

-----------------------------------------------------------------------------
(* The inductive invariant.                                                *)

(* A writer in its call has characters left to put.                        *)
WritersOK ==
  \A t \in Task : pc[t] \in {"put", "lock", "wait", "woken"} => left[t] >= 1

(* A reader in its loop has the processor until it is done, and the ring   *)
(* holds all it still has to take.                                         *)
ReadersOK ==
  \A t \in Task : pc[t] = "get" =>
    t = sched.cur /\ left[t] >= 1 /\ left[t] <= ioq_length(ring)

PipeInv == TypeOK /\ QueueInv(sched, pc, lock, producer) /\ WritersOK /\ ReadersOK

(* The initial state, with every lock free and nobody in a call.           *)
LEMMA PipeInit == Init => PipeInv
<1> SUFFICES ASSUME Init PROVE PipeInv
  OBVIOUS
<1>1. /\ sched \in SchedType /\ sched.cur = Main /\ sched.ready = InitReady
      /\ sched.status = [t \in Task |-> IF t = Main THEN "RUNNING" ELSE "READY"]
      /\ sched.panic = FALSE
  BY PipeAssumption, TaskAssumption DEF Init, SchedType, Status
<1>2. SchedOK(sched)
  BY <1>1, PipeAssumption, TaskAssumption DEF SchedOK
<1>3. pc \in [Task -> PC] /\ \A t \in Task : pc[t] = IF t = Idle THEN "idle" ELSE "user"
  BY DEF Init, PC
<1>4. Queueing(pc) = {} /\ Holding(pc) = {}
  BY <1>3 DEF Queueing, Holding
<1>5. LockInv(sched, lock, {}, {})
  BY InitLock DEF Init
<1>6. QueueInv(sched, pc, lock, producer)
  BY <1>1, <1>2, <1>3, <1>4, <1>5 DEF QueueInv, Init
<1>7. ring \in Ring /\ left \in [Task -> 0 .. MaxCount] /\ callers \subseteq Writer
  BY InitRing, PipeAssumption DEF Init
<1>8. WritersOK /\ ReadersOK
  BY <1>3 DEF WritersOK, ReadersOK
<1>9. QED
  BY <1>3, <1>6, <1>7, <1>8 DEF PipeInv, TypeOK, QueueInv, LockInv, LockType

-----------------------------------------------------------------------------
(* One lemma per action.                                                   *)

(* A step of the running task's loop that keeps the lock and the sleeper:  *)
(* size characters are left and the next label is label or user.           *)
LEMMA LoopStep ==
  ASSUME PipeInv, NEW t \in Task \ {Idle}, sched.cur = t,
         pc[t] \in {"user", "put", "get"}, NEW label \in {"put", "get"},
         NEW size \in 0 .. MaxCount, Loop(t, label, size)
  PROVE  /\ QueueInv(sched, pc', lock, producer)
         /\ pc' \in [Task -> PC] /\ left' \in [Task -> 0 .. MaxCount]
         /\ pc'[t] = (IF size = 0 THEN "user" ELSE label) /\ left'[t] = size
         /\ \A u \in Task \ {t} : pc'[u] = pc[u] /\ left'[u] = left[u] /\ pc[u] # "get"
<1> DEFINE next == IF size = 0 THEN "user" ELSE label
<1>1. next \in PC /\ next \notin QueueLabels
  BY DEF PC, QueueLabels
<1>2. /\ pc \in [Task -> PC] /\ left \in [Task -> 0 .. MaxCount]
      /\ pc' = [pc EXCEPT ![t] = next] /\ left' = [left EXCEPT ![t] = size]
      /\ QueueInv(sched, pc, lock, producer)
  BY DEF PipeInv, TypeOK, Loop, Goto
<1>3. pc[t] \notin QueueLabels
  BY DEF QueueLabels
<1> HIDE DEF next
<1>4. QueueInv(sched, pc', lock, producer)
  BY <1>1, <1>2, <1>3, QueuePlain
<1>5. \A u \in Task \ {t} : pc[u] # "get"
  BY DEF PipeInv, ReadersOK
<1>6. QED
  BY <1>1, <1>2, <1>4, <1>5 DEF next

LEMMA ReadInv ==
  ASSUME PipeInv, NEW t \in Task \ {Idle}, NEW n \in 1 .. MaxCount, pipe_read(t, n)
  PROVE  PipeInv'
<1> DEFINE size == Smaller(ioq_length(ring), n)
<1>1. ring \in Ring /\ ioq_length(ring) \in Nat
  BY LengthRange, IoqueueAssumption DEF PipeInv, TypeOK
<1>2. size \in 0 .. MaxCount /\ size <= ioq_length(ring)
  BY <1>1, PipeAssumption DEF Smaller
<1>3. /\ sched.cur = t /\ pc[t] = "user" /\ Loop(t, "get", size)
      /\ UNCHANGED <<sched, lock, producer, ring, callers>>
  BY DEF pipe_read, At
<1> HIDE DEF size
<1>4. /\ QueueInv(sched, pc', lock, producer)
      /\ pc' \in [Task -> PC] /\ left' \in [Task -> 0 .. MaxCount]
      /\ pc'[t] = (IF size = 0 THEN "user" ELSE "get") /\ left'[t] = size
      /\ \A u \in Task \ {t} : pc'[u] = pc[u] /\ left'[u] = left[u] /\ pc[u] # "get"
  BY <1>2, <1>3, LoopStep
<1>5. QueueInv(sched, pc, lock, producer)'
  BY <1>3, <1>4
<1>6. TypeOK'
  BY <1>3, <1>4 DEF TypeOK, PipeInv
<1>7. WritersOK'
  BY <1>4 DEF WritersOK, PipeInv
<1>8. ReadersOK'
  BY <1>2, <1>3, <1>4 DEF ReadersOK, PipeInv, ioq_length
<1>9. QED
  BY <1>5, <1>6, <1>7, <1>8 DEF PipeInv

LEMMA WriteInv ==
  ASSUME PipeInv, NEW t \in Task \ {Idle}, NEW n \in 1 .. MaxCount, pipe_write(t, n)
  PROVE  PipeInv'
<1> DEFINE size == Smaller(bufsize - ioq_length(ring), n)
<1>1. ring \in Ring /\ bufsize - ioq_length(ring) \in Nat
  <2>1. ring \in Ring
    BY DEF PipeInv, TypeOK
  <2>2. ioq_length(ring) \in 0 .. bufsize - 1
    BY <2>1, LengthRange
  <2>3. QED
    BY <2>1, <2>2, IoqueueAssumption
<1>2. size \in 0 .. MaxCount
  BY <1>1, PipeAssumption DEF Smaller
<1>3. /\ sched.cur = t /\ pc[t] = "user" /\ Loop(t, "put", size)
      /\ callers' = callers \cup {t} /\ t \in Writer
      /\ UNCHANGED <<sched, lock, producer, ring>>
  BY DEF pipe_write, At
<1> HIDE DEF size
<1>4. /\ QueueInv(sched, pc', lock, producer)
      /\ pc' \in [Task -> PC] /\ left' \in [Task -> 0 .. MaxCount]
      /\ pc'[t] = (IF size = 0 THEN "user" ELSE "put") /\ left'[t] = size
      /\ \A u \in Task \ {t} : pc'[u] = pc[u] /\ left'[u] = left[u] /\ pc[u] # "get"
  BY <1>2, <1>3, LoopStep
<1>5. QueueInv(sched, pc, lock, producer)'
  BY <1>3, <1>4
<1>6. TypeOK'
  BY <1>3, <1>4 DEF TypeOK, PipeInv
<1>7. WritersOK'
  BY <1>2, <1>4 DEF WritersOK, PipeInv
<1>8. ReadersOK'
  BY <1>4 DEF ReadersOK
<1>9. QED
  BY <1>5, <1>6, <1>7, <1>8 DEF PipeInv

LEMMA TakeCharInv ==
  ASSUME PipeInv, NEW t \in Task \ {Idle}, TakeChar(t)
  PROVE  PipeInv'
<1> DEFINE size == left[t] - 1
<1>1. /\ sched.cur = t /\ pc[t] = "get" /\ Loop(t, "get", size)
      /\ ~ioq_empty(ring) /\ ring' = GetChar(ring) /\ producer' = NoTask
      /\ sched' = IF producer = NoTask THEN sched ELSE thread_unblock(sched, producer)
      /\ UNCHANGED <<lock, callers>>
  BY DEF TakeChar, At
<1>2. /\ ring \in Ring /\ left[t] \in 0 .. MaxCount /\ left[t] >= 1
      /\ left[t] <= ioq_length(ring)
  BY <1>1 DEF PipeInv, TypeOK, ReadersOK
<1>3. ring' \in Ring /\ ioq_length(ring)' = ioq_length(ring) - 1 /\ ioq_length(ring) \in Nat
  <2>1. GetChar(ring) \in Ring /\ ioq_length(GetChar(ring)) = ioq_length(ring) - 1
    BY <1>1, <1>2, GetRing
  <2>2. ioq_length(ring) \in Nat
    BY <1>2, LengthRange, IoqueueAssumption
  <2>3. QED
    BY <1>1, <2>1, <2>2
<1>4. size \in 0 .. MaxCount /\ size <= ioq_length(ring)'
  BY <1>2, <1>3, PipeAssumption
<1> HIDE DEF size
<1>5. /\ QueueInv(sched, pc', lock, producer)
      /\ pc' \in [Task -> PC] /\ left' \in [Task -> 0 .. MaxCount]
      /\ pc'[t] = (IF size = 0 THEN "user" ELSE "get") /\ left'[t] = size
      /\ \A u \in Task \ {t} : pc'[u] = pc[u] /\ left'[u] = left[u] /\ pc[u] # "get"
  BY <1>1, <1>4, LoopStep
<1>6. sched'.cur = t /\ QueueInv(sched', pc', lock, NoTask)
  BY <1>1, <1>5, QueueWoken
<1>7. QueueInv(sched, pc, lock, producer)'
  BY <1>1, <1>6
<1>8. TypeOK'
  BY <1>1, <1>3, <1>5, <1>7 DEF TypeOK, PipeInv, QueueInv
<1>9. WritersOK'
  BY <1>5 DEF WritersOK, PipeInv
<1>10. ReadersOK'
  <2>1. pc'[t] = "get" => left'[t] >= 1
    BY <1>4, <1>5
  <2>2. QED
    BY <1>4, <1>5, <1>6, <2>1 DEF ReadersOK
<1>11. QED
  BY <1>7, <1>8, <1>9, <1>10 DEF PipeInv

LEMMA GiveCharInv ==
  ASSUME PipeInv, NEW t \in Task \ {Idle}, NEW c \in Char, GiveChar(t, c)
  PROVE  PipeInv'
<1> DEFINE size == left[t] - 1
<1>1. /\ sched.cur = t /\ pc[t] = "put" /\ Loop(t, "put", size)
      /\ ~ioq_full(ring) /\ ring' = PutChar(ring, c)
      /\ UNCHANGED <<sched, lock, producer, callers>>
  BY DEF GiveChar, At
<1>2. ring \in Ring /\ left[t] \in 0 .. MaxCount /\ left[t] >= 1
  BY <1>1 DEF PipeInv, TypeOK, WritersOK
<1>3. ring' \in Ring
  BY <1>1, <1>2, PutRing
<1>4. size \in 0 .. MaxCount
  BY <1>2, PipeAssumption
<1> HIDE DEF size
<1>5. /\ QueueInv(sched, pc', lock, producer)
      /\ pc' \in [Task -> PC] /\ left' \in [Task -> 0 .. MaxCount]
      /\ pc'[t] = (IF size = 0 THEN "user" ELSE "put") /\ left'[t] = size
      /\ \A u \in Task \ {t} : pc'[u] = pc[u] /\ left'[u] = left[u] /\ pc[u] # "get"
  BY <1>1, <1>4, LoopStep
<1>6. QueueInv(sched, pc, lock, producer)'
  BY <1>1, <1>5
<1>7. TypeOK'
  BY <1>1, <1>3, <1>5 DEF TypeOK, PipeInv
<1>8. WritersOK'
  BY <1>4, <1>5 DEF WritersOK, PipeInv
<1>9. ReadersOK'
  BY <1>5 DEF ReadersOK
<1>10. QED
  BY <1>6, <1>7, <1>8, <1>9 DEF PipeInv

(* Steps that put nobody into a read and leave the ring alone keep what    *)
(* the invariant says of calls.                                            *)
LEMMA CallsKept ==
  ASSUME PipeInv, UNCHANGED <<left, ring, callers>>,
         QueueInv(sched, pc, lock, producer)', pc' \in [Task -> PC],
         \A u \in Task : pc[u] # "get" /\ pc'[u] # "get",
         \A u \in Task : pc'[u] \in {"put", "lock", "wait", "woken"} =>
                           pc[u] \in {"put", "lock", "wait", "woken"}
  PROVE  PipeInv'
<1>1. TypeOK'
  BY DEF PipeInv, TypeOK, QueueInv, LockInv, LockType
<1>2. WritersOK' /\ ReadersOK'
  BY DEF PipeInv, WritersOK, ReadersOK
<1>3. QED
  BY <1>1, <1>2 DEF PipeInv

(* While another label is the running task's, nobody is in a read.         *)
LEMMA NobodyReads ==
  ASSUME PipeInv, pc[sched.cur] # "get"
  PROVE  \A u \in Task : pc[u] # "get"
BY DEF PipeInv, ReadersOK

LEMMA GetLockInv ==
  ASSUME PipeInv, NEW t \in Task \ {Idle}, GetLock(t)
  PROVE  PipeInv'
<1>1. /\ sched.cur = t /\ pc[t] \in {"put", "lock"} /\ pc \in [Task -> PC]
      /\ QueueInv(sched, pc, lock, producer)
      /\ UNCHANGED <<left, producer, ring, callers>>
  BY DEF GetLock, At, PipeInv, TypeOK
<1>2. \A u \in Task : pc[u] # "get"
  BY <1>1, NobodyReads
<1>3. CASE CanTake(lock, t)
  <2>1. pc' = [pc EXCEPT ![t] = "wait"] /\ lock' = Take(lock, t) /\ sched' = sched
    BY <1>3 DEF GetLock, Goto
  <2>2. QueueInv(sched, pc', Take(lock, t), producer)
    BY <1>1, <1>3, <2>1, QueueAcquired
  <2>3. QueueInv(sched, pc, lock, producer)'
    BY <1>1, <2>1, <2>2
  <2>4. /\ pc' \in [Task -> PC] /\ pc'[t] = "wait" /\ \A u \in Task \ {t} : pc'[u] = pc[u]
    BY <1>1, <2>1 DEF PC
  <2>5. QED
    BY <1>1, <1>2, <2>3, <2>4, CallsKept
<1>4. CASE ~CanTake(lock, t)
  <2>1. pc' = [pc EXCEPT ![t] = "lock"] /\ lock' = Enqueue(lock, t)
        /\ sched' = thread_block(sched, "BLOCKED")
    BY <1>4 DEF GetLock, Goto
  <2>2. QueueInv(sched', pc', lock', producer)
    BY <1>1, <1>4, <2>1, QueueQueued
  <2>3. QueueInv(sched, pc, lock, producer)'
    BY <1>1, <2>2
  <2>4. /\ pc' \in [Task -> PC] /\ pc'[t] = "lock" /\ \A u \in Task \ {t} : pc'[u] = pc[u]
    BY <1>1, <2>1 DEF PC
  <2>5. QED
    BY <1>1, <1>2, <2>3, <2>4, CallsKept
<1>5. QED
  BY <1>3, <1>4

LEMMA IoqWaitInv ==
  ASSUME PipeInv, NEW t \in Task \ {Idle}, IoqWait(t)
  PROVE  PipeInv'
<1>1. /\ sched.cur = t /\ pc[t] = "wait" /\ pc \in [Task -> PC]
      /\ QueueInv(sched, pc, lock, producer)
  BY DEF IoqWait, At, PipeInv, TypeOK
<1>2. /\ pc' = [pc EXCEPT ![t] = "woken"] /\ producer' = t
      /\ sched' = thread_block(ASSERT(sched, producer = NoTask), "BLOCKED")
      /\ UNCHANGED <<left, lock, ring, callers>>
  BY DEF IoqWait, Goto
<1>3. ASSERT(sched, producer = NoTask) = sched
  BY <1>1, NoOtherSleeper
<1>4. QueueInv(thread_block(sched, "BLOCKED"), [pc EXCEPT ![t] = "woken"], lock, t)
  BY <1>1, QueueSlept
<1>5. QueueInv(sched, pc, lock, producer)'
  BY <1>2, <1>3, <1>4
<1>6. /\ pc' \in [Task -> PC] /\ pc'[t] = "woken" /\ \A u \in Task \ {t} : pc'[u] = pc[u]
  BY <1>1, <1>2 DEF PC
<1>7. \A u \in Task : pc[u] # "get"
  BY <1>1, NobodyReads
<1>8. QED
  BY <1>1, <1>2, <1>5, <1>6, <1>7, CallsKept

LEMMA ReleaseLockInv ==
  ASSUME PipeInv, NEW t \in Task \ {Idle}, ReleaseLock(t)
  PROVE  PipeInv'
<1>1. /\ sched.cur = t /\ pc[t] = "woken" /\ pc \in [Task -> PC]
      /\ QueueInv(sched, pc, lock, producer)
  BY DEF ReleaseLock, At, PipeInv, TypeOK
<1>2. /\ pc' = [pc EXCEPT ![t] = "put"] /\ lock' = Release(lock)
      /\ sched' = ReleaseSched(sched, lock, t)
      /\ UNCHANGED <<left, producer, ring, callers>>
  BY DEF ReleaseLock, Goto
<1>3. "put" \in PC /\ "put" \notin QueueLabels
  BY DEF PC, QueueLabels
<1>4. QueueInv(ReleaseSched(sched, lock, t), [pc EXCEPT ![t] = "put"],
               Release(lock), producer)
  BY <1>1, <1>3, QueueReleased
<1>5. QueueInv(sched, pc, lock, producer)'
  BY <1>2, <1>4
<1>6. /\ pc' \in [Task -> PC] /\ pc'[t] = "put" /\ \A u \in Task \ {t} : pc'[u] = pc[u]
  BY <1>1, <1>2, <1>3
<1>7. \A u \in Task : pc[u] # "get"
  BY <1>1, NobodyReads
<1>8. QED
  BY <1>1, <1>2, <1>5, <1>6, <1>7, CallsKept

LEMMA TickInv ==
  ASSUME PipeInv, Tick
  PROVE  PipeInv'
<1>1. /\ sched \in SchedType /\ SchedOK(sched) /\ pc \in [Task -> PC]
      /\ QueueInv(sched, pc, lock, producer) /\ sched.cur \in Task
      /\ \A u \in Task : u = Idle <=> pc[u] \in {"idle", "hlt"}
  BY DEF PipeInv, QueueInv, TypeOK, SchedType
<1>2. /\ pc[sched.cur] \in {"user", "idle", "hlt"} /\ sched' = timer_tick(sched)
      /\ pc' = [pc EXCEPT ![sched.cur] = IF pc[sched.cur] = "hlt" THEN "idle"
                                         ELSE pc[sched.cur]]
      /\ UNCHANGED <<left, lock, producer, ring, callers>>
  BY DEF Tick, Interruptible
<1>3. /\ pc' \in [Task -> PC] /\ pc'[Idle] \in {"idle", "hlt"}
      /\ \A u \in Task \ {Idle} : pc'[u] = pc[u]
  BY <1>1, <1>2, TaskAssumption DEF PC
<1>4. sched' \in SchedType /\ SchedOK(sched') /\ WakesOnlyIdle(sched, sched')
  BY <1>1, <1>2, TickOK
<1>5. QueueInv(sched', pc', lock, producer)
  BY <1>1, <1>3, <1>4, QueueSwitch
<1>6. QueueInv(sched, pc, lock, producer)'
  BY <1>2, <1>5
<1>7. \A u \in Task : pc[u] # "get"
  BY <1>2, NobodyReads
<1>8. QED
  BY <1>2, <1>3, <1>6, <1>7, TaskAssumption, CallsKept

LEMMA IdleBlockInv ==
  ASSUME PipeInv, IdleBlock
  PROVE  PipeInv'
<1>1. /\ sched \in SchedType /\ SchedOK(sched) /\ pc \in [Task -> PC]
      /\ QueueInv(sched, pc, lock, producer)
  BY DEF PipeInv, QueueInv, TypeOK
<1>2. /\ sched.cur = Idle /\ pc[Idle] = "idle"
      /\ sched' = thread_block(sched, "BLOCKED") /\ pc' = [pc EXCEPT ![Idle] = "hlt"]
      /\ UNCHANGED <<left, lock, producer, ring, callers>>
  BY DEF IdleBlock, At, Goto
<1>3. /\ pc' \in [Task -> PC] /\ pc'[Idle] \in {"idle", "hlt"}
      /\ \A u \in Task \ {Idle} : pc'[u] = pc[u]
  BY <1>1, <1>2, TaskAssumption DEF PC
<1>4. sched' \in SchedType /\ SchedOK(sched') /\ WakesOnlyIdle(sched, sched')
  BY <1>1, <1>2, IdleBlocks
<1>5. QueueInv(sched', pc', lock, producer)
  BY <1>1, <1>3, <1>4, QueueSwitch
<1>6. QueueInv(sched, pc, lock, producer)'
  BY <1>2, <1>5
<1>7. \A u \in Task : pc[u] # "get"
  BY <1>2, NobodyReads
<1>8. QED
  BY <1>2, <1>3, <1>6, <1>7, TaskAssumption, CallsKept

LEMMA PipeNext == PipeInv /\ [Next]_vars => PipeInv'
<1> SUFFICES ASSUME PipeInv, [Next]_vars PROVE PipeInv'
  OBVIOUS
<1>1. ASSUME NEW t \in Task \ {Idle}, NEW n \in 1 .. MaxCount,
             pipe_read(t, n) \/ pipe_write(t, n)
      PROVE  PipeInv'
  BY <1>1, ReadInv, WriteInv
<1>2. ASSUME NEW t \in Task \ {Idle}, Work(t)
      PROVE  PipeInv'
  BY <1>2, TakeCharInv, GiveCharInv, GetLockInv, IoqWaitInv, ReleaseLockInv DEF Work
<1>3. ASSUME UNCHANGED vars
      PROVE  PipeInv'
  BY <1>3 DEF vars, PipeInv, TypeOK, WritersOK, ReadersOK, QueueInv, LockInv, SchedOK,
       Queueing, Holding, ioq_length
<1>4. QED
  BY <1>1, <1>2, <1>3, TickInv, IdleBlockInv DEF Next

-----------------------------------------------------------------------------
(* The theorems.                                                           *)

(* PipeInv holds of every reachable state.                                 *)
THEOREM PipeInvariant == Spec => []PipeInv
BY PipeInit, PipeNext, PTL DEF Spec

(* pipe_read takes no more than the ring holds until it is done, whoever   *)
(* else uses the pipe, so ioq_getchar never sleeps in it (pipe.c           *)
(* pipe_read).                                                             *)
THEOREM ReadsDoNotBlock == Spec => []ReadDoesNotBlock
<1>1. PipeInv => ReadDoesNotBlock
  BY DEF PipeInv, ReadersOK, ReadDoesNotBlock
<1>2. QED
  BY <1>1, PipeInvariant, PTL

(* While writers sleep in ioq_putchar, the next read finds one to wake or  *)
(* one is awake already, and no ASSERT of ioq_wait, wakeup, lock_release   *)
(* or the scheduler fires (ioqueue.c ioq_putchar, ioq_getchar).            *)
THEOREM NoWriterMissed == Spec => []ReadWakesSomeone
<1>1. PipeInv => ReadWakesSomeone
  <2> SUFFICES ASSUME PipeInv PROVE ReadWakesSomeone
    OBVIOUS
  <2>1. SchedulerOK
    BY DEF SchedulerOK, PipeInv, QueueInv
  <2>2. QED
    BY <2>1, SomeoneToWake DEF ReadWakesSomeone, PipeInv
<1>2. QED
  BY <1>1, PipeInvariant, PTL

(* Each step puts a character at the end of what the ring holds, takes the *)
(* first one or leaves it alone.                                           *)
LEMMA FifoStep == PipeInv /\ [Next]_vars => [F!Next]_(Contents(ring))
<1> SUFFICES ASSUME PipeInv, [Next]_vars PROVE [F!Next]_(Contents(ring))
  OBVIOUS
<1>0. ring \in Ring
  BY DEF PipeInv, TypeOK
<1>1. ASSUME NEW t \in Task \ {Idle}, TakeChar(t)
      PROVE  F!Get
  BY <1>0, <1>1, GetRing DEF TakeChar, F!Get
<1>2. ASSUME NEW t \in Task \ {Idle}, NEW c \in Char, GiveChar(t, c)
      PROVE  F!Put(c)
  BY <1>0, <1>2, PutRing DEF GiveChar, F!Put
<1>3. ASSUME ring' = ring
      PROVE  Contents(ring)' = Contents(ring)
  BY <1>3
<1>4. \/ ring' = ring
      \/ \E t \in Task \ {Idle} : TakeChar(t) \/ \E c \in Char : GiveChar(t, c)
  BY DEF Next, Work, pipe_read, pipe_write, GetLock, IoqWait, ReleaseLock, IdleBlock,
       Tick, vars
<1>5. QED
  BY <1>1, <1>2, <1>3, <1>4 DEF F!Next

(* A pipe implements the abstract queue of module Fifo.                    *)
THEOREM PipeIsFifo == Spec => IsFifo
<1>1. Init => F!Init
  BY InitRing DEF Init, F!Init
<1>2. QED
  BY <1>1, FifoStep, PipeInvariant, PTL DEF Spec, F!Spec, IsFifo
=============================================================================
