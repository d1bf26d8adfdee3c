--------------------------- MODULE KbdQueueProofs ---------------------------
(***************************************************************************)
(* Proofs about the keyboard buffer: the ring is a first-in first-out      *)
(* queue, a key press finds the sleeping reader, no ASSERT on the way      *)
(* fires, and a lone reader sleeps only while the ring is empty.           *)
(*                                                                         *)
(* Before the ring is the decoder.  For any keys and any number of bytes   *)
(* waiting for their interrupts no modifier sticks, and every character    *)
(* arrives as it was meant.  The handler runs behind the user, so the      *)
(* invariant is about the state it will be in once the wire is empty: a    *)
(* trace gives the modifiers after each byte still on the wire, and the    *)
(* last of them agree with the keys that are down.  A key adds a byte at   *)
(* the trace's end, the handler takes the first one away.                  *)
(***************************************************************************)
EXTENDS KbdQueue, KeyDecode, ThreadProofs, FiniteSetTheorems

-----------------------------------------------------------------------------
(* The inductive invariant.                                                *)

(* Inside sys_read: what the call still has to deliver, and who it is that *)
(* has the processor when the lock or the ring is about to be tested.      *)
Reading == {"read", "lock", "wait", "woken"}

CallsOK ==
  /\ \A t \in Task : pc[t] \in Reading => left[t] >= 1 /\ t \in callers
  /\ \A t \in Task : pc[t] \in {"read", "wait"} => t = sched.cur
  /\ IsFiniteSet(callers)

(* A lone reader never queues for the lock and never sleeps on a ring with *)
(* data.                                                                   *)
LoneReader ==
  (\A x, y \in callers : x = y) =>
    /\ \A t \in Task : pc[t] # "lock"
    /\ \A t \in Task : pc[t] = "wait" => ioq_empty(kbd_buf)
    /\ consumer # NoTask => ioq_empty(kbd_buf)

KbdInv == TypeOK /\ QueueInv(sched, pc, lock, consumer) /\ CallsOK /\ LoneReader

(* The parts of TypeOK that QueueInv does not give.                        *)
LEMMA TypeFromQueue ==
  ASSUME QueueInv(sched, pc, lock, consumer)
  PROVE  /\ sched \in SchedType /\ SchedOK(sched)
         /\ lock.value \in {0, 1} /\ lock.holder \in Task \cup {NoTask}
         /\ consumer \in Task \cup {NoTask}
BY DEF QueueInv, LockInv, LockType

LEMMA KbdInit == Init => KbdInv
<1> SUFFICES ASSUME Init PROVE KbdInv
  OBVIOUS
<1>1. /\ sched \in SchedType /\ sched.cur = Main /\ sched.ready = InitReady
      /\ sched.status = [t \in Task |-> IF t = Main THEN "RUNNING" ELSE "READY"]
      /\ sched.panic = FALSE
  BY KbdAssumption, TaskAssumption DEF Init, SchedType, Status
<1>2. SchedOK(sched)
  BY <1>1, KbdAssumption, TaskAssumption DEF SchedOK
<1>3. pc \in [Task -> PC] /\ \A t \in Task : pc[t] = IF t = Idle THEN "idle" ELSE "user"
  BY DEF Init, PC
<1>4. Queueing(pc) = {} /\ Holding(pc) = {}
  BY <1>3 DEF Queueing, Holding
<1>5. LockInv(sched, lock, {}, {})
  BY InitLock DEF Init
<1>6. QueueInv(sched, pc, lock, consumer)
  BY <1>1, <1>2, <1>3, <1>4, <1>5 DEF QueueInv, Init
<1>7. kbd_buf \in Ring /\ left \in [Task -> 0 .. MaxCount] /\ callers = {}
  BY InitRing, KbdAssumption DEF Init
<1>8. CallsOK
  BY <1>3, <1>7, FS_EmptySet DEF CallsOK, Reading
<1>9. LoneReader
  BY <1>3 DEF LoneReader, Init
<1>10. QED
  BY <1>3, <1>6, <1>7, <1>8, <1>9, TypeFromQueue DEF KbdInv, TypeOK

-----------------------------------------------------------------------------
(* One lemma per action.                                                   *)

LEMMA SysReadInv ==
  ASSUME KbdInv, NEW t \in Task \ {Idle}, NEW n \in 1 .. MaxCount, SysRead(t, n)
  PROVE  KbdInv'
<1>1. /\ sched.cur = t /\ pc[t] = "user" /\ pc \in [Task -> PC]
      /\ pc' = [pc EXCEPT ![t] = "read"] /\ "read" \in PC
      /\ QueueInv(sched, pc, lock, consumer)
  BY DEF SysRead, At, Goto, KbdInv, TypeOK, PC
<1>2. QueueInv(sched, pc', lock, consumer)
  BY <1>1, QueuePlain DEF QueueLabels
<1>3. QueueInv(sched, pc, lock, consumer)'
  BY <1>2 DEF SysRead
<1>4. /\ pc' \in [Task -> PC] /\ pc'[t] = "read" /\ \A u \in Task \ {t} : pc'[u] = pc[u]
  BY <1>1
<1>5. /\ left' \in [Task -> 0 .. MaxCount] /\ left'[t] >= 1
      /\ \A u \in Task \ {t} : left'[u] = left[u]
  BY KbdAssumption DEF SysRead, KbdInv, TypeOK
<1>6. callers' = callers \cup {t} /\ callers \subseteq Task /\ IsFiniteSet(callers)
  BY DEF SysRead, KbdInv, TypeOK, CallsOK
<1>7. IsFiniteSet(callers')
  BY <1>6, FS_AddElement
<1>8. CallsOK'
  BY <1>1, <1>4, <1>5, <1>6, <1>7 DEF CallsOK, KbdInv, SysRead, Reading
<1>9. LoneReader'
  BY <1>4, <1>6 DEF LoneReader, KbdInv, SysRead, ioq_empty
<1>10. TypeOK'
  BY <1>4, <1>5, <1>6 DEF TypeOK, KbdInv, SysRead
<1>11. QED
  BY <1>3, <1>8, <1>9, <1>10 DEF KbdInv

LEMMA GetLockInv ==
  ASSUME KbdInv, NEW t \in Task \ {Idle}, GetLock(t)
  PROVE  KbdInv'
<1>1. /\ sched.cur = t /\ pc[t] \in {"read", "lock"} /\ pc \in [Task -> PC]
      /\ QueueInv(sched, pc, lock, consumer) /\ CallsOK /\ LoneReader
      /\ pc[t] = "read" => ioq_empty(kbd_buf)
  BY DEF GetLock, At, KbdInv, TypeOK
<1>2. t \in callers /\ left[t] >= 1
  BY <1>1 DEF CallsOK, Reading
<1>3. CASE CanTake(lock, t)
  <2>1. pc' = [pc EXCEPT ![t] = "wait"] /\ lock' = Take(lock, t) /\ sched' = sched
        /\ consumer' = consumer
    BY <1>3 DEF GetLock, Goto
  <2>2. QueueInv(sched, pc', Take(lock, t), consumer)
    BY <1>1, <1>3, <2>1, QueueAcquired
  <2>3. QueueInv(sched, pc, lock, consumer)'
    BY <2>1, <2>2
  <2>4. /\ pc' \in [Task -> PC] /\ pc'[t] = "wait" /\ \A u \in Task \ {t} : pc'[u] = pc[u]
    BY <1>1, <2>1 DEF PC
  <2>5. CallsOK'
    BY <1>1, <1>2, <2>1, <2>4 DEF CallsOK, GetLock, Reading
  <2>6. LoneReader'
    BY <1>1, <2>1, <2>4 DEF LoneReader, GetLock, ioq_empty
  <2>7. TypeOK'
    BY <2>3, <2>4 DEF TypeOK, KbdInv, GetLock, QueueInv, LockInv, LockType
  <2>8. QED
    BY <2>3, <2>5, <2>6, <2>7 DEF KbdInv
<1>4. CASE ~CanTake(lock, t)
  <2>1. pc' = [pc EXCEPT ![t] = "lock"] /\ lock' = Enqueue(lock, t)
        /\ sched' = thread_block(sched, "BLOCKED") /\ consumer' = consumer
    BY <1>4 DEF GetLock, Goto
  <2>2. QueueInv(sched', pc', lock', consumer)
    BY <1>1, <1>4, <2>1, QueueQueued
  <2>3. QueueInv(sched, pc, lock, consumer)'
    BY <2>1, <2>2
  <2>4. /\ pc' \in [Task -> PC] /\ pc'[t] = "lock" /\ \A u \in Task \ {t} : pc'[u] = pc[u]
    BY <1>1, <2>1 DEF PC
  <2>5. CallsOK'
    BY <1>1, <1>2, <2>4 DEF CallsOK, GetLock, Reading
  <2>6. LoneReader'
    <3>1. PICK h \in Task : pc[h] \in {"wait", "woken"}
      BY <1>1, <1>4 DEF QueueInv, LockInv, LockType, CanTake, Holding
    <3>2. h \in callers /\ h # t
      BY <1>1, <3>1 DEF CallsOK, Reading
    <3>3. callers' = callers
      BY DEF GetLock
    <3>4. QED
      BY <1>2, <3>2, <3>3 DEF LoneReader
  <2>7. TypeOK'
    BY <2>3, <2>4 DEF TypeOK, KbdInv, GetLock, QueueInv, LockInv, LockType
  <2>8. QED
    BY <2>3, <2>5, <2>6, <2>7 DEF KbdInv
<1>5. QED
  BY <1>3, <1>4

LEMMA IoqWaitInv ==
  ASSUME KbdInv, NEW t \in Task \ {Idle}, IoqWait(t)
  PROVE  KbdInv'
<1>1. /\ sched.cur = t /\ pc[t] = "wait" /\ pc \in [Task -> PC]
      /\ QueueInv(sched, pc, lock, consumer) /\ CallsOK /\ LoneReader
      /\ pc' = [pc EXCEPT ![t] = "woken"] /\ consumer' = t
      /\ sched' = thread_block(ASSERT(sched, consumer = NoTask), "BLOCKED")
      /\ UNCHANGED <<left, lock, kbd_buf, callers>>
  BY DEF IoqWait, At, Goto, KbdInv, TypeOK
<1>2. QueueInv(sched', pc', lock, t)
  <2>1. /\ sched.cur = t /\ pc[t] = "wait" /\ pc \in [Task -> PC]
        /\ QueueInv(sched, pc, lock, consumer)
    BY <1>1
  <2>2. ASSERT(sched, consumer = NoTask) = sched
    BY <2>1, NoOtherSleeper
  <2>3. QueueInv(thread_block(sched, "BLOCKED"), [pc EXCEPT ![t] = "woken"], lock, t)
    BY <2>1, QueueSlept
  <2>4. QED
    BY <1>1, <2>2, <2>3
<1>3. QueueInv(sched, pc, lock, consumer)'
  BY <1>1, <1>2
<1>4. /\ pc' \in [Task -> PC] /\ pc'[t] = "woken" /\ \A u \in Task \ {t} : pc'[u] = pc[u]
  BY <1>1 DEF PC
<1>5. CallsOK'
  BY <1>1, <1>4 DEF CallsOK, Reading
<1>6. LoneReader'
  BY <1>1, <1>4 DEF LoneReader, ioq_empty
<1>7. TypeOK'
  BY <1>1, <1>3, <1>4 DEF TypeOK, KbdInv, QueueInv, LockInv, LockType
<1>8. QED
  BY <1>3, <1>5, <1>6, <1>7 DEF KbdInv

LEMMA ReleaseLockInv ==
  ASSUME KbdInv, NEW t \in Task \ {Idle}, ReleaseLock(t)
  PROVE  KbdInv'
<1>1. /\ sched.cur = t /\ pc[t] = "woken" /\ pc \in [Task -> PC]
      /\ QueueInv(sched, pc, lock, consumer) /\ CallsOK /\ LoneReader
      /\ pc' = [pc EXCEPT ![t] = "read"] /\ lock' = Release(lock)
      /\ sched' = ReleaseSched(sched, lock, t)
      /\ UNCHANGED <<left, consumer, kbd_buf, callers>>
  BY DEF ReleaseLock, At, Goto, KbdInv, TypeOK
<1>2. "read" \in PC /\ "read" \notin QueueLabels
  BY DEF PC, QueueLabels
<1>3. sched'.cur = t /\ QueueInv(sched', pc', lock', consumer)
  <2>1. /\ ReleaseSched(sched, lock, t).cur = t
        /\ QueueInv(ReleaseSched(sched, lock, t), [pc EXCEPT ![t] = "read"],
                    Release(lock), consumer)
    <3>1. /\ sched.cur = t /\ pc[t] = "woken" /\ pc \in [Task -> PC]
          /\ QueueInv(sched, pc, lock, consumer)
      BY <1>1
    <3>2. ReleaseSched(sched, lock, t).cur = t
      BY <3>1, ReleaseKeepsCur
    <3>3. QueueInv(ReleaseSched(sched, lock, t), [pc EXCEPT ![t] = "read"],
                    Release(lock), consumer)
      BY <1>2, <3>1, QueueReleased
    <3>4. QED
      BY <3>2, <3>3
  <2>2. QED
    BY <1>1, <2>1
<1>4. QueueInv(sched, pc, lock, consumer)'
  BY <1>1, <1>3
<1>5. /\ pc' \in [Task -> PC] /\ pc'[t] = "read" /\ \A u \in Task \ {t} : pc'[u] = pc[u]
  BY <1>1, <1>2
<1>6. CallsOK'
  BY <1>1, <1>3, <1>5 DEF CallsOK, Reading
<1>7. LoneReader'
  BY <1>1, <1>5 DEF LoneReader, ioq_empty
<1>8. TypeOK'
  BY <1>1, <1>4, <1>5 DEF TypeOK, KbdInv, QueueInv, LockInv, LockType
<1>9. QED
  BY <1>4, <1>6, <1>7, <1>8 DEF KbdInv

LEMMA TakeCharInv ==
  ASSUME KbdInv, NEW t \in Task \ {Idle}, TakeChar(t)
  PROVE  KbdInv'
<1> DEFINE label == IF left[t] = 1 THEN "user" ELSE "read"
<1>1. /\ sched.cur = t /\ pc[t] = "read" /\ pc \in [Task -> PC]
      /\ QueueInv(sched, pc, lock, consumer) /\ CallsOK /\ LoneReader
      /\ ~ioq_empty(kbd_buf) /\ kbd_buf \in Ring /\ kbd_buf' = GetChar(kbd_buf)
      /\ left' = [left EXCEPT ![t] = left[t] - 1] /\ left \in [Task -> 0 .. MaxCount]
      /\ pc' = [pc EXCEPT ![t] = label]
      /\ UNCHANGED <<sched, lock, consumer, callers>>
  BY DEF TakeChar, At, Goto, KbdInv, TypeOK
<1>2. label \in PC /\ label \notin QueueLabels /\ "read" \notin QueueLabels
  BY DEF PC, QueueLabels
<1>3. label \in Reading => left[t] # 1
  BY DEF Reading
<1> HIDE DEF label
<1>4. QueueInv(sched, pc', lock, consumer)
  BY <1>1, <1>2, QueuePlain
<1>5. QueueInv(sched, pc, lock, consumer)'
  BY <1>1, <1>4
<1>6. /\ pc' \in [Task -> PC] /\ pc'[t] = label /\ \A u \in Task \ {t} : pc'[u] = pc[u]
  BY <1>1, <1>2
<1>7. left[t] \in Nat /\ left[t] >= 1 /\ t \in callers
  BY <1>1 DEF CallsOK, Reading
<1>8. /\ left' \in [Task -> 0 .. MaxCount] /\ left'[t] = left[t] - 1
      /\ \A u \in Task \ {t} : left'[u] = left[u]
  BY <1>1, <1>7, KbdAssumption
<1>9. CallsOK'
  <2>1. label \in Reading => left'[t] >= 1
    BY <1>3, <1>7, <1>8
  <2>2. QED
    BY <1>1, <1>6, <1>7, <1>8, <2>1 DEF CallsOK
<1>10. LoneReader'
  <2>1. ASSUME \A x, y \in callers : x = y
        PROVE  /\ \A u \in Task : pc'[u] \notin {"lock", "wait"}
               /\ consumer = NoTask
    BY <1>1, <1>2, <1>6, <2>1 DEF LoneReader, QueueLabels
  <2>2. QED
    BY <1>1, <2>1 DEF LoneReader
<1>11. kbd_buf' \in Ring
  BY <1>1, GetRing
<1>12. TypeOK'
  BY <1>1, <1>6, <1>8, <1>11 DEF TypeOK, KbdInv
<1>13. QED
  BY <1>5, <1>9, <1>10, <1>12 DEF KbdInv

(* Interrupts change the label of idle only.                               *)
LEMMA ResumeLabels ==
  ASSUME KbdInv, Interruptible, ResumeHlt
  PROVE  /\ sched.cur \in Task /\ pc' \in [Task -> PC]
         /\ pc'[Idle] \in {"idle", "hlt"}
         /\ \A t \in Task \ {Idle} : pc'[t] = pc[t]
         /\ \A t \in Task : pc[t] \notin {"read", "wait"}
<1>1. /\ sched.cur \in Task /\ pc \in [Task -> PC] /\ pc[sched.cur] \in {"user", "idle", "hlt"}
      /\ \A t \in Task : t = Idle <=> pc[t] \in {"idle", "hlt"}
      /\ \A t \in Task : pc[t] \in {"read", "wait"} => t = sched.cur
  BY DEF KbdInv, TypeOK, SchedType, QueueInv, CallsOK, Interruptible
<1>2. QED
  BY <1>1, TaskAssumption DEF ResumeHlt, PC

LEMMA KeyIntrInv ==
  ASSUME KbdInv, NEW c \in Char, KeyIntr(c)
  PROVE  KbdInv'
<1>1. /\ Interruptible /\ ResumeHlt /\ ~ioq_full(kbd_buf) /\ kbd_buf \in Ring
      /\ kbd_buf' = PutChar(kbd_buf, c) /\ consumer' = NoTask
      /\ sched' = IF consumer = NoTask THEN sched ELSE thread_unblock(sched, consumer)
      /\ UNCHANGED <<left, lock, callers>>
      /\ QueueInv(sched, pc, lock, consumer) /\ CallsOK /\ LoneReader
  BY DEF KeyIntr, KbdInv, TypeOK
<1>2. /\ sched.cur \in Task /\ pc' \in [Task -> PC]
      /\ pc'[Idle] \in {"idle", "hlt"}
      /\ \A t \in Task \ {Idle} : pc'[t] = pc[t]
      /\ \A t \in Task : pc[t] \notin {"read", "wait"}
  BY <1>1, ResumeLabels
<1>3. sched'.cur = sched.cur /\ QueueInv(sched', pc, lock, NoTask)
  BY <1>1, QueueWoken
<1>4. QueueInv(sched', pc', lock, NoTask)
  <2>1. sched' \in SchedType /\ SchedOK(sched')
    BY <1>3 DEF QueueInv
  <2>2. WakesOnlyIdle(sched', sched')
    BY DEF WakesOnlyIdle
  <2>3. QED
    BY <1>2, <1>3, <2>1, <2>2, QueueSwitch
<1>5. QueueInv(sched, pc, lock, consumer)'
  BY <1>1, <1>4
<1>6. CallsOK'
  BY <1>1, <1>2, <1>3, TaskAssumption DEF CallsOK, Reading
<1>7. LoneReader'
  BY <1>1, <1>2, TaskAssumption DEF LoneReader
<1>8. kbd_buf' \in Ring
  BY <1>1, PutRing
<1>9. TypeOK'
  BY <1>1, <1>2, <1>5, <1>8 DEF TypeOK, KbdInv, QueueInv, LockInv, LockType
<1>10. QED
  BY <1>5, <1>6, <1>7, <1>9 DEF KbdInv

LEMMA TickInv ==
  ASSUME KbdInv, Tick
  PROVE  KbdInv'
<1>1. /\ Interruptible /\ ResumeHlt /\ sched' = timer_tick(sched)
      /\ UNCHANGED <<left, lock, consumer, kbd_buf, callers>>
      /\ QueueInv(sched, pc, lock, consumer) /\ CallsOK /\ LoneReader
      /\ sched \in SchedType /\ SchedOK(sched)
  BY DEF Tick, KbdInv, QueueInv
<1>2. /\ sched.cur \in Task /\ pc' \in [Task -> PC]
      /\ pc'[Idle] \in {"idle", "hlt"}
      /\ \A t \in Task \ {Idle} : pc'[t] = pc[t]
      /\ \A t \in Task : pc[t] \notin {"read", "wait"}
  BY <1>1, ResumeLabels
<1>3. sched' \in SchedType /\ SchedOK(sched') /\ WakesOnlyIdle(sched, sched')
  BY <1>1, TickOK
<1>4. QueueInv(sched', pc', lock, consumer)
  BY <1>1, <1>2, <1>3, QueueSwitch
<1>5. QueueInv(sched, pc, lock, consumer)'
  BY <1>1, <1>4
<1>6. CallsOK'
  BY <1>1, <1>2, TaskAssumption DEF CallsOK, Reading
<1>7. LoneReader'
  BY <1>1, <1>2, TaskAssumption DEF LoneReader, ioq_empty
<1>8. TypeOK'
  BY <1>1, <1>2, <1>3 DEF TypeOK, KbdInv
<1>9. QED
  BY <1>5, <1>6, <1>7, <1>8 DEF KbdInv

LEMMA IdleBlockInv ==
  ASSUME KbdInv, IdleBlock
  PROVE  KbdInv'
<1>1. /\ sched.cur = Idle /\ pc[Idle] = "idle" /\ pc \in [Task -> PC]
      /\ sched' = thread_block(sched, "BLOCKED") /\ pc' = [pc EXCEPT ![Idle] = "hlt"]
      /\ UNCHANGED <<left, lock, consumer, kbd_buf, callers>>
      /\ QueueInv(sched, pc, lock, consumer) /\ CallsOK /\ LoneReader
      /\ sched \in SchedType /\ SchedOK(sched)
  BY DEF IdleBlock, At, Goto, KbdInv, QueueInv, TypeOK
<1>2. /\ pc' \in [Task -> PC] /\ pc'[Idle] \in {"idle", "hlt"}
      /\ \A t \in Task \ {Idle} : pc'[t] = pc[t]
      /\ \A t \in Task : pc[t] \notin {"read", "wait"}
  BY <1>1, TaskAssumption DEF PC, CallsOK
<1>3. sched' \in SchedType /\ SchedOK(sched') /\ WakesOnlyIdle(sched, sched')
  BY <1>1, IdleBlocks
<1>4. QueueInv(sched', pc', lock, consumer)
  <2>1. QueueInv(sched, pc, lock, consumer)
    BY <1>1
  <2>2. QED
    BY <1>2, <1>3, <2>1, QueueSwitch
<1>5. QueueInv(sched, pc, lock, consumer)'
  BY <1>1, <1>4
<1>6. CallsOK'
  BY <1>1, <1>2, TaskAssumption DEF CallsOK, Reading
<1>7. LoneReader'
  BY <1>1, <1>2, TaskAssumption DEF LoneReader, ioq_empty
<1>8. TypeOK'
  BY <1>1, <1>2, <1>3 DEF TypeOK, KbdInv
<1>9. QED
  BY <1>5, <1>6, <1>7, <1>8 DEF KbdInv

LEMMA KbdNext == KbdInv /\ [Next]_vars => KbdInv'
<1> SUFFICES ASSUME KbdInv, [Next]_vars PROVE KbdInv'
  OBVIOUS
<1>1. ASSUME NEW t \in Task \ {Idle}, Step(t)
      PROVE  KbdInv'
  BY <1>1, SysReadInv, GetLockInv, IoqWaitInv, ReleaseLockInv, TakeCharInv DEF Step
<1>2. ASSUME UNCHANGED vars
      PROVE  KbdInv'
  BY <1>2 DEF vars, KbdInv, TypeOK, CallsOK, LoneReader, QueueInv, LockInv, SchedOK,
       Queueing, Holding, ioq_empty
<1>3. QED
  BY <1>1, <1>2, KeyIntrInv, TickInv, IdleBlockInv DEF Next

-----------------------------------------------------------------------------
(* The theorems.                                                           *)

(* KbdInv holds of every reachable state.                                  *)
THEOREM KbdInvariant == Spec => []KbdInv
BY KbdInit, KbdNext, PTL DEF Spec

(* While readers sleep in ioq_getchar, the next key press finds one to     *)
(* wake or one is awake already, and no ASSERT of ioq_wait, wakeup,        *)
(* lock_release or the scheduler fires (ioqueue.c ioq_getchar,             *)
(* ioq_putchar).                                                           *)
THEOREM NoKeyMissed == Spec => []KeyWakesSomeone
<1>1. KbdInv => KeyWakesSomeone
  <2> SUFFICES ASSUME KbdInv PROVE KeyWakesSomeone
    OBVIOUS
  <2>1. SchedulerOK
    BY DEF SchedulerOK, KbdInv, QueueInv
  <2>2. QED
    BY <2>1, SomeoneToWake DEF KeyWakesSomeone, KbdInv
<1>2. QED
  BY <1>1, KbdInvariant, PTL

(* As long as one process reads the keyboard, it sleeps as the consumer    *)
(* only while the ring is empty (ioqueue.c ioq_getchar).                   *)
THEOREM LoneReaderOK == Spec => []BlocksOnlyWithoutData
<1>1. KbdInv => BlocksOnlyWithoutData
  <2> SUFFICES ASSUME KbdInv, Cardinality(callers) <= 1
               PROVE  \A x, y \in callers : x = y
    BY DEF KbdInv, LoneReader, BlocksOnlyWithoutData
  <2> SUFFICES ASSUME NEW x \in callers, NEW y \in callers, x # y PROVE FALSE
    OBVIOUS
  <2>1. IsFiniteSet(callers) /\ Cardinality(callers) \in Nat
    BY FS_CardinalityType DEF KbdInv, CallsOK
  <2>2. IsFiniteSet({x}) /\ Cardinality({x}) = 1
    BY FS_Singleton
  <2>3. Cardinality({x} \cup {y}) = 2
    <3>1. Cardinality({x} \cup {y}) = IF y \in {x} THEN Cardinality({x})
                                      ELSE Cardinality({x}) + 1
      BY <2>2, FS_AddElement
    <3>2. QED
      BY <2>2, <3>1
  <2>4. {x} \cup {y} \in SUBSET callers
    OBVIOUS
  <2>5. Cardinality({x} \cup {y}) <= Cardinality(callers)
    BY <2>1, <2>4, FS_Subset
  <2>6. QED
    BY <2>1, <2>3, <2>5
<1>2. QED
  BY <1>1, KbdInvariant, PTL

(* What the ring holds behaves as a queue of bufsize - 1 characters: each  *)
(* step puts one at the end, takes the first one or leaves the queue       *)
(* alone (ioqueue.c ioq_putchar, ioq_getchar).                             *)
LEMMA FifoStep == KbdInv /\ [Next]_vars => [F!Next]_(Contents(kbd_buf))
<1> SUFFICES ASSUME KbdInv, [Next]_vars PROVE [F!Next]_(Contents(kbd_buf))
  OBVIOUS
<1>0. kbd_buf \in Ring
  BY DEF KbdInv, TypeOK
<1>1. ASSUME NEW t \in Task \ {Idle}, TakeChar(t)
      PROVE  F!Get
  BY <1>0, <1>1, GetRing DEF TakeChar, F!Get
<1>2. ASSUME NEW c \in Char, KeyIntr(c)
      PROVE  F!Put(c)
  BY <1>0, <1>2, PutRing DEF KeyIntr, F!Put
<1>3. ASSUME kbd_buf' = kbd_buf
      PROVE  Contents(kbd_buf)' = Contents(kbd_buf)
  BY <1>3
<1>4. \/ kbd_buf' = kbd_buf
      \/ \E t \in Task \ {Idle} : TakeChar(t)
      \/ \E c \in Char : KeyIntr(c)
  BY DEF Next, Step, SysRead, GetLock, IoqWait, ReleaseLock, IdleBlock, Tick, vars
<1>5. QED
  BY <1>1, <1>2, <1>3, <1>4 DEF F!Next

(* The keyboard ring implements the abstract queue of module Fifo.         *)
THEOREM KbdRingIsFifo == Spec => IsFifo
<1>1. Init => F!Init
  BY InitRing DEF Init, F!Init
<1>2. QED
  BY <1>1, FifoStep, KbdInvariant, PTL DEF Spec, F!Spec, IsFifo

-----------------------------------------------------------------------------
(* The decoder: what the bytes on the wire lead to.                        *)

Modifier == {"ctrl", "shift", "alt", "caps"}

(* The make codes of a modifier, with and without the prefix.              *)
MakesOf(m, ext) ==
  CASE m = "ctrl" -> {ctrl_l_make}
    [] m = "alt" -> {alt_l_make}
    [] m = "shift" -> IF ext THEN {} ELSE {shift_l_make, shift_r_make}
    [] m = "caps" -> IF ext THEN {} ELSE {caps_lock_make}

(* The modifiers that are on after a byte.                                 *)
After(s, byte, ext) ==
  {m \in Modifier :
     IF m = "caps" THEN ~(m \in s <=> byte \in MakesOf(m, ext))
     ELSE byte \in MakesOf(m, ext) \/ (m \in s /\ byte - 128 \notin MakesOf(m, ext))}

(* The i-th byte of w follows a prefix; x says it of the first one.        *)
Extends(w, x, i) == IF i = 1 THEN x ELSE w[i - 1] = e0

Trace(g, w, x) ==
  /\ g \in [0 .. Len(w) -> SUBSET Modifier]
  /\ \A i \in 1 .. Len(w) : g[i] = After(g[i - 1], w[i], Extends(w, x, i))

(* From the modifiers a the bytes of w lead to the modifiers z.            *)
Leads(w, x, a, z) == \E g : Trace(g, w, x) /\ g[0] = a /\ g[Len(w)] = z

(* The modifiers the handler has on now.                                   *)
Now ==
  {m \in Modifier : \/ m = "ctrl" /\ ctrl_status
                    \/ m = "shift" /\ shift_status
                    \/ m = "alt" /\ alt_status
                    \/ m = "caps" /\ caps_lock_status}

(* Every modifier that is on is held down, and caps lock is right.         *)
HeldDown(s, keys, caps) ==
  /\ \A m \in s \ {"caps"} : \E k \in keys : k.code \in MakesOf(m, k.ext)
  /\ "caps" \in s <=> caps

(* Characters: what is still expected after each byte.                     *)
Chars == {"a", "A", "l", "L", "1", "!", "ctrl-l"}

CharOf(s, code) ==
  LET shift == IF two_symbols(code) THEN "shift" \in s ELSE ~("shift" \in s <=> "caps" \in s)
      c == keymap(code)[IF shift THEN 2 ELSE 1]
  IN  IF "ctrl" \in s /\ c = "l" THEN "ctrl-l" ELSE c

IsChar(byte, ext) == byte \in CharKeys /\ ~ext

Todo(e, g, w, x) ==
  /\ e \in [0 .. Len(w) -> Seq(Chars)]
  /\ \A i \in 1 .. Len(w) :
       IF IsChar(w[i], Extends(w, x, i))
         THEN /\ e[i - 1] # <<>> /\ Head(e[i - 1]) = CharOf(g[i - 1], w[i])
              /\ e[i] = Tail(e[i - 1])
         ELSE e[i] = e[i - 1]

(* From the modifiers a the bytes of w put exactly the characters d and    *)
(* lead to the modifiers z.                                                *)
Types(w, x, a, z, d) ==
  \E g, e : /\ Trace(g, w, x) /\ g[0] = a /\ g[Len(w)] = z
            /\ Todo(e, g, w, x) /\ e[0] = d /\ e[Len(w)] = <<>>

(* Every ctrl and shift key that is down is on.                            *)
SeenDown(s, keys) ==
  \A k \in keys :
    /\ k.code = ctrl_l_make => "ctrl" \in s
    /\ k.code \in {shift_l_make, shift_r_make} => "shift" \in s

KeyTypes ==
  /\ ctrl_status \in BOOLEAN /\ shift_status \in BOOLEAN /\ alt_status \in BOOLEAN
  /\ caps_lock_status \in BOOLEAN /\ ext_scancode \in BOOLEAN
  /\ capsOn \in BOOLEAN /\ wrong \in BOOLEAN
  /\ held \subseteq Key
  /\ wire \in Seq(1 .. 255) /\ expected \in Seq(Chars)
  /\ queued \in 0 .. BufChars

(* No prefix without its byte, and what the bytes on the wire lead to.     *)
KeyInv ==
  /\ KeyTypes
  /\ ~Extends(wire, ext_scancode, Len(wire) + 1)
  /\ \E z \in SUBSET Modifier :
       Leads(wire, ext_scancode, Now, z) /\ HeldDown(z, held, capsOn)
  /\ OneKeyEach =>
       /\ ~wrong
       /\ \E z \in SUBSET Modifier :
            /\ Types(wire, ext_scancode, Now, z, expected)
            /\ HeldDown(z, held, capsOn) /\ SeenDown(z, held)

-----------------------------------------------------------------------------
(* Traces grow at their end ...                                            *)

Grown(g, n, v) == [i \in 0 .. n + 1 |-> IF i <= n THEN g[i] ELSE v]

(* What a byte leads to is a set of modifiers.                             *)
LEMMA AfterType ==
  ASSUME NEW s, NEW b, NEW x
  PROVE  After(s, b, x) \in SUBSET Modifier
BY DEF After

AppendFacts(w, b, x) ==
  /\ Append(w, b) \in Seq(1 .. 255) /\ Len(Append(w, b)) = Len(w) + 1
  /\ Len(w) \in Nat
  /\ Append(w, b)[Len(w) + 1] = b
  /\ \A i \in 1 .. Len(w) : Append(w, b)[i] = w[i]
  /\ \A i \in 1 .. Len(w) + 1 : Extends(Append(w, b), x, i) = Extends(w, x, i)
  /\ Extends(Append(w, b), x, Len(w) + 2) = (b = e0)

(* A byte sent leaves the others and their prefixes as they are.           *)
LEMMA AppendParts ==
  ASSUME NEW w \in Seq(1 .. 255), NEW b \in 1 .. 255, NEW x
  PROVE  AppendFacts(w, b, x)
<1>1. /\ Append(w, b) \in Seq(1 .. 255) /\ Len(Append(w, b)) = Len(w) + 1
      /\ Len(w) \in Nat /\ Append(w, b)[Len(w) + 1] = b
      /\ \A i \in 1 .. Len(w) : Append(w, b)[i] = w[i]
  OBVIOUS
<1>2. ASSUME NEW i \in 1 .. Len(w) + 1
      PROVE  Extends(Append(w, b), x, i) = Extends(w, x, i)
  <2>1. CASE i = 1
    BY <2>1 DEF Extends
  <2>2. CASE i # 1
    <3>1. i - 1 \in 1 .. Len(w)
      BY <1>1, <2>2
    <3>2. QED
      BY <1>1, <2>2, <3>1 DEF Extends
  <2>3. QED
    BY <2>1, <2>2
<1>3. Extends(Append(w, b), x, Len(w) + 2) = (b = e0)
  BY <1>1 DEF Extends
<1>4. QED
  BY <1>1, <1>2, <1>3 DEF AppendFacts

GrownFacts(g, w, x, b, v) ==
  /\ Trace(Grown(g, Len(w), v), Append(w, b), x)
  /\ \A i \in 0 .. Len(w) : Grown(g, Len(w), v)[i] = g[i]
  /\ Grown(g, Len(w), v)[Len(w) + 1] = v

(* The trace of one more byte.                                             *)
LEMMA TraceAdd ==
  ASSUME NEW w \in Seq(1 .. 255), NEW x, NEW g, Trace(g, w, x), NEW b \in 1 .. 255,
         NEW v, v = After(g[Len(w)], b, Extends(w, x, Len(w) + 1))
  PROVE  GrownFacts(g, w, x, b, v)
<1> DEFINE h == Grown(g, Len(w), v)
           n == Len(w)
<1>1. /\ n \in Nat /\ Len(Append(w, b)) = n + 1 /\ Append(w, b)[n + 1] = b
      /\ \A i \in 1 .. n : Append(w, b)[i] = w[i]
      /\ \A i \in 1 .. n + 1 : Extends(Append(w, b), x, i) = Extends(w, x, i)
  <2>1. AppendFacts(w, b, x)
    BY AppendParts
  <2>2. QED
    BY <2>1 DEF AppendFacts
<1>2. /\ \A i \in 0 .. n : h[i] = g[i]
      /\ h[n + 1] = v /\ h = [i \in 0 .. n + 1 |-> h[i]]
  BY <1>1 DEF Grown
<1> HIDE DEF h
<1>3. v \in SUBSET Modifier
  BY AfterType
<1>4. h \in [0 .. n + 1 -> SUBSET Modifier]
  <2>1. ASSUME NEW i \in 0 .. n + 1
        PROVE  h[i] \in SUBSET Modifier
    <3>1. i \in 0 .. n \/ i = n + 1
      BY <1>1
    <3>2. QED
      BY <1>2, <1>3, <3>1 DEF Trace
  <2>2. QED
    BY <1>2, <2>1
<1>5. ASSUME NEW i \in 1 .. n + 1
      PROVE  h[i] = After(h[i - 1], Append(w, b)[i], Extends(Append(w, b), x, i))
  <2>1. CASE i = n + 1
    BY <1>1, <1>2, <2>1
  <2>2. CASE i # n + 1
    <3>1. i \in 1 .. n /\ i \in 0 .. n /\ i - 1 \in 0 .. n
      BY <1>1, <2>2
    <3>2. g[i] = After(g[i - 1], w[i], Extends(w, x, i))
      BY <3>1 DEF Trace
    <3>3. QED
      BY <1>1, <1>2, <3>1, <3>2
  <2>3. QED
    BY <2>1, <2>2
<1>6. Trace(h, Append(w, b), x)
  BY <1>1, <1>4, <1>5 DEF Trace
<1>7. QED
  BY <1>2, <1>6 DEF h, GrownFacts

(* One more byte leads to the modifiers after it.                          *)
LEMMA LeadsAdd ==
  ASSUME NEW w \in Seq(1 .. 255), NEW x, NEW a, NEW z, Leads(w, x, a, z), NEW b \in 1 .. 255
  PROVE  Leads(Append(w, b), x, a, After(z, b, Extends(w, x, Len(w) + 1)))
<1> DEFINE v == After(z, b, Extends(w, x, Len(w) + 1))
<1>1. PICK g : Trace(g, w, x) /\ g[0] = a /\ g[Len(w)] = z
  BY DEF Leads
<1>2. v = After(g[Len(w)], b, Extends(w, x, Len(w) + 1))
  BY <1>1
<1> HIDE DEF v
<1>3. GrownFacts(g, w, x, b, v)
  BY <1>1, <1>2, TraceAdd
<1>4. 0 \in 0 .. Len(w) /\ Len(Append(w, b)) = Len(w) + 1
  OBVIOUS
<1>5. Leads(Append(w, b), x, a, v)
  BY <1>1, <1>3, <1>4 DEF Leads, GrownFacts
<1>6. QED
  BY <1>5 DEF v

(* ... and shrink at their start.                                          *)
Shrunk(g, n) == [i \in 0 .. n - 1 |-> g[i + 1]]

(* A sequence without its first element.                                   *)
LEMMA RestOf ==
  ASSUME NEW S, NEW w \in Seq(S), w # <<>>
  PROVE  /\ Tail(w) \in Seq(S) /\ Len(Tail(w)) = Len(w) - 1
         /\ Len(w) \in Nat \ {0} /\ w[1] \in S /\ Head(w) = w[1]
         /\ \A i \in 1 .. Len(w) - 1 : Tail(w)[i] = w[i + 1]
OBVIOUS

(* The bytes after the first one, each with its prefix as before.          *)
LEMMA TailParts ==
  ASSUME NEW w \in Seq(1 .. 255), w # <<>>, NEW x
  PROVE  /\ Tail(w) \in Seq(1 .. 255) /\ Len(Tail(w)) = Len(w) - 1
         /\ Len(w) \in Nat \ {0} /\ w[1] \in 1 .. 255 /\ Head(w) = w[1]
         /\ \A i \in 1 .. Len(w) - 1 : Tail(w)[i] = w[i + 1]
         /\ \A i \in 1 .. Len(w) : Extends(Tail(w), w[1] = e0, i) = Extends(w, x, i + 1)
<1>1. /\ Tail(w) \in Seq(1 .. 255) /\ Len(Tail(w)) = Len(w) - 1
      /\ Len(w) \in Nat \ {0} /\ w[1] \in 1 .. 255 /\ Head(w) = w[1]
      /\ \A i \in 1 .. Len(w) - 1 : Tail(w)[i] = w[i + 1]
  BY RestOf
<1>2. ASSUME NEW i \in 1 .. Len(w)
      PROVE  Extends(Tail(w), w[1] = e0, i) = Extends(w, x, i + 1)
  <2>1. CASE i = 1
    BY <2>1 DEF Extends
  <2>2. CASE i # 1
    <3>1. i - 1 \in 1 .. Len(w) - 1 /\ (i - 1) + 1 = i /\ (i + 1) - 1 = i /\ i + 1 # 1
      BY <1>1, <2>2
    <3>2. QED
      BY <1>1, <2>2, <3>1 DEF Extends
  <2>3. QED
    BY <2>1, <2>2
<1>3. QED
  BY <1>1, <1>2

(* The trace of the bytes after the first one.                             *)
LEMMA TraceTake ==
  ASSUME NEW w \in Seq(1 .. 255), w # <<>>, NEW x, NEW g, Trace(g, w, x)
  PROVE  /\ Trace(Shrunk(g, Len(w)), Tail(w), w[1] = e0)
         /\ \A i \in 0 .. Len(w) - 1 : Shrunk(g, Len(w))[i] = g[i + 1]
         /\ g[1] = After(g[0], w[1], x)
<1> DEFINE h == Shrunk(g, Len(w))
           n == Len(w)
           y == (w[1] = e0)
<1>1. /\ n \in Nat \ {0} /\ Len(Tail(w)) = n - 1
      /\ \A i \in 1 .. n - 1 : Tail(w)[i] = w[i + 1]
      /\ \A i \in 1 .. n : Extends(Tail(w), y, i) = Extends(w, x, i + 1)
  BY TailParts
<1>2. h = [i \in 0 .. n - 1 |-> g[i + 1]]
  BY DEF Shrunk
<1> HIDE DEF h, y
<1>3. \A i \in 0 .. n - 1 : h[i] = g[i + 1] /\ i + 1 \in 0 .. n
  BY <1>1, <1>2
<1>4. h \in [0 .. n - 1 -> SUBSET Modifier]
  BY <1>2, <1>3 DEF Trace
<1>5. ASSUME NEW i \in 1 .. n - 1
      PROVE  h[i] = After(h[i - 1], Tail(w)[i], Extends(Tail(w), y, i))
  <2>1. /\ i \in 0 .. n - 1 /\ i - 1 \in 0 .. n - 1 /\ i + 1 \in 1 .. n /\ i \in 1 .. n
        /\ (i - 1) + 1 = i /\ (i + 1) - 1 = i
    BY <1>1
  <2>2. g[i + 1] = After(g[(i + 1) - 1], w[i + 1], Extends(w, x, i + 1))
    BY <2>1 DEF Trace
  <2>3. h[i] = g[i + 1] /\ h[i - 1] = g[i]
    BY <1>3, <2>1
  <2>4. QED
    BY <1>1, <2>1, <2>2, <2>3
<1>6. Trace(h, Tail(w), y)
  BY <1>1, <1>4, <1>5 DEF Trace
<1>7. g[1] = After(g[0], w[1], x)
  <2>1. 1 \in 1 .. n
    BY <1>1
  <2>2. g[1] = After(g[1 - 1], w[1], Extends(w, x, 1))
    BY <2>1 DEF Trace
  <2>3. QED
    BY <2>2 DEF Extends
<1>8. QED
  BY <1>3, <1>6, <1>7 DEF h, y

(* When the first byte is handled the rest leads to the same modifiers.    *)
LEMMA LeadsTake ==
  ASSUME NEW w \in Seq(1 .. 255), w # <<>>, NEW x, NEW a, NEW z, Leads(w, x, a, z)
  PROVE  Leads(Tail(w), w[1] = e0, After(a, w[1], x), z)
<1>1. PICK g : Trace(g, w, x) /\ g[0] = a /\ g[Len(w)] = z
  BY DEF Leads
<1> DEFINE h == Shrunk(g, Len(w))
<1>2. /\ Trace(h, Tail(w), w[1] = e0)
      /\ \A i \in 0 .. Len(w) - 1 : h[i] = g[i + 1]
      /\ g[1] = After(a, w[1], x)
  BY <1>1, TraceTake
<1> HIDE DEF h
<1>3. /\ Len(Tail(w)) = Len(w) - 1 /\ Len(w) - 1 \in 0 .. Len(w) - 1
      /\ 0 \in 0 .. Len(w) - 1 /\ (Len(w) - 1) + 1 = Len(w)
  BY TailParts
<1>4. h[0] = g[1] /\ h[Len(Tail(w))] = z
  <2>1. h[0] = g[0 + 1] /\ h[Len(w) - 1] = g[(Len(w) - 1) + 1]
    BY <1>2, <1>3
  <2>2. QED
    BY <1>1, <1>3, <2>1
<1>5. QED
  BY <1>2, <1>4 DEF Leads

(* The same for the characters: a byte that types nothing ...              *)
LEMMA TypesAdd ==
  ASSUME NEW w \in Seq(1 .. 255), NEW x, NEW a, NEW z, NEW d, Types(w, x, a, z, d),
         NEW b \in 1 .. 255, ~IsChar(b, Extends(w, x, Len(w) + 1))
  PROVE  Types(Append(w, b), x, a, After(z, b, Extends(w, x, Len(w) + 1)), d)
<1> DEFINE v == After(z, b, Extends(w, x, Len(w) + 1))
           n == Len(w)
<1>1. PICK g, e : /\ Trace(g, w, x) /\ g[0] = a /\ g[n] = z
                  /\ Todo(e, g, w, x) /\ e[0] = d /\ e[n] = <<>>
  BY DEF Types
<1>2. v = After(g[Len(w)], b, Extends(w, x, Len(w) + 1))
  BY <1>1
<1> HIDE DEF v
<1> DEFINE h == Grown(g, n, v)
           f == Grown(e, n, <<>>)
<1>3. GrownFacts(g, w, x, b, v)
  BY <1>1, <1>2, TraceAdd
<1>4. /\ Trace(h, Append(w, b), x) /\ h[n + 1] = v /\ \A i \in 0 .. n : h[i] = g[i]
  BY <1>3 DEF GrownFacts
<1>5. AppendFacts(w, b, x)
  BY AppendParts
<1>6. /\ n \in Nat /\ Len(Append(w, b)) = n + 1 /\ Append(w, b)[n + 1] = b
      /\ \A i \in 1 .. n : Append(w, b)[i] = w[i]
      /\ \A i \in 1 .. n + 1 : Extends(Append(w, b), x, i) = Extends(w, x, i)
  BY <1>5 DEF AppendFacts
<1>7. /\ \A i \in 0 .. n : f[i] = e[i]
      /\ f[n + 1] = <<>> /\ f = [i \in 0 .. n + 1 |-> f[i]]
  BY <1>6 DEF Grown
<1> HIDE DEF h, f
<1>8. f \in [0 .. n + 1 -> Seq(Chars)]
  <2>1. ASSUME NEW i \in 0 .. n + 1
        PROVE  f[i] \in Seq(Chars)
    <3>1. CASE i = n + 1
      <4>1. <<>> \in Seq(Chars) /\ f[i] = <<>>
        BY <1>7, <3>1
      <4>2. QED
        BY <4>1
    <3>2. CASE i # n + 1
      <4>1. i \in 0 .. n
        BY <1>6, <3>2
      <4>2. QED
        BY <1>1, <1>7, <4>1 DEF Todo
    <3>3. QED
      BY <3>1, <3>2
  <2>2. QED
    BY <1>7, <2>1
<1>9. ASSUME NEW i \in 1 .. n + 1
      PROVE  IF IsChar(Append(w, b)[i], Extends(Append(w, b), x, i))
               THEN /\ f[i - 1] # <<>> /\ Head(f[i - 1]) = CharOf(h[i - 1], Append(w, b)[i])
                    /\ f[i] = Tail(f[i - 1])
               ELSE f[i] = f[i - 1]
  <2>1. CASE i = n + 1
    <3>1. i - 1 = n /\ n \in 0 .. n
      BY <1>6, <2>1
    <3>2. f[i] = <<>> /\ f[i - 1] = <<>>
      BY <1>1, <1>7, <2>1, <3>1
    <3>3. ~IsChar(Append(w, b)[i], Extends(Append(w, b), x, i))
      BY <1>6, <2>1
    <3>4. QED
      BY <3>2, <3>3
  <2>2. CASE i # n + 1
    <3>1. i \in 1 .. n /\ i \in 0 .. n /\ i - 1 \in 0 .. n
      BY <1>6, <2>2
    <3>2. IF IsChar(w[i], Extends(w, x, i))
            THEN /\ e[i - 1] # <<>> /\ Head(e[i - 1]) = CharOf(g[i - 1], w[i])
                 /\ e[i] = Tail(e[i - 1])
            ELSE e[i] = e[i - 1]
      BY <1>1, <3>1 DEF Todo
    <3>3. /\ Append(w, b)[i] = w[i] /\ Extends(Append(w, b), x, i) = Extends(w, x, i)
          /\ f[i] = e[i] /\ f[i - 1] = e[i - 1] /\ h[i - 1] = g[i - 1]
      BY <1>4, <1>6, <1>7, <3>1
    <3>4. QED
      BY <3>2, <3>3
  <2>3. QED
    BY <2>1, <2>2
<1>10. Todo(f, h, Append(w, b), x)
  BY <1>6, <1>8, <1>9 DEF Todo
<1>11. h[0] = a /\ f[0] = d /\ 0 \in 0 .. n
  <2>1. 0 \in 0 .. n
    BY <1>6
  <2>2. QED
    BY <1>1, <1>4, <1>7, <2>1
<1>12. Types(Append(w, b), x, a, v, d)
  BY <1>4, <1>6, <1>7, <1>10, <1>11 DEF Types
<1>13. QED
  BY <1>12 DEF v

HeadFacts(S, s, c) ==
  /\ Append(s, c) \in Seq(S) /\ Append(s, c) # <<>>
  /\ s = <<>> => Head(Append(s, c)) = c /\ Tail(Append(s, c)) = <<>>
  /\ s # <<>> => Head(Append(s, c)) = Head(s) /\ Tail(Append(s, c)) = Append(Tail(s), c)

(* Head and Tail of a sequence with one more element.                      *)
LEMMA AppendHead ==
  ASSUME NEW S, NEW s \in Seq(S), NEW c \in S
  PROVE  HeadFacts(S, s, c)
<1>1. Append(s, c) \in Seq(S) /\ Append(s, c) # <<>>
  <2>1. Append(s, c) \in Seq(S)
    OBVIOUS
  <2>2. Len(Append(s, c)) = Len(s) + 1 /\ Len(s) \in Nat
    OBVIOUS
  <2>3. Append(s, c) # <<>>
    BY <2>2
  <2>4. QED
    BY <2>1, <2>3
<1>2. s = <<>> => Head(Append(s, c)) = c /\ Tail(Append(s, c)) = <<>>
  OBVIOUS
<1>3. ASSUME s # <<>>
      PROVE  Head(Append(s, c)) = Head(s) /\ Tail(Append(s, c)) = Append(Tail(s), c)
  <2> DEFINE p == Tail(Append(s, c))
             q == Append(Tail(s), c)
  <2>1. /\ Len(s) \in Nat \ {0} /\ Len(Append(s, c)) = Len(s) + 1
        /\ \A i \in 1 .. Len(s) : Append(s, c)[i] = s[i]
        /\ Append(s, c)[Len(s) + 1] = c
    BY <1>3
  <2>2. Head(Append(s, c)) = Head(s)
    BY <1>1, <1>3, <2>1
  <2>3. /\ p \in Seq(S) /\ Len(p) = Len(s)
        /\ \A i \in 1 .. Len(s) : p[i] = Append(s, c)[i + 1]
    BY <1>1, <2>1, RestOf
  <2>4. /\ Tail(s) \in Seq(S) /\ Len(Tail(s)) = Len(s) - 1
        /\ \A i \in 1 .. Len(s) - 1 : Tail(s)[i] = s[i + 1]
    BY <1>3, RestOf
  <2>5. /\ q \in Seq(S) /\ Len(q) = Len(s)
        /\ \A i \in 1 .. Len(s) - 1 : q[i] = s[i + 1]
        /\ q[Len(s)] = c
    BY <2>1, <2>4
  <2> HIDE DEF p, q
  <2>6. \A i \in 1 .. Len(s) : p[i] = q[i]
    BY <2>1, <2>3, <2>5
  <2>7. p = q
    BY <2>3, <2>5, <2>6
  <2>8. QED
    BY <2>2, <2>7 DEF p, q
<1>4. QED
  BY <1>1, <1>2, <1>3 DEF HeadFacts

(* ... and one that types a character.                                     *)
LEMMA TypesAddChar ==
  ASSUME NEW w \in Seq(1 .. 255), NEW x, NEW a, NEW z, NEW d, Types(w, x, a, z, d),
         NEW b \in 1 .. 255, IsChar(b, Extends(w, x, Len(w) + 1)), CharOf(z, b) \in Chars
  PROVE  Types(Append(w, b), x, a, After(z, b, Extends(w, x, Len(w) + 1)),
               Append(d, CharOf(z, b)))
<1> DEFINE v == After(z, b, Extends(w, x, Len(w) + 1))
           c == CharOf(z, b)
           n == Len(w)
<1>1. PICK g, e : /\ Trace(g, w, x) /\ g[0] = a /\ g[n] = z
                  /\ Todo(e, g, w, x) /\ e[0] = d /\ e[n] = <<>>
  BY DEF Types
<1>2. v = After(g[Len(w)], b, Extends(w, x, Len(w) + 1)) /\ c \in Chars
  BY <1>1
<1> HIDE DEF v
<1> DEFINE h == Grown(g, n, v)
           f == [i \in 0 .. n + 1 |-> IF i <= n THEN Append(e[i], c) ELSE <<>>]
<1>3. GrownFacts(g, w, x, b, v)
  BY <1>1, <1>2, TraceAdd
<1>4. /\ Trace(h, Append(w, b), x) /\ h[n + 1] = v /\ \A i \in 0 .. n : h[i] = g[i]
  BY <1>3 DEF GrownFacts
<1>5. AppendFacts(w, b, x)
  BY AppendParts
<1>6. /\ n \in Nat /\ Len(Append(w, b)) = n + 1 /\ Append(w, b)[n + 1] = b
      /\ \A i \in 1 .. n : Append(w, b)[i] = w[i]
      /\ \A i \in 1 .. n + 1 : Extends(Append(w, b), x, i) = Extends(w, x, i)
  BY <1>5 DEF AppendFacts
<1>7. /\ \A i \in 0 .. n : f[i] = Append(e[i], c)
      /\ f[n + 1] = <<>> /\ f = [i \in 0 .. n + 1 |-> f[i]]
  BY <1>6
<1>8. c = CharOf(g[n], b)
  BY <1>1
<1> HIDE DEF h, f, c
<1>9. ASSUME NEW i \in 0 .. n
      PROVE  /\ e[i] \in Seq(Chars) /\ f[i] \in Seq(Chars) /\ f[i] # <<>>
             /\ e[i] = <<>> => Head(f[i]) = c /\ Tail(f[i]) = <<>>
             /\ e[i] # <<>> => Head(f[i]) = Head(e[i]) /\ Tail(f[i]) = Append(Tail(e[i]), c)
  <2>1. e[i] \in Seq(Chars) /\ f[i] = Append(e[i], c)
    BY <1>1, <1>7 DEF Todo
  <2>2. HeadFacts(Chars, e[i], c)
    BY <1>2, <2>1, AppendHead
  <2>3. QED
    BY <2>1, <2>2 DEF HeadFacts
<1>10. f \in [0 .. n + 1 -> Seq(Chars)]
  <2>1. ASSUME NEW i \in 0 .. n + 1
        PROVE  f[i] \in Seq(Chars)
    <3>1. CASE i = n + 1
      <4>1. <<>> \in Seq(Chars) /\ f[i] = <<>>
        BY <1>7, <3>1
      <4>2. QED
        BY <4>1
    <3>2. CASE i # n + 1
      <4>1. i \in 0 .. n
        BY <1>6, <3>2
      <4>2. QED
        BY <1>9, <4>1
    <3>3. QED
      BY <3>1, <3>2
  <2>2. QED
    BY <1>7, <2>1
<1>11. ASSUME NEW i \in 1 .. n + 1
       PROVE  IF IsChar(Append(w, b)[i], Extends(Append(w, b), x, i))
                THEN /\ f[i - 1] # <<>> /\ Head(f[i - 1]) = CharOf(h[i - 1], Append(w, b)[i])
                     /\ f[i] = Tail(f[i - 1])
                ELSE f[i] = f[i - 1]
  <2>1. CASE i = n + 1
    <3>1. i - 1 = n /\ n \in 0 .. n
      BY <1>6, <2>1
    <3>2. /\ f[i] = <<>> /\ f[i - 1] # <<>> /\ Head(f[i - 1]) = c /\ Tail(f[i - 1]) = <<>>
      BY <1>1, <1>7, <1>9, <2>1, <3>1
    <3>3. c = CharOf(h[i - 1], Append(w, b)[i])
      BY <1>4, <1>6, <1>8, <2>1, <3>1
    <3>4. IsChar(Append(w, b)[i], Extends(Append(w, b), x, i))
      BY <1>6, <2>1
    <3>5. QED
      BY <3>2, <3>3, <3>4
  <2>2. CASE i # n + 1
    <3>1. i \in 1 .. n /\ i \in 0 .. n /\ i - 1 \in 0 .. n
      BY <1>6, <2>2
    <3>2. IF IsChar(w[i], Extends(w, x, i))
            THEN /\ e[i - 1] # <<>> /\ Head(e[i - 1]) = CharOf(g[i - 1], w[i])
                 /\ e[i] = Tail(e[i - 1])
            ELSE e[i] = e[i - 1]
      BY <1>1, <3>1 DEF Todo
    <3>3. /\ Append(w, b)[i] = w[i] /\ Extends(Append(w, b), x, i) = Extends(w, x, i)
          /\ f[i] = Append(e[i], c) /\ f[i - 1] = Append(e[i - 1], c)
          /\ h[i - 1] = g[i - 1]
      BY <1>4, <1>6, <1>7, <3>1
    <3>4. /\ f[i - 1] # <<>>
          /\ e[i - 1] # <<>> => /\ Head(f[i - 1]) = Head(e[i - 1])
                                /\ Tail(f[i - 1]) = Append(Tail(e[i - 1]), c)
      BY <1>9, <3>1
    <3>5. CASE IsChar(w[i], Extends(w, x, i))
      BY <3>2, <3>3, <3>4, <3>5
    <3>6. CASE ~IsChar(w[i], Extends(w, x, i))
      BY <3>2, <3>3, <3>6
    <3>7. QED
      BY <3>5, <3>6
  <2>3. QED
    BY <2>1, <2>2
<1>12. Todo(f, h, Append(w, b), x)
  BY <1>6, <1>10, <1>11 DEF Todo
<1>13. h[0] = a /\ f[0] = Append(d, c) /\ 0 \in 0 .. n
  <2>1. 0 \in 0 .. n
    BY <1>6
  <2>2. QED
    BY <1>1, <1>4, <1>7, <2>1
<1>14. Types(Append(w, b), x, a, v, Append(d, c))
  BY <1>4, <1>6, <1>7, <1>12, <1>13 DEF Types
<1>15. QED
  BY <1>14 DEF v, c

(* The handler puts the character that is expected first.                  *)
LEMMA TypesTake ==
  ASSUME NEW w \in Seq(1 .. 255), w # <<>>, NEW x, NEW a, NEW z, NEW d, Types(w, x, a, z, d)
  PROVE  LET rest == IF IsChar(w[1], x) THEN Tail(d) ELSE d
         IN  /\ Types(Tail(w), w[1] = e0, After(a, w[1], x), z, rest)
             /\ IsChar(w[1], x) => d # <<>> /\ Head(d) = CharOf(a, w[1])
<1> DEFINE n == Len(w)
           y == (w[1] = e0)
<1>1. PICK g, e : /\ Trace(g, w, x) /\ g[0] = a /\ g[n] = z
                  /\ Todo(e, g, w, x) /\ e[0] = d /\ e[n] = <<>>
  BY DEF Types
<1> DEFINE h == Shrunk(g, n)
           f == Shrunk(e, n)
<1>2. /\ Trace(h, Tail(w), y)
      /\ \A i \in 0 .. n - 1 : h[i] = g[i + 1]
      /\ g[1] = After(a, w[1], x)
  BY <1>1, TraceTake
<1>3. f = [i \in 0 .. n - 1 |-> e[i + 1]]
  BY DEF Shrunk
<1>4. /\ n \in Nat \ {0} /\ Len(Tail(w)) = n - 1
      /\ \A i \in 1 .. n - 1 : Tail(w)[i] = w[i + 1]
      /\ \A i \in 1 .. n : Extends(Tail(w), y, i) = Extends(w, x, i + 1)
  BY TailParts
<1> HIDE DEF h, f, y
<1>5. \A i \in 0 .. n - 1 : f[i] = e[i + 1] /\ i + 1 \in 0 .. n
  BY <1>3, <1>4
<1>6. f \in [0 .. n - 1 -> Seq(Chars)]
  BY <1>1, <1>3, <1>5 DEF Todo
<1>7. ASSUME NEW i \in 1 .. n - 1
      PROVE  IF IsChar(Tail(w)[i], Extends(Tail(w), y, i))
               THEN /\ f[i - 1] # <<>> /\ Head(f[i - 1]) = CharOf(h[i - 1], Tail(w)[i])
                    /\ f[i] = Tail(f[i - 1])
               ELSE f[i] = f[i - 1]
  <2>1. /\ i \in 0 .. n - 1 /\ i - 1 \in 0 .. n - 1 /\ i + 1 \in 1 .. n /\ i \in 1 .. n
        /\ (i - 1) + 1 = i /\ (i + 1) - 1 = i
    BY <1>4
  <2>2. IF IsChar(w[i + 1], Extends(w, x, i + 1))
          THEN /\ e[(i + 1) - 1] # <<>>
               /\ Head(e[(i + 1) - 1]) = CharOf(g[(i + 1) - 1], w[i + 1])
               /\ e[i + 1] = Tail(e[(i + 1) - 1])
          ELSE e[i + 1] = e[(i + 1) - 1]
    BY <1>1, <2>1 DEF Todo
  <2>3. f[i] = e[i + 1] /\ f[i - 1] = e[i] /\ h[i - 1] = g[i]
    <3>1. f[i - 1] = e[(i - 1) + 1] /\ h[i - 1] = g[(i - 1) + 1] /\ f[i] = e[i + 1]
      BY <1>2, <1>5, <2>1
    <3>2. QED
      BY <2>1, <3>1
  <2>4. Tail(w)[i] = w[i + 1] /\ Extends(Tail(w), y, i) = Extends(w, x, i + 1)
    BY <1>4, <2>1
  <2>5. QED
    BY <2>1, <2>2, <2>3, <2>4
<1>8. Todo(f, h, Tail(w), y)
  BY <1>4, <1>6, <1>7 DEF Todo
<1>9. IF IsChar(w[1], x)
        THEN d # <<>> /\ Head(d) = CharOf(a, w[1]) /\ e[1] = Tail(d)
        ELSE e[1] = d
  <2>1. 1 \in 1 .. n /\ 1 - 1 = 0
    BY <1>4
  <2>2. IF IsChar(w[1], Extends(w, x, 1))
          THEN /\ e[1 - 1] # <<>> /\ Head(e[1 - 1]) = CharOf(g[1 - 1], w[1])
               /\ e[1] = Tail(e[1 - 1])
          ELSE e[1] = e[1 - 1]
    BY <1>1, <2>1 DEF Todo
  <2>3. QED
    BY <1>1, <2>1, <2>2 DEF Extends
<1>10. /\ 0 \in 0 .. n - 1 /\ n - 1 \in 0 .. n - 1 /\ 0 + 1 = 1 /\ (n - 1) + 1 = n
  BY <1>4
<1>11. h[0] = g[1] /\ f[0] = e[1] /\ h[n - 1] = z /\ f[n - 1] = <<>>
  <2>1. /\ h[0] = g[0 + 1] /\ f[0] = e[0 + 1]
        /\ h[n - 1] = g[(n - 1) + 1] /\ f[n - 1] = e[(n - 1) + 1]
    BY <1>2, <1>5, <1>10
  <2>2. QED
    BY <1>1, <1>10, <2>1
<1>12. Types(Tail(w), y, After(a, w[1], x), z, e[1])
  BY <1>2, <1>4, <1>8, <1>11 DEF Types
<1>13. QED
  BY <1>9, <1>12 DEF y

-----------------------------------------------------------------------------
(* What the bytes of a key do to the modifiers.                            *)

(* The make codes as numbers.                                              *)
LEMMA MakeCodes ==
  /\ \A x : MakesOf("ctrl", x) = {29} /\ MakesOf("alt", x) = {56}
  /\ \A x : MakesOf("shift", x) = (IF x THEN {} ELSE {42, 54})
  /\ \A x : MakesOf("caps", x) = (IF x THEN {} ELSE {58})
<1>1. \A x : MakesOf("ctrl", x) = {29}
  BY DEF MakesOf, ctrl_l_make
<1>2. \A x : MakesOf("alt", x) = {56}
  BY DEF MakesOf, alt_l_make
<1>3. \A x : MakesOf("shift", x) = (IF x THEN {} ELSE {42, 54})
  BY DEF MakesOf, shift_l_make, shift_r_make
<1>4. \A x : MakesOf("caps", x) = (IF x THEN {} ELSE {58})
  BY DEF MakesOf, caps_lock_make
<1>5. QED
  BY <1>1, <1>2, <1>3, <1>4

(* What a byte does to each modifier.                                      *)
AfterFacts(s, b, x) ==
  /\ "ctrl" \in After(s, b, x) <=> b = 29 \/ ("ctrl" \in s /\ b # 157)
  /\ "alt" \in After(s, b, x) <=> b = 56 \/ ("alt" \in s /\ b # 184)
  /\ "shift" \in After(s, b, x) <=>
       IF x THEN "shift" \in s ELSE b \in {42, 54} \/ ("shift" \in s /\ b \notin {170, 182})
  /\ "caps" \in After(s, b, x) <=>
       IF x THEN "caps" \in s ELSE ~("caps" \in s <=> b = 58)

(* After, one modifier at a time.                                          *)
LEMMA AfterIs ==
  ASSUME NEW s, NEW b \in 1 .. 255, NEW x
  PROVE  AfterFacts(s, b, x)
<1>1. "ctrl" \in After(s, b, x) <=> b = 29 \/ ("ctrl" \in s /\ b - 128 # 29)
  BY MakeCodes DEF After, Modifier
<1>2. "alt" \in After(s, b, x) <=> b = 56 \/ ("alt" \in s /\ b - 128 # 56)
  BY MakeCodes DEF After, Modifier
<1>3. "shift" \in After(s, b, x) <=>
        IF x THEN "shift" \in s
        ELSE b \in {42, 54} \/ ("shift" \in s /\ b - 128 \notin {42, 54})
  BY MakeCodes DEF After, Modifier
<1>4. "caps" \in After(s, b, x) <=> IF x THEN "caps" \in s ELSE ~("caps" \in s <=> b = 58)
  BY MakeCodes DEF After, Modifier
<1>5. /\ b - 128 = 29 <=> b = 157
      /\ b - 128 = 56 <=> b = 184
      /\ b - 128 \in {42, 54} <=> b \in {170, 182}
  OBVIOUS
<1>6. QED
  BY <1>1, <1>2, <1>3, <1>4, <1>5 DEF AfterFacts

(* Sets of modifiers are equal when they agree on the four.                *)
LEMMA SameModifiers ==
  ASSUME NEW s \in SUBSET Modifier, NEW r \in SUBSET Modifier,
         "ctrl" \in s <=> "ctrl" \in r, "alt" \in s <=> "alt" \in r,
         "shift" \in s <=> "shift" \in r, "caps" \in s <=> "caps" \in r
  PROVE  s = r
<1>1. \A m \in Modifier : m \in s <=> m \in r
  BY DEF Modifier
<1>2. QED
  BY <1>1

(* The prefix changes no modifier, and it matters only whether there is    *)
(* one.                                                                    *)
LEMMA PrefixKeeps ==
  ASSUME NEW s \in SUBSET Modifier, NEW x
  PROVE  After(s, e0, x) = s
<1>1. e0 \in 1 .. 255 /\ e0 = 224
  BY DEF e0
<1>2. After(s, e0, x) \in SUBSET Modifier
  BY AfterType
<1>3. /\ "ctrl" \in After(s, e0, x) <=> "ctrl" \in s
      /\ "alt" \in After(s, e0, x) <=> "alt" \in s
      /\ "shift" \in After(s, e0, x) <=> "shift" \in s
      /\ "caps" \in After(s, e0, x) <=> "caps" \in s
  <2>1. AfterFacts(s, e0, x)
    BY <1>1, AfterIs
  <2>2. QED
    BY <1>1, <2>1 DEF AfterFacts
<1>4. QED
  BY <1>2, <1>3, SameModifiers

(* Only the truth of the prefix matters.                                   *)
LEMMA SameExt ==
  ASSUME NEW s, NEW b \in 1 .. 255, NEW x, NEW y, x <=> y
  PROVE  After(s, b, x) = After(s, b, y)
<1>1. After(s, b, x) \in SUBSET Modifier /\ After(s, b, y) \in SUBSET Modifier
  BY AfterType
<1>2. /\ "ctrl" \in After(s, b, x) <=> "ctrl" \in After(s, b, y)
      /\ "alt" \in After(s, b, x) <=> "alt" \in After(s, b, y)
      /\ "shift" \in After(s, b, x) <=> "shift" \in After(s, b, y)
      /\ "caps" \in After(s, b, x) <=> "caps" \in After(s, b, y)
  <2>1. AfterFacts(s, b, x) /\ AfterFacts(s, b, y)
    BY AfterIs
  <2>2. QED
    BY <2>1 DEF AfterFacts
<1>3. QED
  BY <1>1, <1>2, SameModifiers

(* The codes a key sends, after which no prefix is pending.                *)
SentFacts(w, x, k, code) ==
  LET v == w \o Codes(k, code) IN
  /\ v \in Seq(1 .. 255) /\ v # <<>>
  /\ ~Extends(v, x, Len(v) + 1)
  /\ v = IF k.ext THEN Append(Append(w, e0), code) ELSE Append(w, code)

(* Codes appends one byte or the prefix and one byte.                      *)
LEMMA KeySent ==
  ASSUME NEW w \in Seq(1 .. 255), NEW x, ~Extends(w, x, Len(w) + 1),
         NEW k \in Key, NEW code \in 1 .. 255, code # e0
  PROVE  SentFacts(w, x, k, code)
<1>1. k.ext \in BOOLEAN /\ e0 \in 1 .. 255
  BY KeyAssumption DEF e0
<1>2. CASE k.ext
  <2> DEFINE u == Append(w, e0)
  <2>1. w \o Codes(k, code) = Append(u, code)
    BY <1>1, <1>2 DEF Codes
  <2>2. u \in Seq(1 .. 255)
    BY <1>1
  <2> HIDE DEF u
  <2>3. AppendFacts(u, code, x)
    BY <2>2, AppendParts
  <2>4. /\ Len(Append(u, code)) = Len(u) + 1 /\ Len(u) \in Nat
        /\ Append(u, code) \in Seq(1 .. 255)
        /\ Extends(Append(u, code), x, Len(u) + 2) = (code = e0)
    BY <2>3 DEF AppendFacts
  <2>5. Len(Append(u, code)) + 1 = Len(u) + 2 /\ Append(u, code) # <<>>
    <3>1. Len(Append(u, code)) + 1 = Len(u) + 2
      BY <2>4
    <3>2. Append(u, code) # <<>>
      BY <2>2
    <3>3. QED
      BY <3>1, <3>2
  <2>6. QED
    BY <1>2, <2>1, <2>4, <2>5 DEF u, SentFacts
<1>3. CASE ~k.ext
  <2>1. w \o Codes(k, code) = Append(w, code)
    BY <1>3 DEF Codes
  <2>2. AppendFacts(w, code, x)
    BY AppendParts
  <2>3. /\ Len(Append(w, code)) = Len(w) + 1 /\ Len(w) \in Nat
        /\ Append(w, code) \in Seq(1 .. 255)
        /\ Extends(Append(w, code), x, Len(w) + 2) = (code = e0)
    BY <2>2 DEF AppendFacts
  <2>4. Len(Append(w, code)) + 1 = Len(w) + 2 /\ Append(w, code) # <<>>
    BY <2>3
  <2>5. QED
    BY <1>3, <2>1, <2>3, <2>4 DEF SentFacts
<1>4. QED
  BY <1>2, <1>3

(* The codes of a key lead to the modifiers after its last byte.           *)
LEMMA LeadsSent ==
  ASSUME NEW w \in Seq(1 .. 255), NEW x, ~Extends(w, x, Len(w) + 1),
         NEW k \in Key, NEW code \in 1 .. 255, code # e0,
         NEW a, NEW z \in SUBSET Modifier, Leads(w, x, a, z)
  PROVE  Leads(w \o Codes(k, code), x, a, After(z, code, k.ext))
<1>1. /\ e0 \in 1 .. 255
      /\ w \o Codes(k, code) = IF k.ext THEN Append(Append(w, e0), code) ELSE Append(w, code)
  <2>1. SentFacts(w, x, k, code)
    BY KeySent
  <2>2. QED
    BY <2>1 DEF SentFacts, e0
<1>2. CASE k.ext
  <2> DEFINE u == Append(w, e0)
             y == Extends(u, x, Len(u) + 1)
  <2>1. u \in Seq(1 .. 255) /\ Len(u) + 1 = Len(w) + 2
    BY <1>1
  <2>2. AppendFacts(w, e0, x)
    BY <1>1, AppendParts
  <2>3. y
    BY <2>1, <2>2 DEF AppendFacts
  <2>4. After(z, e0, Extends(w, x, Len(w) + 1)) = z
    BY PrefixKeeps
  <2>5. Leads(u, x, a, After(z, e0, Extends(w, x, Len(w) + 1)))
    BY <1>1, LeadsAdd
  <2>6. Leads(u, x, a, z)
    BY <2>4, <2>5
  <2> HIDE DEF u
  <2>7. Leads(Append(u, code), x, a, After(z, code, y))
    BY <2>1, <2>6, LeadsAdd
  <2> HIDE DEF y
  <2>8. After(z, code, y) = After(z, code, k.ext)
    <3>1. y <=> k.ext
      BY <1>2, <2>3
    <3>2. QED
      BY <3>1, SameExt
  <2>9. QED
    BY <1>1, <1>2, <2>7, <2>8 DEF u
<1>3. CASE ~k.ext
  <2> DEFINE y == Extends(w, x, Len(w) + 1)
  <2>1. Leads(Append(w, code), x, a, After(z, code, y))
    BY LeadsAdd
  <2>2. ~y
    OBVIOUS
  <2> HIDE DEF y
  <2>3. After(z, code, y) = After(z, code, k.ext)
    <3>1. y <=> k.ext
      BY <1>3, <2>2
    <3>2. QED
      BY <3>1, SameExt
  <2>4. QED
    BY <1>1, <1>3, <2>1, <2>3
<1>4. QED
  BY <1>2, <1>3

(* The codes of a key type at most the character of its last byte.         *)
LEMMA TypesSent ==
  ASSUME NEW w \in Seq(1 .. 255), NEW x, ~Extends(w, x, Len(w) + 1),
         NEW k \in Key, NEW code \in 1 .. 255, code # e0,
         NEW a, NEW z \in SUBSET Modifier, NEW d, Types(w, x, a, z, d),
         IsChar(code, k.ext) => CharOf(z, code) \in Chars
  PROVE  Types(w \o Codes(k, code), x, a, After(z, code, k.ext),
               IF IsChar(code, k.ext) THEN Append(d, CharOf(z, code)) ELSE d)
<1>1. /\ e0 \in 1 .. 255 /\ e0 \notin CharKeys
      /\ w \o Codes(k, code) = IF k.ext THEN Append(Append(w, e0), code) ELSE Append(w, code)
  <2>1. SentFacts(w, x, k, code)
    BY KeySent
  <2>2. QED
    BY <2>1 DEF SentFacts, e0, CharKeys
<1>2. CASE k.ext
  <2> DEFINE u == Append(w, e0)
             y == Extends(u, x, Len(u) + 1)
  <2>1. u \in Seq(1 .. 255) /\ Len(u) + 1 = Len(w) + 2
    BY <1>1
  <2>2. AppendFacts(w, e0, x)
    BY <1>1, AppendParts
  <2>3. y
    BY <2>1, <2>2 DEF AppendFacts
  <2>4. After(z, e0, Extends(w, x, Len(w) + 1)) = z
    BY PrefixKeeps
  <2>5. ~IsChar(e0, Extends(w, x, Len(w) + 1))
    BY <1>1 DEF IsChar
  <2>6. Types(u, x, a, After(z, e0, Extends(w, x, Len(w) + 1)), d)
    BY <1>1, <2>5, TypesAdd
  <2>7. Types(u, x, a, z, d)
    BY <2>4, <2>6
  <2> HIDE DEF u
  <2>8. ~IsChar(code, y) /\ ~IsChar(code, k.ext)
    BY <1>2, <2>3 DEF IsChar
  <2>9. Types(Append(u, code), x, a, After(z, code, y), d)
    BY <2>1, <2>7, <2>8, TypesAdd
  <2> HIDE DEF y
  <2>10. After(z, code, y) = After(z, code, k.ext)
    <3>1. y <=> k.ext
      BY <1>2, <2>3
    <3>2. QED
      BY <3>1, SameExt
  <2>11. QED
    BY <1>1, <1>2, <2>8, <2>9, <2>10 DEF u
<1>3. CASE ~k.ext
  <2> DEFINE y == Extends(w, x, Len(w) + 1)
  <2>1. ~y /\ (IsChar(code, y) <=> IsChar(code, k.ext))
    BY <1>3 DEF IsChar
  <2>2. CASE IsChar(code, k.ext)
    <3>1. Types(Append(w, code), x, a, After(z, code, y), Append(d, CharOf(z, code)))
      BY <2>1, <2>2, TypesAddChar
    <3> HIDE DEF y
    <3>2. After(z, code, y) = After(z, code, k.ext)
      <4>1. y <=> k.ext
        BY <1>3, <2>1
      <4>2. QED
        BY <4>1, SameExt
    <3>3. QED
      BY <1>1, <1>3, <2>2, <3>1, <3>2
  <2>3. CASE ~IsChar(code, k.ext)
    <3>1. Types(Append(w, code), x, a, After(z, code, y), d)
      BY <2>1, <2>3, TypesAdd
    <3> HIDE DEF y
    <3>2. After(z, code, y) = After(z, code, k.ext)
      <4>1. y <=> k.ext
        BY <1>3, <2>1
      <4>2. QED
        BY <4>1, SameExt
    <3>3. QED
      BY <1>1, <1>3, <2>3, <3>1, <3>2
  <2>4. QED
    BY <2>2, <2>3
<1>4. QED
  BY <1>2, <1>3

-----------------------------------------------------------------------------
(* A key and its codes: neither of them is a prefix.                       *)
LEMMA KeyCode ==
  ASSUME NEW k \in Key
  PROVE  /\ k.ext \in BOOLEAN /\ k.code \in 1 .. 127 /\ k.code # 96
         /\ k.code \in 1 .. 255 /\ k.code # e0
         /\ k.code + 128 \in 1 .. 255 /\ k.code + 128 # e0
<1>1. k.ext \in BOOLEAN /\ k.code \in 1 .. 127 /\ k.code # 96
  BY KeyAssumption
<1>2. QED
  BY <1>1 DEF e0

(* A key that goes down or repeats is held; caps lock is switched by the   *)
(* plain key only.                                                         *)
LEMMA MakeHeld ==
  ASSUME NEW k \in Key, NEW keys, NEW caps \in BOOLEAN, NEW z, HeldDown(z, keys, caps),
         NEW more, keys \subseteq more, k \in more
  PROVE  HeldDown(After(z, k.code, k.ext), more, caps # (k.code = caps_lock_make /\ ~k.ext))
<1>1. ASSUME NEW m \in After(z, k.code, k.ext) \ {"caps"}
      PROVE  \E j \in more : j.code \in MakesOf(m, j.ext)
  <2>1. CASE k.code \in MakesOf(m, k.ext)
    BY <2>1
  <2>2. CASE k.code \notin MakesOf(m, k.ext)
    <3>1. m \in z \ {"caps"}
      BY <1>1, <2>2 DEF After
    <3>2. QED
      BY <3>1 DEF HeldDown
  <2>3. QED
    BY <2>1, <2>2
<1>2. "caps" \in After(z, k.code, k.ext) <=> (caps # (k.code = caps_lock_make /\ ~k.ext))
  <2>1. k.ext \in BOOLEAN /\ k.code \in 1 .. 255
    BY KeyCode
  <2>2. "caps" \in After(z, k.code, k.ext) <=>
          IF k.ext THEN "caps" \in z ELSE ~("caps" \in z <=> k.code = 58)
    <3>1. AfterFacts(z, k.code, k.ext)
      BY <2>1, AfterIs
    <3>2. QED
      BY <2>1, <3>1 DEF AfterFacts
  <2>3. "caps" \in z <=> caps
    BY DEF HeldDown
  <2>4. QED
    BY <2>1, <2>2, <2>3 DEF caps_lock_make
<1>3. QED
  BY <1>1, <1>2 DEF HeldDown

(* A key that goes up takes its modifier with it.                          *)
LEMMA BreakHeld ==
  ASSUME NEW k \in Key, NEW keys \in SUBSET Key, NEW caps \in BOOLEAN, NEW z \in SUBSET Modifier,
         HeldDown(z, keys, caps)
  PROVE  HeldDown(After(z, k.code + 128, k.ext), keys \ {k}, caps)
<1>1. /\ k.ext \in BOOLEAN /\ k.code \in 1 .. 127 /\ k.code + 128 \in 1 .. 255
      /\ (k.code + 128) - 128 = k.code
  BY KeyCode
<1>2. ASSUME NEW m \in After(z, k.code + 128, k.ext) \ {"caps"}
      PROVE  \E j \in keys \ {k} : j.code \in MakesOf(m, j.ext)
  <2>1. m \in Modifier /\ m # "caps"
    BY <1>2 DEF After
  <2>2. k.code + 128 \notin MakesOf(m, k.ext)
    <3>1. k.code + 128 \notin {29, 56, 42, 54, 58}
      BY <1>1
    <3>2. QED
      BY <2>1, <3>1, MakeCodes DEF Modifier
  <2>3. m \in z /\ (k.code + 128) - 128 \notin MakesOf(m, k.ext)
    BY <1>2, <2>1, <2>2 DEF After
  <2>4. m \in z /\ k.code \notin MakesOf(m, k.ext)
    BY <1>1, <2>3
  <2>5. PICK j \in keys : j.code \in MakesOf(m, j.ext)
    BY <2>1, <2>4 DEF HeldDown
  <2>6. QED
    BY <2>4, <2>5
<1>3. "caps" \in After(z, k.code + 128, k.ext) <=> caps
  <2>1. "caps" \in After(z, k.code + 128, k.ext) <=>
          IF k.ext THEN "caps" \in z ELSE ~("caps" \in z <=> k.code + 128 = 58)
    <3>1. AfterFacts(z, k.code + 128, k.ext)
      BY <1>1, AfterIs
    <3>2. QED
      BY <1>1, <3>1 DEF AfterFacts
  <2>2. k.code + 128 # 58 /\ ("caps" \in z <=> caps)
    BY <1>1 DEF HeldDown
  <2>3. QED
    BY <1>1, <2>1, <2>2
<1>4. QED
  BY <1>2, <1>3 DEF HeldDown

(* With one key of each, the modifiers also see every key that is down.    *)
LEMMA MakeSeen ==
  ASSUME OneKeyEach, NEW k \in Key, NEW keys \in SUBSET Key, NEW z, SeenDown(z, keys)
  PROVE  SeenDown(After(z, k.code, k.ext), keys \cup {k})
<1>1. /\ k.ext \in BOOLEAN /\ k.code \in 1 .. 127 /\ k.code \in 1 .. 255
      /\ k.code # 157 /\ k.code \notin {170, 182}
  BY KeyCode
<1>2. /\ "ctrl" \in After(z, k.code, k.ext) <=> k.code = 29 \/ ("ctrl" \in z /\ k.code # 157)
      /\ "shift" \in After(z, k.code, k.ext) <=>
           IF k.ext THEN "shift" \in z
           ELSE k.code \in {42, 54} \/ ("shift" \in z /\ k.code \notin {170, 182})
  <2>1. AfterFacts(z, k.code, k.ext)
    BY <1>1, AfterIs
  <2>2. QED
    BY <1>1, <2>1 DEF AfterFacts
<1>3. k.code \in {42, 54} => ~k.ext
  BY DEF OneKeyEach, ctrl_l_make, shift_l_make, shift_r_make
<1>4. QED
  BY <1>1, <1>2, <1>3 DEF SeenDown, ctrl_l_make, shift_l_make, shift_r_make

(* A key that goes up takes away its own modifier, which no other key      *)
(* holds.                                                                  *)
LEMMA BreakSeen ==
  ASSUME OneKeyEach, NEW k \in Key, NEW keys \in SUBSET Key, NEW z, SeenDown(z, keys)
  PROVE  SeenDown(After(z, k.code + 128, k.ext), keys \ {k})
<1>1. /\ k.ext \in BOOLEAN /\ k.code \in 1 .. 127 /\ k.code + 128 \in 1 .. 255
      /\ k.code + 128 = 157 <=> k.code = 29
      /\ k.code + 128 \in {170, 182} <=> k.code \in {42, 54}
  BY KeyCode
<1>2. /\ "ctrl" \in After(z, k.code + 128, k.ext)
           <=> k.code + 128 = 29 \/ ("ctrl" \in z /\ k.code + 128 # 157)
      /\ "shift" \in After(z, k.code + 128, k.ext) <=>
           IF k.ext THEN "shift" \in z
           ELSE k.code + 128 \in {42, 54} \/ ("shift" \in z /\ k.code + 128 \notin {170, 182})
  <2>1. AfterFacts(z, k.code + 128, k.ext)
    <3>1. k.code + 128 \in 1 .. 255
      BY <1>1
    <3>2. QED
      BY <3>1, AfterIs
  <2>2. QED
    BY <1>1, <2>1 DEF AfterFacts
<1>3. ASSUME NEW j \in keys \ {k}
      PROVE  /\ j.code = 29 => "ctrl" \in After(z, k.code + 128, k.ext)
             /\ j.code \in {42, 54} => "shift" \in After(z, k.code + 128, k.ext)
  <2>1. /\ j.code = 29 => "ctrl" \in z
        /\ j.code \in {42, 54} => "shift" \in z
    BY DEF SeenDown, ctrl_l_make, shift_l_make, shift_r_make
  <2>2. /\ j.code = 29 => k.code # 29
        /\ j.code \in {42, 54} => k.code \notin {42, 54}
    BY DEF OneKeyEach, ctrl_l_make, shift_l_make, shift_r_make
  <2>3. QED
    BY <1>1, <1>2, <2>1, <2>2
<1>4. QED
  BY <1>3 DEF SeenDown, ctrl_l_make, shift_l_make, shift_r_make

(* The characters of the three keys.                                       *)
LEMMA KeymapIs ==
  /\ keymap(30) = <<"a", "A">> /\ keymap(38) = <<"l", "L">> /\ keymap(2) = <<"1", "!">>
BY DEF keymap

(* A character key types a character, whatever the modifiers.              *)
LEMMA CharIsChar ==
  ASSUME NEW s, NEW code \in CharKeys
  PROVE  CharOf(s, code) \in Chars
<1>1. code \in {30, 38, 2}
  BY DEF CharKeys
<1>2. \A i \in {1, 2} : keymap(code)[i] \in Chars
  BY <1>1, KeymapIs DEF Chars
<1>3. "ctrl-l" \in Chars
  BY DEF Chars
<1>4. QED
  BY <1>2, <1>3 DEF CharOf

(* Then the character the modifiers give is the one that is meant.         *)
LEMMA CharIsMeant ==
  ASSUME NEW z, HeldDown(z, held, capsOn), SeenDown(z, held), capsOn \in BOOLEAN,
         z \in SUBSET Modifier, NEW code \in CharKeys
  PROVE  CharOf(z, code) = Meant(code)
<1>1. "ctrl" \in z <=> Down({ctrl_l_make})
  BY MakeCodes DEF HeldDown, SeenDown, Down, ctrl_l_make
<1>2. "shift" \in z <=> Down({shift_l_make, shift_r_make})
  BY MakeCodes DEF HeldDown, SeenDown, Down, shift_l_make, shift_r_make
<1>3. "caps" \in z <=> capsOn
  BY DEF HeldDown
<1>4. (IF two_symbols(code) THEN "shift" \in z ELSE ~("shift" \in z <=> "caps" \in z))
        <=> (IF two_symbols(code) THEN Down({shift_l_make, shift_r_make})
             ELSE Down({shift_l_make, shift_r_make}) # capsOn)
  BY <1>2, <1>3 DEF Down
<1>5. QED
  BY <1>1, <1>4 DEF CharOf, Meant

-----------------------------------------------------------------------------
(* One lemma per action.                                                   *)

(* An empty wire leads to the modifiers that are on: none.                 *)
LEMMA DecodeInitInv == DecodeInit => KeyInv
<1> SUFFICES ASSUME DecodeInit PROVE KeyInv
  OBVIOUS
<1>1. KeyTypes
  <2>1. <<>> \in Seq(1 .. 255) /\ <<>> \in Seq(Chars) /\ 0 \in 0 .. BufChars
    BY KeyAssumption
  <2>2. QED
    BY <2>1 DEF DecodeInit, KeyTypes
<1>2. ~Extends(wire, ext_scancode, Len(wire) + 1)
  BY DEF DecodeInit, Extends
<1>3. Now = {} /\ wire = <<>> /\ Len(wire) = 0
  BY DEF DecodeInit, Now
<1> DEFINE g == [i \in 0 .. 0 |-> {}]
           e == [i \in 0 .. 0 |-> <<>>]
<1>4. Trace(g, wire, ext_scancode) /\ g[0] = Now /\ g[Len(wire)] = {}
  BY <1>3 DEF Trace
<1>5. Todo(e, g, wire, ext_scancode) /\ e[0] = expected /\ e[Len(wire)] = <<>>
  BY <1>3 DEF Todo, DecodeInit
<1> HIDE DEF g, e
<1>6. /\ Leads(wire, ext_scancode, Now, {})
      /\ Types(wire, ext_scancode, Now, {}, expected)
  BY <1>4, <1>5 DEF Leads, Types
<1>7. HeldDown({}, held, capsOn) /\ SeenDown({}, held) /\ ~wrong
  BY DEF HeldDown, SeenDown, DecodeInit
<1>8. {} \in SUBSET Modifier
  OBVIOUS
<1>9. QED
  BY <1>1, <1>2, <1>6, <1>7, <1>8 DEF KeyInv

(* What any byte-sending step has to show.                                 *)
LEMMA SentInv ==
  ASSUME KeyInv, NEW k \in Key, NEW code \in 1 .. 255, code # e0,
         wire' = wire \o Codes(k, code), UNCHANGED <<status_vars, queued, wrong>>,
         held' \subseteq Key, capsOn' \in BOOLEAN, expected' \in Seq(Chars),
         \A z \in SUBSET Modifier : HeldDown(z, held, capsOn) =>
           HeldDown(After(z, code, k.ext), held', capsOn'),
         OneKeyEach => \A z \in SUBSET Modifier :
           HeldDown(z, held, capsOn) /\ SeenDown(z, held) =>
             /\ SeenDown(After(z, code, k.ext), held')
             /\ expected' = IF IsChar(code, k.ext) THEN Append(expected, CharOf(z, code))
                            ELSE expected
  PROVE  KeyInv'
<1>1. /\ KeyTypes /\ wire \in Seq(1 .. 255) /\ ext_scancode \in BOOLEAN
      /\ ~Extends(wire, ext_scancode, Len(wire) + 1)
  BY DEF KeyInv, KeyTypes
<1>2. UNCHANGED <<ctrl_status, shift_status, alt_status, caps_lock_status, ext_scancode,
                  queued, wrong>>
  BY DEF status_vars
<1>3. Now' = Now
  BY <1>2 DEF Now
<1>4. SentFacts(wire, ext_scancode, k, code)
  BY <1>1, KeySent
<1>5. wire' \in Seq(1 .. 255) /\ ~Extends(wire, ext_scancode, Len(wire) + 1)'
  BY <1>2, <1>4 DEF SentFacts
<1>6. KeyTypes'
  BY <1>1, <1>2, <1>5 DEF KeyTypes
<1>7. \E z \in SUBSET Modifier :
        Leads(wire, ext_scancode, Now, z)' /\ HeldDown(z, held', capsOn')
  <2>1. PICK z \in SUBSET Modifier :
          Leads(wire, ext_scancode, Now, z) /\ HeldDown(z, held, capsOn)
    BY DEF KeyInv
  <2> DEFINE v == After(z, code, k.ext)
  <2>2. Leads(wire \o Codes(k, code), ext_scancode, Now, v)
    BY <1>1, <2>1, LeadsSent
  <2>3. v \in SUBSET Modifier /\ HeldDown(v, held', capsOn')
    BY <2>1, AfterType
  <2>4. Leads(wire, ext_scancode, Now, v)'
    BY <1>2, <1>3, <2>2
  <2> HIDE DEF v
  <2>5. QED
    BY <2>3, <2>4
<1>8. ASSUME OneKeyEach
      PROVE  /\ ~wrong'
             /\ \E z \in SUBSET Modifier :
                  /\ Types(wire, ext_scancode, Now, z, expected)'
                  /\ HeldDown(z, held', capsOn') /\ SeenDown(z, held')
  <2>1. PICK z \in SUBSET Modifier :
          /\ Types(wire, ext_scancode, Now, z, expected)
          /\ HeldDown(z, held, capsOn) /\ SeenDown(z, held)
    BY <1>8 DEF KeyInv
  <2> DEFINE v == After(z, code, k.ext)
             d == IF IsChar(code, k.ext) THEN Append(expected, CharOf(z, code)) ELSE expected
  <2>2. IsChar(code, k.ext) => CharOf(z, code) \in Chars
    BY CharIsChar DEF IsChar
  <2>3. Types(wire \o Codes(k, code), ext_scancode, Now, v, d)
    BY <1>1, <2>1, <2>2, TypesSent
  <2>4. v \in SUBSET Modifier /\ HeldDown(v, held', capsOn')
    BY <2>1, AfterType
  <2>5. SeenDown(v, held') /\ expected' = d
    BY <1>8, <2>1
  <2> HIDE DEF v, d
  <2>6. Types(wire, ext_scancode, Now, v, expected)'
    BY <1>2, <1>3, <2>3, <2>5
  <2>7. ~wrong'
    BY <1>2, <1>8 DEF KeyInv
  <2>8. QED
    BY <2>4, <2>5, <2>6, <2>7
<1>9. QED
  BY <1>5, <1>6, <1>7, <1>8 DEF KeyInv, OneKeyEach

(* A key goes down or repeats.                                             *)
LEMMA MakeInv ==
  ASSUME KeyInv, NEW k \in Key, Make(k), held' = held \cup {k}
  PROVE  KeyInv'
<1>1. /\ k.ext \in BOOLEAN /\ k.code \in 1 .. 255 /\ k.code # e0
      /\ held \subseteq Key /\ capsOn \in BOOLEAN /\ expected \in Seq(Chars)
  BY KeyCode DEF KeyInv, KeyTypes
<1>2. /\ wire' = wire \o Codes(k, k.code) /\ UNCHANGED <<status_vars, queued, wrong>>
      /\ capsOn' = (capsOn # (k.code = caps_lock_make /\ ~k.ext))
      /\ expected' = IF IsChar(k.code, k.ext) THEN Append(expected, Meant(k.code)) ELSE expected
  BY DEF Make, IsChar
<1>3. held' \subseteq Key /\ capsOn' \in BOOLEAN
  BY <1>1, <1>2
<1>4. expected' \in Seq(Chars)
  <2>1. CASE IsChar(k.code, k.ext)
    <3>1. Meant(k.code) \in Chars
      <4>1. k.code \in {30, 38, 2}
        BY <2>1 DEF IsChar, CharKeys
      <4>2. \A i \in {1, 2} : keymap(k.code)[i] \in Chars
        BY <4>1, KeymapIs DEF Chars
      <4>3. "ctrl-l" \in Chars
        BY DEF Chars
      <4>4. QED
        BY <4>2, <4>3 DEF Meant
    <3>2. expected' = Append(expected, Meant(k.code))
      BY <1>2, <2>1
    <3>3. QED
      BY <1>1, <3>1, <3>2
  <2>2. CASE ~IsChar(k.code, k.ext)
    BY <1>1, <1>2, <2>2
  <2>3. QED
    BY <2>1, <2>2
<1>5. ASSUME NEW z \in SUBSET Modifier, HeldDown(z, held, capsOn)
      PROVE  HeldDown(After(z, k.code, k.ext), held', capsOn')
  <2> DEFINE more == held \cup {k}
             caps == capsOn # (k.code = caps_lock_make /\ ~k.ext)
  <2>1. held \subseteq more /\ k \in more
    OBVIOUS
  <2> HIDE DEF more
  <2>2. HeldDown(After(z, k.code, k.ext), more, caps)
    BY <1>1, <1>5, <2>1, MakeHeld
  <2>3. QED
    BY <1>2, <2>2 DEF more
<1>6. ASSUME OneKeyEach, NEW z \in SUBSET Modifier,
             HeldDown(z, held, capsOn), SeenDown(z, held)
      PROVE  /\ SeenDown(After(z, k.code, k.ext), held')
             /\ expected' = IF IsChar(k.code, k.ext) THEN Append(expected, CharOf(z, k.code))
                            ELSE expected
  <2>1. SeenDown(After(z, k.code, k.ext), held \cup {k})
    BY <1>1, <1>6, MakeSeen
  <2>2. IsChar(k.code, k.ext) => CharOf(z, k.code) = Meant(k.code)
    BY <1>1, <1>6, CharIsMeant DEF IsChar
  <2>3. QED
    BY <1>2, <2>1, <2>2
<1>7. QED
  BY <1>1, <1>2, <1>3, <1>4, <1>5, <1>6, SentInv

(* A key goes up.                                                          *)
LEMMA ReleaseInv ==
  ASSUME KeyInv, NEW k \in Key, LetGo(k)
  PROVE  KeyInv'
<1> DEFINE code == k.code + 128
<1>1. /\ k.ext \in BOOLEAN /\ code \in 1 .. 255 /\ code # e0 /\ code \notin CharKeys
      /\ held \subseteq Key /\ capsOn \in BOOLEAN /\ expected \in Seq(Chars)
  <2>1. k.ext \in BOOLEAN /\ code \in 1 .. 255 /\ code # e0 /\ k.code \in 1 .. 127
    BY KeyCode
  <2>2. code \notin CharKeys
    BY <2>1 DEF CharKeys
  <2>3. QED
    BY <2>1, <2>2 DEF KeyInv, KeyTypes
<1>2. /\ wire' = wire \o Codes(k, code) /\ UNCHANGED <<status_vars, queued, wrong>>
      /\ held' = held \ {k} /\ capsOn' = capsOn /\ expected' = expected
  BY DEF LetGo
<1>3. ASSUME NEW z \in SUBSET Modifier, HeldDown(z, held, capsOn)
      PROVE  HeldDown(After(z, code, k.ext), held', capsOn')
  <2>1. held \in SUBSET Key
    BY <1>1
  <2>2. HeldDown(After(z, code, k.ext), held \ {k}, capsOn)
    BY <1>1, <1>3, <2>1, BreakHeld
  <2>3. QED
    BY <1>2, <2>2
<1>4. ASSUME OneKeyEach, NEW z \in SUBSET Modifier,
             HeldDown(z, held, capsOn), SeenDown(z, held)
      PROVE  /\ SeenDown(After(z, code, k.ext), held')
             /\ expected' = IF IsChar(code, k.ext) THEN Append(expected, CharOf(z, code))
                            ELSE expected
  <2>1. SeenDown(After(z, code, k.ext), held \ {k})
    BY <1>1, <1>4, BreakSeen
  <2>2. QED
    BY <1>1, <1>2, <2>1 DEF IsChar
<1> HIDE DEF code
<1>5. held' \subseteq Key /\ capsOn' \in BOOLEAN /\ expected' \in Seq(Chars)
  BY <1>1, <1>2
<1>6. QED
  BY <1>1, <1>2, <1>3, <1>4, <1>5, SentInv

(* The statuses after the byte b, whichever branch the handler takes.      *)
Handled(b, x) ==
  /\ ctrl_status' = (b = 29 \/ (ctrl_status /\ b # 157))
  /\ alt_status' = (b = 56 \/ (alt_status /\ b # 184))
  /\ shift_status' = (IF x THEN shift_status
                      ELSE b \in {42, 54} \/ (shift_status /\ b \notin {170, 182}))
  /\ caps_lock_status' = (IF x THEN caps_lock_status ELSE caps_lock_status # (b = 58))
  /\ IF IsChar(b, x) THEN Put(CharOf(Now, b)) ELSE UNCHANGED <<queued, expected, wrong>>

(* intr_keyboard_handler does to the statuses what After says.             *)
LEMMA HandledByte ==
  ASSUME KeyTypes, intr_keyboard_handler
  PROVE  Handled(Head(wire), ext_scancode)
<1> DEFINE b == Head(wire)
           x == ext_scancode
           sc == IF x THEN Extended(b) ELSE b
<1>1. /\ wire \in Seq(1 .. 255) /\ wire # <<>> /\ x \in BOOLEAN
      /\ ctrl_status \in BOOLEAN /\ shift_status \in BOOLEAN /\ alt_status \in BOOLEAN
      /\ caps_lock_status \in BOOLEAN
  BY DEF KeyTypes, intr_keyboard_handler
<1>2. b \in 1 .. 255
  BY <1>1, RestOf
<1>3. \/ /\ b = e0
         /\ UNCHANGED <<ctrl_status, shift_status, alt_status, caps_lock_status, queued, expected, wrong>>
      \/ b # e0 /\ b >= 128 /\ BreakCode(sc - 128)
      \/ b < 128 /\ Known(sc) /\ b \in CharKeys /\ CharCode(b)
      \/ b < 128 /\ Known(sc) /\ b \notin CharKeys /\ ControlCode(b)
      \/ /\ b < 128 /\ ~Known(sc)
         /\ UNCHANGED <<ctrl_status, shift_status, alt_status, caps_lock_status, queued, expected, wrong>>
  BY DEF intr_keyboard_handler
<1>4. sc = IF x THEN 57344 + b ELSE b
  BY DEF Extended, e0
<1> SUFFICES Handled(b, x)
  OBVIOUS
<1> HIDE DEF b, sc, x
<1>5. CASE /\ b = e0
           /\ UNCHANGED <<ctrl_status, shift_status, alt_status, caps_lock_status, queued, expected, wrong>>
  <2>1. b = 224 /\ b \notin {30, 38, 2}
    BY <1>5 DEF e0
  <2>2. QED
    BY <1>1, <1>5, <2>1 DEF Handled, IsChar, CharKeys
<1>6. CASE b # e0 /\ b >= 128 /\ BreakCode(sc - 128)
  <2>1. /\ sc - 128 \in {ctrl_l_make, ctrl_r_make} <=> b = 157
        /\ sc - 128 \in {alt_l_make, alt_r_make} <=> b = 184
        /\ sc - 128 \in {shift_l_make, shift_r_make} <=> ~x /\ b \in {170, 182}
    BY <1>1, <1>2, <1>4, <1>6 DEF ctrl_l_make, ctrl_r_make, alt_l_make, alt_r_make,
       shift_l_make, shift_r_make, Extended, e0
  <2>2. b \notin {29, 56, 42, 54, 58, 30, 38, 2}
    BY <1>2, <1>6
  <2>3. /\ ctrl_status' = (ctrl_status /\ b # 157)
        /\ alt_status' = (alt_status /\ b # 184)
        /\ shift_status' = (shift_status /\ ~(~x /\ b \in {170, 182}))
        /\ UNCHANGED <<caps_lock_status, queued, expected, wrong>>
    <3>1. /\ ~(b = 157 /\ b = 184) /\ ~(b = 157 /\ b \in {170, 182})
          /\ ~(b = 184 /\ b \in {170, 182})
      OBVIOUS
    <3>2. UNCHANGED <<caps_lock_status, queued, expected, wrong>>
      BY <1>6 DEF BreakCode
    <3>3. CASE b = 157
      <4>1. ctrl_status' = FALSE /\ UNCHANGED <<shift_status, alt_status>>
        BY <1>6, <2>1, <3>3 DEF BreakCode
      <4>2. QED
        BY <1>1, <3>1, <3>2, <3>3, <4>1
    <3>4. CASE ~x /\ b \in {170, 182}
      <4>1. shift_status' = FALSE /\ UNCHANGED <<ctrl_status, alt_status>>
        BY <1>6, <2>1, <3>1, <3>4 DEF BreakCode
      <4>2. QED
        BY <1>1, <3>1, <3>2, <3>4, <4>1
    <3>5. CASE b = 184
      <4>1. alt_status' = FALSE /\ UNCHANGED <<ctrl_status, shift_status>>
        BY <1>6, <2>1, <3>1, <3>5 DEF BreakCode
      <4>2. QED
        BY <1>1, <3>1, <3>2, <3>5, <4>1
    <3>6. CASE b # 157 /\ b # 184 /\ ~(~x /\ b \in {170, 182})
      <4>1. UNCHANGED <<ctrl_status, shift_status, alt_status>>
        BY <1>6, <2>1, <3>6 DEF BreakCode
      <4>2. QED
        BY <1>1, <3>2, <3>6, <4>1
    <3>7. QED
      BY <3>3, <3>4, <3>5, <3>6
  <2>4. ~IsChar(b, x)
    BY <2>2 DEF IsChar, CharKeys
  <2>5. QED
    BY <1>1, <2>2, <2>3, <2>4 DEF Handled
<1>7. CASE b < 128 /\ Known(sc) /\ b \in CharKeys /\ CharCode(b)
  <2>1. ~x /\ b \in {30, 38, 2}
    BY <1>1, <1>2, <1>4, <1>7 DEF Known, CharKeys, alt_r_make, ctrl_r_make, Extended, e0,
       alt_l_make, ctrl_l_make
  <2>2. IsChar(b, x)
    BY <1>7, <2>1 DEF IsChar
  <2>3. b \notin {29, 56, 42, 54, 58, 157, 184, 170, 182}
    BY <2>1
  <2>4. UNCHANGED <<ctrl_status, shift_status, alt_status, caps_lock_status>>
    BY <1>7 DEF CharCode
  <2>5. Put(CharOf(Now, b))
    <3>1. /\ "ctrl" \in Now <=> ctrl_status
          /\ "shift" \in Now <=> shift_status
          /\ "caps" \in Now <=> caps_lock_status
      BY DEF Now, Modifier
    <3>2. (IF two_symbols(b) THEN "shift" \in Now ELSE ~("shift" \in Now <=> "caps" \in Now))
            <=> (IF two_symbols(b) THEN shift_status ELSE shift_status # caps_lock_status)
      BY <1>1, <3>1
    <3> DEFINE cur == keymap(b)[IF (IF two_symbols(b) THEN shift_status
                                    ELSE shift_status # caps_lock_status) THEN 2 ELSE 1]
    <3>3. CharOf(Now, b) = IF ctrl_status /\ cur = "l" THEN "ctrl-l" ELSE cur
      BY <3>1, <3>2 DEF CharOf
    <3>4. Put(IF ctrl_status /\ cur = "l" THEN "ctrl-l" ELSE cur)
      BY <1>7 DEF CharCode
    <3> HIDE DEF cur
    <3>5. QED
      BY <3>3, <3>4
  <2>6. QED
    BY <1>1, <2>2, <2>3, <2>4, <2>5 DEF Handled
<1>8. CASE b < 128 /\ Known(sc) /\ b \notin CharKeys /\ ControlCode(b)
  <2>1. ~IsChar(b, x) /\ (x => b \in {29, 56}) /\ b \notin {157, 184, 170, 182}
    BY <1>1, <1>2, <1>4, <1>8 DEF IsChar, Known, alt_r_make, ctrl_r_make, Extended, e0,
       alt_l_make, ctrl_l_make
  <2>2. /\ ctrl_status' = (ctrl_status \/ b = 29)
        /\ alt_status' = (alt_status \/ b = 56)
        /\ shift_status' = (shift_status \/ b \in {42, 54})
        /\ caps_lock_status' = (caps_lock_status # (b = 58))
        /\ UNCHANGED <<queued, expected, wrong>>
    BY <1>8 DEF ControlCode, ctrl_l_make, alt_l_make, shift_l_make, shift_r_make, caps_lock_make
  <2>3. x => b \notin {42, 54, 58}
    BY <2>1
  <2>4. QED
    BY <1>1, <2>1, <2>2, <2>3 DEF Handled
<1>9. CASE /\ b < 128 /\ ~Known(sc)
           /\ UNCHANGED <<ctrl_status, shift_status, alt_status, caps_lock_status, queued, expected, wrong>>
  <2>1. /\ b \notin {29, 56, 157, 184, 170, 182}
        /\ ~x => b \notin {42, 54, 58} /\ b \notin {30, 38, 2}
    BY <1>1, <1>2, <1>4, <1>9 DEF Known, alt_r_make, ctrl_r_make, Extended, e0,
       alt_l_make, ctrl_l_make
  <2>2. ~IsChar(b, x)
    BY <2>1 DEF IsChar, CharKeys
  <2>3. QED
    BY <1>1, <1>9, <2>1, <2>2 DEF Handled
<1>10. QED
  BY <1>3, <1>5, <1>6, <1>7, <1>8, <1>9

(* A byte is handled: the trace loses its first element.                   *)
LEMMA KeyHandlerInv ==
  ASSUME KeyInv, intr_keyboard_handler
  PROVE  KeyInv'
<1> DEFINE b == wire[1]
           x == ext_scancode
<1>1. /\ KeyTypes /\ wire \in Seq(1 .. 255) /\ wire # <<>> /\ x \in BOOLEAN
      /\ ~Extends(wire, x, Len(wire) + 1) /\ wire' = Tail(wire)
      /\ held' = held /\ capsOn' = capsOn /\ ext_scancode' = (Head(wire) = e0)
  BY DEF KeyInv, KeyTypes, intr_keyboard_handler, Prefix
<1>2. /\ b \in 1 .. 255 /\ Head(wire) = b /\ Tail(wire) \in Seq(1 .. 255)
      /\ Len(Tail(wire)) = Len(wire) - 1 /\ Len(wire) \in Nat \ {0}
      /\ \A i \in 1 .. Len(wire) : Extends(Tail(wire), b = e0, i) = Extends(wire, x, i + 1)
  BY <1>1, TailParts
<1>3. Handled(b, x)
  BY <1>1, <1>2, HandledByte
<1>4. ext_scancode' = (b = e0)
  BY <1>1, <1>2
<1>5. ~Extends(wire, ext_scancode, Len(wire) + 1)'
  <2>1. Len(wire) \in 1 .. Len(wire) /\ Len(Tail(wire)) + 1 = Len(wire)
    BY <1>2
  <2>2. Extends(Tail(wire), b = e0, Len(wire)) = Extends(wire, x, Len(wire) + 1)
    BY <1>2, <2>1
  <2>3. QED
    BY <1>1, <1>4, <2>1, <2>2
<1>6. Now' = After(Now, b, x)
  <2>1. AfterFacts(Now, b, x)
    BY <1>2, AfterIs
  <2>2. /\ "ctrl" \in Now <=> ctrl_status
        /\ "alt" \in Now <=> alt_status
        /\ "shift" \in Now <=> shift_status
        /\ "caps" \in Now <=> caps_lock_status
    BY DEF Now, Modifier
  <2>3. /\ "ctrl" \in Now' <=> ctrl_status'
        /\ "alt" \in Now' <=> alt_status'
        /\ "shift" \in Now' <=> shift_status'
        /\ "caps" \in Now' <=> caps_lock_status'
    BY DEF Now, Modifier
  <2>4. Now' \in SUBSET Modifier /\ After(Now, b, x) \in SUBSET Modifier
    BY AfterType DEF Now
  <2>5. /\ "ctrl" \in Now' <=> "ctrl" \in After(Now, b, x)
        /\ "alt" \in Now' <=> "alt" \in After(Now, b, x)
    BY <1>3, <2>1, <2>2, <2>3 DEF AfterFacts, Handled
  <2>6. "shift" \in Now' <=> "shift" \in After(Now, b, x)
    <3>1. shift_status' <=>
            IF x THEN shift_status ELSE b \in {42, 54} \/ (shift_status /\ b \notin {170, 182})
      BY <1>3 DEF Handled
    <3>2. "shift" \in After(Now, b, x) <=>
            IF x THEN "shift" \in Now
            ELSE b \in {42, 54} \/ ("shift" \in Now /\ b \notin {170, 182})
      BY <2>1 DEF AfterFacts
    <3>3. QED
      BY <2>2, <2>3, <3>1, <3>2
  <2>7. "caps" \in Now' <=> "caps" \in After(Now, b, x)
    <3>1. caps_lock_status' <=>
            IF x THEN caps_lock_status ELSE ~(caps_lock_status <=> b = 58)
      <4>1. caps_lock_status \in BOOLEAN
        BY <1>1 DEF KeyTypes
      <4>2. caps_lock_status' = (IF x THEN caps_lock_status ELSE caps_lock_status # (b = 58))
        BY <1>3 DEF Handled
      <4>3. QED
        BY <4>1, <4>2
    <3>2. "caps" \in After(Now, b, x) <=> IF x THEN "caps" \in Now ELSE ~("caps" \in Now <=> b = 58)
      BY <2>1 DEF AfterFacts
    <3>3. QED
      BY <2>2, <2>3, <3>1, <3>2
  <2>8. QED
    BY <2>4, <2>5, <2>6, <2>7, SameModifiers
<1>7. /\ ctrl_status' \in BOOLEAN /\ shift_status' \in BOOLEAN /\ alt_status' \in BOOLEAN
      /\ caps_lock_status' \in BOOLEAN /\ ext_scancode' \in BOOLEAN
  BY <1>1, <1>3, <1>4 DEF Handled, KeyTypes
<1>8. expected' \in Seq(Chars) /\ wrong' \in BOOLEAN /\ queued' \in 0 .. BufChars
  <2>1. CASE IsChar(b, x)
    <3>1. /\ IF queued < BufChars
               THEN /\ queued' = queued + 1
                    /\ wrong' = (wrong \/ expected = <<>> \/ Head(expected) # CharOf(Now, b))
               ELSE UNCHANGED <<queued, wrong>>
          /\ expected' = IF expected = <<>> THEN <<>> ELSE Tail(expected)
      BY <1>3, <2>1 DEF Handled, Put
    <3>2. expected \in Seq(Chars) /\ wrong \in BOOLEAN /\ queued \in 0 .. BufChars
      BY <1>1 DEF KeyTypes
    <3>3. expected' \in Seq(Chars)
      <4>1. CASE expected = <<>>
        BY <3>1, <3>2, <4>1
      <4>2. CASE expected # <<>>
        BY <3>1, <3>2, <4>2
      <4>3. QED
        BY <4>1, <4>2
    <3>4. wrong' \in BOOLEAN
      BY <3>1, <3>2, Zenon
    <3>5. queued' \in 0 .. BufChars
      <4>1. queued' \in {queued, queued + 1} /\ (queued < BufChars \/ queued' = queued)
        BY <3>1, Zenon
      <4>2. QED
        BY <3>2, <4>1, KeyAssumption
    <3>6. QED
      BY <3>3, <3>4, <3>5
  <2>2. CASE ~IsChar(b, x)
    BY <1>1, <1>3, <2>2 DEF Handled, KeyTypes
  <2>3. QED
    BY <2>1, <2>2
<1>9. KeyTypes'
  BY <1>1, <1>2, <1>7, <1>8 DEF KeyTypes
<1>10. \E z \in SUBSET Modifier :
         Leads(wire, ext_scancode, Now, z)' /\ HeldDown(z, held', capsOn')
  <2>1. PICK z \in SUBSET Modifier : Leads(wire, x, Now, z) /\ HeldDown(z, held, capsOn)
    BY DEF KeyInv
  <2>2. Leads(Tail(wire), b = e0, After(Now, b, x), z)
    BY <1>1, <2>1, LeadsTake
  <2>3. Leads(wire, ext_scancode, Now, z)'
    BY <1>1, <1>4, <1>6, <2>2
  <2>4. QED
    BY <1>1, <2>1, <2>3
<1>11. ASSUME OneKeyEach
       PROVE  /\ ~wrong'
              /\ \E z \in SUBSET Modifier :
                   /\ Types(wire, ext_scancode, Now, z, expected)'
                   /\ HeldDown(z, held', capsOn') /\ SeenDown(z, held')
  <2>1. PICK z \in SUBSET Modifier :
          /\ Types(wire, x, Now, z, expected)
          /\ HeldDown(z, held, capsOn) /\ SeenDown(z, held)
    BY <1>11 DEF KeyInv
  <2> DEFINE rest == IF IsChar(b, x) THEN Tail(expected) ELSE expected
  <2>2. /\ Types(Tail(wire), b = e0, After(Now, b, x), z, rest)
        /\ IsChar(b, x) => expected # <<>> /\ Head(expected) = CharOf(Now, b)
    BY <1>1, <2>1, TypesTake
  <2>3. ~wrong
    BY <1>11 DEF KeyInv
  <2>4. expected' = rest /\ ~wrong'
    BY <1>3, <2>2, <2>3 DEF Handled, Put
  <2> HIDE DEF rest
  <2>5. Types(wire, ext_scancode, Now, z, expected)'
    BY <1>1, <1>4, <1>6, <2>2, <2>4
  <2>6. QED
    BY <1>1, <2>1, <2>4, <2>5
<1>12. QED
  BY <1>5, <1>9, <1>10, <1>11 DEF KeyInv, OneKeyEach

-----------------------------------------------------------------------------
(* Every step keeps the invariant.                                         *)
LEMMA KeyNextInv == KeyInv /\ [DecodeNext]_decode_vars => KeyInv'
<1> SUFFICES ASSUME KeyInv, [DecodeNext]_decode_vars PROVE KeyInv'
  OBVIOUS
<1>1. CASE UNCHANGED decode_vars
  <2>1. /\ UNCHANGED <<ctrl_status, shift_status, alt_status, caps_lock_status, ext_scancode>>
        /\ UNCHANGED <<held, capsOn, wire, queued, expected, wrong>>
    BY <1>1 DEF decode_vars, status_vars
  <2>2. Now' = Now
    BY <2>1 DEF Now
  <2>3. QED
    BY <2>1, <2>2 DEF KeyInv, KeyTypes, OneKeyEach
<1>2. ASSUME NEW k \in Key, Press(k)
      PROVE  KeyInv'
  BY <1>2, MakeInv DEF Press
<1>3. ASSUME NEW k \in Key, Repeat(k)
      PROVE  KeyInv'
  <2>1. Make(k) /\ held' = held \cup {k}
    BY <1>3 DEF Repeat
  <2>2. QED
    BY <2>1, MakeInv
<1>4. CASE CharTaken
  <2>1. /\ UNCHANGED <<ctrl_status, shift_status, alt_status, caps_lock_status, ext_scancode>>
        /\ UNCHANGED <<held, capsOn, wire, expected, wrong>>
    BY <1>4 DEF CharTaken, status_vars
  <2>2. Now' = Now
    BY <2>1 DEF Now
  <2>3. queued' \in 0 .. BufChars
    BY <1>4, KeyAssumption DEF CharTaken, KeyInv, KeyTypes
  <2>4. QED
    BY <2>1, <2>2, <2>3 DEF KeyInv, KeyTypes, OneKeyEach
<1>5. QED
  BY <1>1, <1>2, <1>3, <1>4, ReleaseInv, KeyHandlerInv DEF DecodeNext

(* The bytes still on the wire lead to the modifiers that are down, and    *)
(* with one key of each to the characters that were meant (keyboard.c      *)
(* intr_keyboard_handler).                                                 *)
THEOREM KeyInvariant == DecodeSpec => []KeyInv
BY DecodeInitInv, KeyNextInv, PTL DEF DecodeSpec

(* An empty wire leads nowhere.                                            *)
LEMMA QuietWire ==
  ASSUME NEW w, w = <<>>, NEW x, NEW a, NEW z, Leads(w, x, a, z)
  PROVE  a = z
BY DEF Leads

(* No modifier sticks, whatever keys are held, repeat and are released     *)
(* while their bytes wait (keyboard.c intr_keyboard_handler).              *)
THEOREM ModifiersNeverStick == DecodeSpec => []NoStuckModifier
<1>1. KeyInv => NoStuckModifier
  <2> SUFFICES ASSUME KeyInv PROVE NoStuckModifier
    OBVIOUS
  <2>1. wire = <<>> => ~ext_scancode
    BY DEF KeyInv, Extends
  <2>2. DecodeTypeOK
    BY <2>1 DEF KeyInv, KeyTypes, DecodeTypeOK
  <2>3. ASSUME wire = <<>>
        PROVE  /\ ctrl_status => Down({ctrl_l_make})
               /\ shift_status => Down({shift_l_make, shift_r_make})
               /\ alt_status => Down({alt_l_make})
               /\ caps_lock_status = capsOn
    <3>1. HeldDown(Now, held, capsOn)
      BY <2>3, QuietWire DEF KeyInv
    <3>2. /\ ctrl_status => "ctrl" \in Now \ {"caps"}
          /\ alt_status => "alt" \in Now \ {"caps"}
          /\ shift_status => "shift" \in Now \ {"caps"}
          /\ caps_lock_status <=> "caps" \in Now
      BY DEF Now, Modifier
    <3>3. /\ ctrl_status => \E k \in held : k.code \in MakesOf("ctrl", k.ext)
          /\ alt_status => \E k \in held : k.code \in MakesOf("alt", k.ext)
          /\ shift_status => \E k \in held : k.code \in MakesOf("shift", k.ext)
          /\ caps_lock_status <=> capsOn
      BY <3>1, <3>2 DEF HeldDown
    <3>4. caps_lock_status = capsOn
      BY <3>3 DEF KeyInv, KeyTypes
    <3>5. QED
      BY <3>3, <3>4, MakeCodes DEF Down, ctrl_l_make, alt_l_make, shift_l_make, shift_r_make
  <2>4. QED
    BY <2>1, <2>2, <2>3 DEF NoStuckModifier
<1>2. QED
  BY <1>1, KeyInvariant, PTL

(* On a keyboard with one ctrl and one shift key every character typed is  *)
(* put into kbd_buf once, in order and with the modifiers that were down   *)
(* when its key was pressed; one whose interrupt finds kbd_buf full is     *)
(* missing, alone (keyboard.c intr_keyboard_handler).                      *)
THEOREM CharactersAsMeant == OneKeyEach => (DecodeSpec => []TypedAsMeant)
<1> SUFFICES ASSUME OneKeyEach PROVE DecodeSpec => []TypedAsMeant
  OBVIOUS
<1>1. KeyInv => TypedAsMeant
  <2> SUFFICES ASSUME KeyInv PROVE TypedAsMeant
    OBVIOUS
  <2>1. ASSUME wire = <<>>
        PROVE  expected = <<>>
    <3>1. PICK z : Types(wire, ext_scancode, Now, z, expected)
      BY DEF KeyInv
    <3>2. Len(wire) = 0
      BY <2>1
    <3>3. QED
      BY <3>1, <3>2 DEF Types
  <2>2. QED
    BY <2>1 DEF KeyInv, TypedAsMeant
<1>2. QED
  BY <1>1, KeyInvariant, PTL
=============================================================================
