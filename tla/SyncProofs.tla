----------------------------- MODULE SyncProofs -----------------------------
(***************************************************************************)
(* Proofs about module Sync, for every set of tasks and locks.  IInv is    *)
(* inductive: one lemma per action shows that the action keeps it, on top  *)
(* of the lemmas of ThreadProofs about the scheduler; the properties and   *)
(* the refinement of Mutex follow from it.                                 *)
(***************************************************************************)
EXTENDS Sync, ThreadProofs

(* An ASSERT whose condition holds changes nothing.                        *)
LEMMA AssertHolds ==
  ASSUME NEW s \in SchedType, NEW ok, ok
  PROVE  ASSERT(s, ok) = s
BY DEF ASSERT, SchedType

(* int 0x80 only clears IF (kernel.asm syscall_handler).                   *)
LEMMA SyscallEnterInv ==
  ASSUME IInv, NEW t \in Task \ {Idle}, SyscallEnter(t)
  PROVE  IInv'
<1> USE DEF At, Goto, IInv
<1>1. TypeOK'
  BY DEF SyscallEnter, TypeOK, PC, Owning
<1>2. SchedOK(sched)'
  BY DEF SyscallEnter, SchedOK
<1>3. PcOK'
  BY DEF SyscallEnter, TypeOK, PcOK
<1>4. StatusOK'
  BY DEF SyscallEnter, TypeOK, StatusOK, SchedOK
<1>5. WaitersOK'
  BY DEF SyscallEnter, TypeOK, WaitersOK, SchedOK
<1>6. SleeperOK'
  BY DEF SyscallEnter, TypeOK, SleeperOK, SchedOK
<1>7. ValueOK'
  BY DEF SyscallEnter, TypeOK, ValueOK, Owns, Owning
<1>8. MutualExclusion'
  BY DEF SyscallEnter, TypeOK, MutualExclusion, Owns, Owning
<1>9. HolderOK'
  BY TaskAssumption DEF SyscallEnter, TypeOK, HolderOK, MutualExclusion, Owns, Owning
<1>10. RepeatOK'
  BY DEF SyscallEnter, TypeOK, RepeatOK, MutualExclusion, Owns, Owning
<1>11. NoLostWakeup'
  BY DEF SyscallEnter, TypeOK, NoLostWakeup
<1>12. QED
  BY <1>1, <1>2, <1>3, <1>4, <1>5, <1>6, <1>7, <1>8, <1>9, <1>10, <1>11

(* The return to user mode only restores IF.                               *)
LEMMA SyscallExitInv ==
  ASSUME IInv, NEW t \in Task \ {Idle}, SyscallExit(t)
  PROVE  IInv'
<1> USE DEF At, Goto, IInv
<1>1. TypeOK'
  BY DEF SyscallExit, TypeOK, PC, Owning
<1>2. SchedOK(sched)'
  BY DEF SyscallExit, SchedOK
<1>3. PcOK'
  BY DEF SyscallExit, TypeOK, PcOK
<1>4. StatusOK'
  BY DEF SyscallExit, TypeOK, StatusOK, SchedOK
<1>5. WaitersOK'
  BY DEF SyscallExit, TypeOK, WaitersOK, SchedOK
<1>6. SleeperOK'
  BY DEF SyscallExit, TypeOK, SleeperOK, SchedOK
<1>7. ValueOK'
  BY DEF SyscallExit, TypeOK, ValueOK, Owns, Owning
<1>8. MutualExclusion'
  BY DEF SyscallExit, TypeOK, MutualExclusion, Owns, Owning
<1>9. HolderOK'
  BY TaskAssumption DEF SyscallExit, TypeOK, HolderOK, MutualExclusion, Owns, Owning
<1>10. RepeatOK'
  BY DEF SyscallExit, TypeOK, RepeatOK, MutualExclusion, Owns, Owning
<1>11. NoLostWakeup'
  BY DEF SyscallExit, TypeOK, NoLostWakeup
<1>12. QED
  BY <1>1, <1>2, <1>3, <1>4, <1>5, <1>6, <1>7, <1>8, <1>9, <1>10, <1>11

(* sema_down's intr_disable keeps the invariant (sync.c sema_down).        *)
LEMMA SemaDownEnterInv ==
  ASSUME IInv, NEW t \in Task \ {Idle}, SemaDownEnter(t)
  PROVE  IInv'
<1> USE DEF At, Goto, IInv
<1>1. TypeOK'
  BY DEF SemaDownEnter, TypeOK, PC, Owning
<1>2. SchedOK(sched)'
  BY DEF SemaDownEnter, SchedOK
<1>3. PcOK'
  BY DEF SemaDownEnter, TypeOK, PcOK
<1>4. StatusOK'
  BY DEF SemaDownEnter, TypeOK, StatusOK, SchedOK
<1>5. WaitersOK'
  BY DEF SemaDownEnter, TypeOK, WaitersOK, SchedOK
<1>6. SleeperOK'
  BY DEF SemaDownEnter, TypeOK, SleeperOK, SchedOK
<1>7. ValueOK'
  BY DEF SemaDownEnter, TypeOK, ValueOK, Owns, Owning
<1>8. MutualExclusion'
  BY DEF SemaDownEnter, TypeOK, MutualExclusion, Owns, Owning
<1>9. HolderOK'
  BY TaskAssumption DEF SemaDownEnter, TypeOK, HolderOK, MutualExclusion, Owns, Owning
<1>10. RepeatOK'
  BY DEF SemaDownEnter, TypeOK, RepeatOK, MutualExclusion, Owns, Owning
<1>11. NoLostWakeup'
  BY DEF SemaDownEnter, TypeOK, NoLostWakeup
<1>12. QED
  BY <1>1, <1>2, <1>3, <1>4, <1>5, <1>6, <1>7, <1>8, <1>9, <1>10, <1>11

(* plock->holder = running_thread() keeps the invariant (sync.c            *)
(* lock_acquire).                                                          *)
LEMMA SetHolderInv ==
  ASSUME IInv, NEW t \in Task \ {Idle}, SetHolder(t)
  PROVE  IInv'
<1> USE DEF At, Goto, IInv
<1>1. TypeOK'
  BY DEF SetHolder, TypeOK, PC, Owning
<1>2. SchedOK(sched)'
  BY DEF SetHolder, SchedOK
<1>3. PcOK'
  BY DEF SetHolder, TypeOK, PcOK
<1>4. StatusOK'
  BY DEF SetHolder, TypeOK, StatusOK, SchedOK
<1>5. WaitersOK'
  BY DEF SetHolder, TypeOK, WaitersOK, SchedOK
<1>6. SleeperOK'
  BY DEF SetHolder, TypeOK, SleeperOK, SchedOK
<1>7. ValueOK'
  BY DEF SetHolder, TypeOK, ValueOK, Owns, Owning
<1>8. MutualExclusion'
  BY DEF SetHolder, TypeOK, MutualExclusion, Owns, Owning
<1>9. HolderOK'
  BY TaskAssumption DEF SetHolder, TypeOK, HolderOK, MutualExclusion, Owns, Owning
<1>10. RepeatOK'
  BY DEF SetHolder, TypeOK, RepeatOK, MutualExclusion, Owns, Owning
<1>11. NoLostWakeup'
  BY DEF SetHolder, TypeOK, NoLostWakeup
<1>12. QED
  BY <1>1, <1>2, <1>3, <1>4, <1>5, <1>6, <1>7, <1>8, <1>9, <1>10, <1>11

(* plock->holder = NULL keeps the invariant (sync.c lock_release).         *)
LEMMA ClearHolderInv ==
  ASSUME IInv, NEW t \in Task \ {Idle}, ClearHolder(t)
  PROVE  IInv'
<1> USE DEF At, Goto, IInv
<1>1. TypeOK'
  BY DEF ClearHolder, TypeOK, PC, Owning
<1>2. SchedOK(sched)'
  BY DEF ClearHolder, SchedOK
<1>3. PcOK'
  BY DEF ClearHolder, TypeOK, PcOK
<1>4. StatusOK'
  BY DEF ClearHolder, TypeOK, StatusOK, SchedOK
<1>5. WaitersOK'
  BY DEF ClearHolder, TypeOK, WaitersOK, SchedOK
<1>6. SleeperOK'
  BY DEF ClearHolder, TypeOK, SleeperOK, SchedOK
<1>7. ValueOK'
  BY DEF ClearHolder, TypeOK, ValueOK, Owns, Owning
<1>8. MutualExclusion'
  BY DEF ClearHolder, TypeOK, MutualExclusion, Owns, Owning
<1>9. HolderOK'
  BY TaskAssumption DEF ClearHolder, TypeOK, HolderOK, MutualExclusion, Owns, Owning
<1>10. RepeatOK'
  BY DEF ClearHolder, TypeOK, RepeatOK, MutualExclusion, Owns, Owning
<1>11. NoLostWakeup'
  BY DEF ClearHolder, TypeOK, NoLostWakeup
<1>12. QED
  BY <1>1, <1>2, <1>3, <1>4, <1>5, <1>6, <1>7, <1>8, <1>9, <1>10, <1>11

(* plock->holder_repeat_nr = 0 keeps the invariant (sync.c lock_release).  *)
LEMMA ClearRepeatInv ==
  ASSUME IInv, NEW t \in Task \ {Idle}, ClearRepeat(t)
  PROVE  IInv'
<1> USE DEF At, Goto, IInv
<1>1. TypeOK'
  BY DEF ClearRepeat, TypeOK, PC, Owning
<1>2. SchedOK(sched)'
  BY DEF ClearRepeat, SchedOK
<1>3. PcOK'
  BY DEF ClearRepeat, TypeOK, PcOK
<1>4. StatusOK'
  BY DEF ClearRepeat, TypeOK, StatusOK, SchedOK
<1>5. WaitersOK'
  BY DEF ClearRepeat, TypeOK, WaitersOK, SchedOK
<1>6. SleeperOK'
  BY DEF ClearRepeat, TypeOK, SleeperOK, SchedOK
<1>7. ValueOK'
  BY DEF ClearRepeat, TypeOK, ValueOK, Owns, Owning
<1>8. MutualExclusion'
  BY DEF ClearRepeat, TypeOK, MutualExclusion, Owns, Owning
<1>9. HolderOK'
  BY TaskAssumption DEF ClearRepeat, TypeOK, HolderOK, MutualExclusion, Owns, Owning
<1>10. RepeatOK'
  BY DEF ClearRepeat, TypeOK, RepeatOK, MutualExclusion, Owns, Owning
<1>11. NoLostWakeup'
  BY DEF ClearRepeat, TypeOK, NoLostWakeup
<1>12. QED
  BY <1>1, <1>2, <1>3, <1>4, <1>5, <1>6, <1>7, <1>8, <1>9, <1>10, <1>11

(* The holder test of lock_acquire, nested or not, keeps the invariant.    *)
LEMMA LockAcquireInv ==
  ASSUME IInv, NEW t \in Task \ {Idle}, NEW l \in Lock, LockAcquire(t, l)
  PROVE  IInv'
<1> USE DEF At, Goto, IInv
<1>1. CASE holder[l] # t
  <2>0. /\ pc[t] = "kernel" /\ pc' = [pc EXCEPT ![t] = "acquire"] /\ UNCHANGED repeat
        /\ lk' = [lk EXCEPT ![t] = l]
        /\ UNCHANGED <<sched, intr, old, value, waiters, holder, sleeper>>
    BY <1>1 DEF LockAcquire, HolderOK, TypeOK
  <2>1. TypeOK'
    BY <2>0 DEF TypeOK, PC, Owning
  <2>2. SchedOK(sched)'
    BY <2>0 DEF SchedOK
  <2>3. PcOK' /\ StatusOK'
    BY <2>0 DEF TypeOK, PcOK, StatusOK
  <2>4. WaitersOK' /\ SleeperOK'
    BY <2>0 DEF TypeOK, WaitersOK, SleeperOK
  <2>5. \A u \in Task, m \in Lock : Owns(u, m)' <=> Owns(u, m)
    BY <2>0 DEF TypeOK, Owns, Owning
  <2>5a. ValueOK' /\ MutualExclusion'
    BY <2>0, <2>5 DEF ValueOK, MutualExclusion
  <2>6. HolderOK' /\ RepeatOK'
    BY <2>0 DEF TypeOK, HolderOK, RepeatOK
  <2>7. NoLostWakeup'
    BY <2>0 DEF TypeOK, NoLostWakeup
  <2>8. QED
    BY <2>1, <2>2, <2>3, <2>4, <2>5a, <2>6, <2>7
<1>2. CASE holder[l] = t
  <2>0. /\ pc[t] = "cs" /\ lk[t] = l
        /\ UNCHANGED <<sched, pc, intr, old, lk, value, waiters, holder, sleeper>>
        /\ repeat' = [repeat EXCEPT ![l] = repeat[l] + 1]
    <3>1. pc[t] \in {"count", "cs", "clear"} /\ lk[t] = l
      BY <1>2 DEF HolderOK
    <3>2. pc[t] = "cs"
      BY <3>1 DEF LockAcquire
    <3>3. lk' = lk
      BY <3>1 DEF LockAcquire, TypeOK
    <3>4. QED
      BY <1>2, <3>1, <3>2, <3>3 DEF LockAcquire
  <2>1. TypeOK'
    BY <2>0 DEF TypeOK
  <2>2. RepeatOK'
    <3>1. value[l] = 0
      BY <2>0 DEF ValueOK, Owns, Owning
    <3>2. QED
      BY <2>0, <3>1 DEF TypeOK, RepeatOK, MutualExclusion, Owns, Owning
  <2>3. QED
    BY <2>0, <2>1, <2>2 DEF SchedOK, PcOK, StatusOK, WaitersOK, SleeperOK, ValueOK, MutualExclusion, Owns, HolderOK, NoLostWakeup
<1>3. QED
  BY <1>1, <1>2

(* Going to sleep on the waiters list keeps the invariant: the sleeper is  *)
(* in no other list, and since the value is 0 somebody owns the lock       *)
(* (sync.c sema_down).                                                     *)
LEMMA SemaDownBlockInv ==
  ASSUME IInv, NEW t \in Task \ {Idle}, SemaDownBlock(t)
  PROVE  IInv'
<1> USE DEF At, Goto, IInv
<1> DEFINE l == lk[t]
           blk == [sched EXCEPT !.status = [sched.status EXCEPT ![sched.cur] = "BLOCKED"]]
<1>1. /\ sched \in SchedType /\ sched.status \in [Task -> Status]
      /\ l \in Lock /\ sched.cur = t /\ pc[t] = "down" /\ value[l] = 0
      /\ sched.status[t] = "RUNNING"
  BY DEF SemaDownBlock, TypeOK, SchedType, SchedOK
<1>2. ~elem_find(waiters[l], t)
  BY <1>1 DEF WaitersOK
<1>3. /\ sched' = thread_block(sched, "BLOCKED")
      /\ waiters' = [waiters EXCEPT ![l] = list_append(waiters[l], t)]
      /\ UNCHANGED <<pc, intr, old, lk, value, holder, repeat, sleeper>>
  BY <1>2 DEF SemaDownBlock
<1>4. sched' \in SchedType /\ SchedOK(sched') /\ WakesOnlyIdle(blk, sched')
  BY <1>1, <1>3, BlockOK DEF Asleep
<1>5. blk.status = [sched.status EXCEPT ![t] = "BLOCKED"]
  BY <1>1 DEF SchedType
<1> HIDE DEF blk, l
<1>6. \A u \in Task \ {Idle} :
        IF u = t THEN sched'.status[u] = "BLOCKED"
        ELSE IF sched.status[u] \in {"RUNNING", "READY"}
          THEN sched'.status[u] \in {"RUNNING", "READY"}
          ELSE sched'.status[u] = sched.status[u]
  BY <1>1, <1>4, <1>5 DEF WakesOnlyIdle
<1>7. /\ list_append(waiters[l], t) \in Seq(Task)
      /\ NoDuplicates(list_append(waiters[l], t))
      /\ \A u : elem_find(list_append(waiters[l], t), u)
                  <=> elem_find(waiters[l], u) \/ u = t
  <2>1. waiters[l] \in Seq(Task) /\ NoDuplicates(waiters[l])
    BY <1>1 DEF TypeOK, WaitersOK
  <2>2. list_append(waiters[l], t) \in Seq(Task)
    BY <2>1 DEF list_append
  <2>3. QED
    BY <1>2, <2>1, <2>2, AppendFind, AppendNoDuplicates
<1>6a. \A u \in Task \ {Idle} :
         sched'.status[u] = "BLOCKED" <=> u = t \/ sched.status[u] = "BLOCKED"
  BY <1>6
<1>8. TypeOK'
  BY <1>1, <1>3, <1>4, <1>7 DEF TypeOK
<1>9. PcOK' /\ StatusOK'
  BY <1>1, <1>3, <1>4, <1>6 DEF TypeOK, PcOK, StatusOK, SchedOK
<1>10. WaitersOK'
  <2>1. ASSUME NEW m \in Lock
        PROVE  /\ NoDuplicates(waiters'[m])
               /\ \A u \in Task : elem_find(waiters'[m], u)
                    <=> sched'.status[u] = "BLOCKED" /\ pc[u] = "down" /\ lk[u] = m
    <3>1. waiters'[m] = IF m = l THEN list_append(waiters[l], t) ELSE waiters[m]
      BY <1>1, <1>3 DEF TypeOK
    <3>2. pc[Idle] # "down"
      BY TaskAssumption DEF PcOK
    <3>3. t \in Task /\ lk[t] = l
      BY DEF l
    <3>4. QED
      BY <1>1, <1>6a, <1>7, <3>1, <3>2, <3>3 DEF WaitersOK
  <2>2. QED
    BY <1>3, <2>1 DEF WaitersOK
<1>11. SleeperOK'
  <2>1. pc[Idle] # "cs"
    BY TaskAssumption DEF PcOK
  <2>2. QED
    BY <1>1, <1>3, <1>6a, <2>1 DEF SleeperOK
<1>12. ValueOK' /\ MutualExclusion' /\ HolderOK' /\ RepeatOK'
  BY <1>3 DEF ValueOK, MutualExclusion, Owns, HolderOK, RepeatOK
<1>13. NoLostWakeup'
  <2>1. ASSUME NEW m \in Lock, value[m] = 1, waiters'[m] # <<>>
        PROVE  \E u \in Task : /\ pc[u] = "down" /\ lk[u] = m
                               /\ sched'.status[u] \in {"READY", "RUNNING"}
    <3>1. m # l /\ waiters'[m] = waiters[m]
      BY <1>1, <1>3, <2>1 DEF TypeOK
    <3>2. PICK u \in Task : /\ pc[u] = "down" /\ lk[u] = m
                            /\ sched.status[u] \in {"READY", "RUNNING"}
      BY <2>1, <3>1 DEF NoLostWakeup
    <3>3. u # t /\ u # Idle
      BY <3>1, <3>2 DEF PcOK, l
    <3>4. QED
      BY <1>6, <3>2, <3>3
  <2>2. QED
    BY <1>3, <2>1 DEF NoLostWakeup
<1>14. QED
  BY <1>4, <1>8, <1>9, <1>10, <1>11, <1>12, <1>13

(* Taking the value, by a woken waiter or by a newcomer, keeps the         *)
(* invariant (sync.c sema_down).                                           *)
LEMMA SemaDownTakeInv ==
  ASSUME IInv, NEW t \in Task \ {Idle}, SemaDownTake(t)
  PROVE  IInv'
<1> USE DEF At, Goto, IInv
<1> DEFINE l == lk[t]
<1>1. /\ sched \in SchedType /\ l \in Lock /\ pc[t] = "down"
      /\ sched.status[t] = "RUNNING" /\ value[l] = 1
  BY DEF SemaDownTake, TypeOK, SchedOK, ValueOK
<1>2. /\ sched' = sched /\ value' = [value EXCEPT ![l] = 0]
      /\ pc' = [pc EXCEPT ![t] = "own"]
      /\ intr' = [intr EXCEPT ![t] = old[t]]
      /\ UNCHANGED <<old, lk, waiters, holder, repeat, sleeper>>
  <2>1. sched' = ASSERT(sched, value[l] - 1 = 0) /\ value[l] - 1 = 0
    BY <1>1 DEF SemaDownTake
  <2>2. sched' = sched
    BY <1>1, <2>1, AssertHolds
  <2>3. QED
    BY <1>1, <2>2 DEF SemaDownTake
<1>3. \A u \in Task : ~Owns(u, l)
  BY <1>1 DEF ValueOK
<1>4. repeat[l] = 0
  BY <1>1 DEF RepeatOK
<1>5. TypeOK'
  BY <1>1, <1>2 DEF TypeOK, PC, Owning
<1>6. SchedOK(sched)' /\ PcOK' /\ StatusOK'
  BY <1>1, <1>2 DEF TypeOK, SchedOK, PcOK, StatusOK
<1>7. WaitersOK' /\ SleeperOK'
  BY <1>1, <1>2 DEF TypeOK, WaitersOK, SleeperOK
<1>8. ValueOK' /\ MutualExclusion'
  BY <1>1, <1>2, <1>3 DEF TypeOK, ValueOK, MutualExclusion, Owns, Owning
<1>9. HolderOK'
  BY <1>1, <1>2 DEF TypeOK, HolderOK
<1>10. RepeatOK'
  BY <1>1, <1>2, <1>4 DEF TypeOK, RepeatOK
<1>11. NoLostWakeup'
  BY <1>1, <1>2 DEF TypeOK, NoLostWakeup
<1>12. QED
  BY <1>5, <1>6, <1>7, <1>8, <1>9, <1>10, <1>11

(* holder_repeat_nr = 1 after its ASSERT keeps the invariant (sync.c       *)
(* lock_acquire).                                                          *)
LEMMA SetRepeatInv ==
  ASSUME IInv, NEW t \in Task \ {Idle}, SetRepeat(t)
  PROVE  IInv'
<1> USE DEF At, Goto, IInv
<1> DEFINE l == lk[t]
<1>1. /\ sched \in SchedType /\ l \in Lock /\ pc[t] = "count"
      /\ sched.status[t] = "RUNNING" /\ repeat[l] = 0
  BY DEF SetRepeat, TypeOK, SchedOK, RepeatOK
<1>2. /\ sched' = sched /\ repeat' = [repeat EXCEPT ![l] = 1]
      /\ pc' = [pc EXCEPT ![t] = "cs"]
      /\ UNCHANGED <<intr, old, lk, value, waiters, holder, sleeper>>
  BY <1>1, AssertHolds DEF SetRepeat
<1>3. value[l] = 0
  BY <1>1 DEF ValueOK, Owns, Owning
<1>4. TypeOK'
  BY <1>1, <1>2 DEF TypeOK, PC, Owning
<1>5. SchedOK(sched)' /\ PcOK' /\ StatusOK'
  BY <1>1, <1>2 DEF TypeOK, SchedOK, PcOK, StatusOK
<1>6. WaitersOK' /\ SleeperOK'
  BY <1>1, <1>2 DEF TypeOK, WaitersOK, SleeperOK
<1>7. ValueOK' /\ MutualExclusion' /\ HolderOK'
  BY <1>1, <1>2 DEF TypeOK, ValueOK, MutualExclusion, HolderOK, Owns, Owning
<1>8. RepeatOK'
  BY <1>1, <1>2, <1>3 DEF TypeOK, RepeatOK, MutualExclusion, Owns, Owning
<1>9. NoLostWakeup'
  BY <1>1, <1>2 DEF TypeOK, NoLostWakeup
<1>10. QED
  BY <1>4, <1>5, <1>6, <1>7, <1>8, <1>9

(* The ASSERTs and the nested count of lock_release hold and keep the      *)
(* invariant.                                                              *)
LEMMA LockReleaseInv ==
  ASSUME IInv, NEW t \in Task \ {Idle}, LockRelease(t)
  PROVE  IInv'
<1> USE DEF At, Goto, IInv
<1> DEFINE l == lk[t]
<1>1. /\ sched \in SchedType /\ l \in Lock /\ pc[t] = "cs"
      /\ sched.status[t] = "RUNNING" /\ holder[l] = t
      /\ repeat[l] \in Nat /\ repeat[l] >= 1 /\ value[l] = 0
  BY DEF LockRelease, TypeOK, SchedOK, RepeatOK, HolderOK, ValueOK, Owns, Owning
<1>2. CASE repeat[l] > 1
  <2>1. /\ sched' = sched /\ repeat' = [repeat EXCEPT ![l] = repeat[l] - 1]
        /\ UNCHANGED <<pc, intr, old, lk, value, waiters, holder, sleeper>>
    <3>1. sched' = ASSERT(sched, holder[l] = t)
      BY <1>1, <1>2 DEF LockRelease
    <3>2. sched' = sched
      BY <1>1, <3>1, AssertHolds
    <3>3. QED
      BY <1>1, <1>2, <3>2 DEF LockRelease
  <2>2. TypeOK'
    BY <1>1, <1>2, <2>1 DEF TypeOK
  <2>3. RepeatOK'
    BY <1>1, <1>2, <2>1 DEF TypeOK, RepeatOK, MutualExclusion, Owns, Owning
  <2>4. QED
    BY <2>1, <2>2, <2>3 DEF SchedOK, PcOK, StatusOK, WaitersOK, SleeperOK, ValueOK, MutualExclusion, Owns, HolderOK, NoLostWakeup
<1>3. CASE repeat[l] <= 1
  <2>0. repeat[l] = 1
    BY <1>1, <1>3
  <2>1. /\ sched' = sched /\ pc' = [pc EXCEPT ![t] = "clear"]
        /\ UNCHANGED <<intr, old, lk, value, waiters, holder, repeat, sleeper>>
    <3>1. sched' = ASSERT(sched, holder[l] = t /\ repeat[l] = 1)
      BY <1>1, <2>0 DEF LockRelease
    <3>2. sched' = sched
      BY <1>1, <2>0, <3>1, AssertHolds
    <3>3. QED
      BY <1>1, <2>0, <3>2 DEF LockRelease
  <2>2. TypeOK'
    BY <1>1, <2>1 DEF TypeOK, PC, Owning
  <2>3. SchedOK(sched)' /\ PcOK' /\ StatusOK'
    BY <1>1, <2>1 DEF TypeOK, SchedOK, PcOK, StatusOK
  <2>4. WaitersOK' /\ SleeperOK'
    BY <1>1, <2>1 DEF TypeOK, WaitersOK, SleeperOK
  <2>5. ValueOK' /\ MutualExclusion' /\ HolderOK'
    BY <1>1, <2>1 DEF TypeOK, ValueOK, MutualExclusion, HolderOK, Owns, Owning
  <2>6. RepeatOK' /\ NoLostWakeup'
    BY <1>1, <2>0, <2>1 DEF TypeOK, RepeatOK, NoLostWakeup
  <2>7. QED
    BY <2>2, <2>3, <2>4, <2>5, <2>6
<1>4. QED
  BY <1>1, <1>2, <1>3

(* sema_up keeps the invariant; the waiter it makes READY is the witness   *)
(* of NoLostWakeup (sync.c sema_up).                                       *)
LEMMA SemaUpInv ==
  ASSUME IInv, NEW t \in Task \ {Idle}, SemaUp(t)
  PROVE  IInv'
<1> USE DEF At, Goto, IInv
<1> DEFINE l == lk[t]
           h == Head(waiters[l])
<1>1. /\ sched \in SchedType /\ sched.status \in [Task -> Status]
      /\ l \in Lock /\ pc[t] = "up" /\ sched.status[t] = "RUNNING"
      /\ value[l] = 0 /\ repeat[l] = 0 /\ waiters[l] \in Seq(Task)
      /\ NoDuplicates(waiters[l])
  BY DEF SemaUp, TypeOK, SchedType, SchedOK, ValueOK, Owns, Owning, RepeatOK, WaitersOK
<1>2. ASSERT(sched, value[l] = 0) = sched
  BY <1>1, AssertHolds
<1>3. /\ value' = [value EXCEPT ![l] = 1]
      /\ pc' = [pc EXCEPT ![t] = "kernel"]
      /\ UNCHANGED <<intr, old, lk, holder, repeat, sleeper>>
  BY <1>1 DEF SemaUp
<1>4. \A u \in Task, m \in Lock : Owns(u, m)' <=> Owns(u, m) /\ u # t
  BY <1>1, <1>3 DEF TypeOK, Owns, Owning
<1>5. \A u \in Task, m \in Lock : m = l => ~Owns(u, m)'
  <2>1. Owns(t, l)
    BY <1>1 DEF Owns, Owning
  <2>2. QED
    BY <1>4, <2>1 DEF MutualExclusion
<1>6. ValueOK' /\ MutualExclusion'
  <2>1. \A m \in Lock \ {l} : value'[m] = value[m] /\ ~Owns(t, m)
    BY <1>1, <1>3 DEF TypeOK, Owns
  <2>2. value'[l] = 1
    BY <1>1, <1>3 DEF TypeOK
  <2>3. MutualExclusion'
    BY <1>4 DEF MutualExclusion
  <2>4. ASSUME NEW m \in Lock
        PROVE  value'[m] \in {0, 1} /\ (value'[m] = 0 <=> \E u \in Task : Owns(u, m)')
    BY <1>4, <1>5, <2>1, <2>2 DEF ValueOK
  <2>5. QED
    BY <2>3, <2>4 DEF ValueOK
<1>7. HolderOK' /\ RepeatOK' /\ PcOK'
  BY <1>1, <1>3 DEF TypeOK, HolderOK, RepeatOK, PcOK
<1>8. CASE waiters[l] = <<>>
  <2>1. sched' = sched /\ waiters' = waiters
    BY <1>2, <1>8 DEF SemaUp
  <2>2. TypeOK'
    BY <1>1, <1>3, <2>1 DEF TypeOK, PC, Owning
  <2>3. SchedOK(sched)' /\ StatusOK'
    BY <1>1, <1>3, <2>1 DEF TypeOK, SchedOK, StatusOK
  <2>4. WaitersOK' /\ SleeperOK'
    BY <1>1, <1>3, <2>1 DEF TypeOK, WaitersOK, SleeperOK
  <2>5. NoLostWakeup'
    BY <1>1, <1>3, <1>8, <2>1 DEF TypeOK, NoLostWakeup
  <2>6. QED
    BY <1>6, <1>7, <2>2, <2>3, <2>4, <2>5
<1>9. CASE waiters[l] # <<>>
  <2>1. sched' = thread_unblock(sched, h) /\ waiters' = [waiters EXCEPT ![l] = Tail(waiters[l])]
    BY <1>2, <1>9 DEF SemaUp
  <2>2. /\ h \in Task /\ Tail(waiters[l]) \in Seq(Task)
        /\ elem_find(waiters[l], h) /\ NoDuplicates(Tail(waiters[l]))
        /\ \A u : elem_find(Tail(waiters[l]), u) <=> elem_find(waiters[l], u) /\ u # h
    BY <1>1, <1>9, PopFind
  <2> HIDE DEF h, l
  <2>3. /\ sched.status[h] = "BLOCKED" /\ pc[h] = "down" /\ lk[h] = l /\ h # t
    BY <1>1, <2>2 DEF WaitersOK
  <2>4. /\ sched' \in SchedType /\ SchedOK(sched')
        /\ sched'.status = [sched.status EXCEPT ![h] = "READY"]
    BY <1>1, <2>1, <2>2, <2>3, UnblockOK DEF Asleep
  <2>5. TypeOK'
    BY <1>1, <1>3, <2>1, <2>2, <2>4 DEF TypeOK, PC, Owning
  <2>6. StatusOK'
    BY <1>1, <1>3, <2>2, <2>4 DEF TypeOK, StatusOK
  <2>7. WaitersOK'
    <3>1. ASSUME NEW m \in Lock
          PROVE  /\ NoDuplicates(waiters'[m])
                 /\ \A u \in Task : elem_find(waiters'[m], u)
                      <=> sched'.status[u] = "BLOCKED" /\ pc'[u] = "down" /\ lk[u] = m
      <4>1. waiters'[m] = IF m = l THEN Tail(waiters[l]) ELSE waiters[m]
        BY <1>1, <2>1 DEF TypeOK
      <4>2. \A u \in Task : /\ pc'[u] = "down" <=> pc[u] = "down"
                            /\ sched'.status[u] = "BLOCKED" <=> sched.status[u] = "BLOCKED" /\ u # h
        BY <1>1, <1>3, <2>2, <2>4 DEF TypeOK
      <4>3. QED
        BY <1>1, <2>2, <2>3, <4>1, <4>2 DEF WaitersOK
    <3>2. QED
      BY <1>3, <3>1 DEF WaitersOK
  <2>8. SleeperOK'
    BY <1>1, <1>3, <2>2, <2>3, <2>4 DEF TypeOK, SleeperOK
  <2>9. NoLostWakeup'
    <3>1. ASSUME NEW m \in Lock, value'[m] = 1, waiters'[m] # <<>>
          PROVE  \E u \in Task : /\ pc'[u] = "down" /\ lk'[u] = m
                                 /\ sched'.status[u] \in {"READY", "RUNNING"}
      <4>1. CASE m = l
        <5>1. /\ pc'[h] = "down" /\ lk'[h] = m /\ sched'.status[h] = "READY"
          BY <1>1, <1>3, <2>2, <2>3, <2>4, <4>1 DEF TypeOK
        <5>2. QED
          BY <2>2, <5>1
      <4>2. CASE m # l
        <5>1. value[m] = 1 /\ waiters[m] # <<>>
          BY <1>1, <1>3, <2>1, <3>1, <4>2 DEF TypeOK
        <5>2. PICK u \in Task : /\ pc[u] = "down" /\ lk[u] = m
                                /\ sched.status[u] \in {"READY", "RUNNING"}
          BY <5>1 DEF NoLostWakeup
        <5>3. pc'[u] = "down" /\ lk'[u] = m /\ sched'.status[u] \in {"READY", "RUNNING"}
          BY <1>1, <1>3, <2>2, <2>4, <5>2 DEF TypeOK
        <5>4. QED
          BY <5>3
      <4>3. QED
        BY <4>1, <4>2
    <3>2. QED
      BY <3>1 DEF NoLostWakeup
  <2>10. QED
    BY <1>6, <1>7, <2>4, <2>5, <2>6, <2>7, <2>8, <2>9
<1>10. QED
  BY <1>8, <1>9

(* A step that only reschedules running and ready tasks keeps the          *)
(* invariant.                                                              *)
LEMMA RunInv ==
  ASSUME IInv, sched' \in SchedType, SchedOK(sched'), WakesOnlyIdle(sched, sched'),
         \/ pc' = pc
         \/ \E p \in {"idle", "sti", "hlt"} : pc' = [pc EXCEPT ![Idle] = p],
         UNCHANGED <<intr, old, lk, value, waiters, holder, repeat, sleeper>>
  PROVE  IInv'
<1> USE DEF IInv
<1>1. /\ \A u \in Task \ {Idle} : pc'[u] = pc[u]
      /\ pc' \in [Task -> PC]
      /\ pc[Idle] \in {"idle", "sti", "hlt"} /\ pc'[Idle] \in {"idle", "sti", "hlt"}
  BY TaskAssumption DEF TypeOK, PcOK, PC
<1>2. \A u \in Task \ {Idle} :
        /\ sched'.status[u] = "BLOCKED" <=> sched.status[u] = "BLOCKED"
        /\ sched'.status[u] \in {"RUNNING", "READY", "BLOCKED"}
        /\ sched.status[u] \in {"READY", "RUNNING"} => sched'.status[u] \in {"READY", "RUNNING"}
  BY DEF WakesOnlyIdle, StatusOK
<1>3. TypeOK'
  BY <1>1 DEF TypeOK
<1>4. PcOK' /\ StatusOK'
  BY <1>1, <1>2, TaskAssumption DEF PcOK, StatusOK, SchedOK
<1>5. WaitersOK' /\ SleeperOK'
  BY <1>1, <1>2 DEF WaitersOK, SleeperOK
<1>6. \A u \in Task, m \in Lock : Owns(u, m)' <=> Owns(u, m)
  BY <1>1 DEF Owns, Owning
<1>7. ValueOK' /\ MutualExclusion'
  BY <1>6 DEF ValueOK, MutualExclusion
<1>8. HolderOK' /\ RepeatOK'
  BY <1>1 DEF HolderOK, RepeatOK
<1>9. NoLostWakeup'
  BY <1>1, <1>2 DEF NoLostWakeup
<1>10. QED
  BY <1>3, <1>4, <1>5, <1>7, <1>8, <1>9

(* A lock holder that yields keeps the invariant (timer.c msleep).         *)
LEMMA YieldInv ==
  ASSUME IInv, NEW t \in Task \ {Idle}, Yield(t)
  PROVE  IInv'
<1>1. sched \in SchedType /\ SchedOK(sched)
  BY DEF IInv, TypeOK
<1>2. sched' \in SchedType /\ SchedOK(sched') /\ WakesOnlyIdle(sched, sched')
  BY <1>1, YieldOK DEF Yield
<1>3. QED
  BY <1>2, RunInv DEF Yield

(* The timer interrupt keeps the invariant wherever it strikes (timer.c    *)
(* intr_timer_handler).                                                    *)
LEMMA TickInv ==
  ASSUME IInv, Tick
  PROVE  IInv'
<1>1. sched \in SchedType /\ SchedOK(sched)
  BY DEF IInv, TypeOK
<1>2. sched' \in SchedType /\ SchedOK(sched') /\ WakesOnlyIdle(sched, sched')
  BY <1>1, TickOK DEF Tick
<1>3. QED
  BY <1>2, RunInv DEF Tick, ResumeHlt

(* idle's loop keeps the invariant (thread.c idle).                        *)
LEMMA IdleInv ==
  ASSUME IInv, IdleBlock \/ IdleHalt
  PROVE  IInv'
<1>1. sched \in SchedType /\ SchedOK(sched) /\ sched.status \in [Task -> Status]
  BY DEF IInv, TypeOK, SchedType
<1>2. CASE IdleBlock
  <2> DEFINE m == [sched EXCEPT !.status = [sched.status EXCEPT ![sched.cur] = "BLOCKED"]]
  <2>1. sched.cur = Idle
    BY <1>2 DEF IdleBlock, At
  <2>2. sched' \in SchedType /\ SchedOK(sched') /\ WakesOnlyIdle(m, sched')
    BY <1>1, <1>2, BlockOK DEF IdleBlock, Asleep
  <2>3. m.status = [sched.status EXCEPT ![Idle] = "BLOCKED"]
    BY <1>1, <2>1 DEF SchedType
  <2> HIDE DEF m
  <2>4. WakesOnlyIdle(sched, sched')
    BY <1>1, <2>2, <2>3 DEF WakesOnlyIdle
  <2>5. QED
    BY <1>2, <2>2, <2>4, RunInv DEF IdleBlock, Goto
<1>3. CASE IdleHalt
  <2>1. WakesOnlyIdle(sched, sched') /\ sched' = sched
    BY <1>3 DEF IdleHalt, WakesOnlyIdle
  <2>2. QED
    BY <1>1, <1>3, <2>1, RunInv DEF IdleHalt, Goto
<1>4. QED
  BY <1>2, <1>3

(* A lock holder that sleeps until an interrupt keeps the invariant        *)
(* (ioqueue.c ioq_wait).                                                   *)
LEMMA IoqWaitInv ==
  ASSUME IInv, NEW t \in Task \ {Idle}, IoqWait(t)
  PROVE  IInv'
<1> USE DEF At, Goto, IInv
<1> DEFINE l == lk[t]
           m == [sched EXCEPT !.status = [sched.status EXCEPT ![sched.cur] = "BLOCKED"]]
<1>1. /\ sched \in SchedType /\ sched.status \in [Task -> Status]
      /\ l \in Lock /\ sched.cur = t /\ pc[t] = "cs" /\ sched.status[t] = "RUNNING"
  BY DEF IoqWait, TypeOK, SchedType, SchedOK
<1>2. sleeper[l] = NoTask
  <2>1. ASSUME NEW u \in Task, sleeper[l] = u
        PROVE  FALSE
    <3>1. pc[u] = "cs" /\ lk[u] = l /\ sched.status[u] = "BLOCKED"
      BY <1>1, <2>1 DEF SleeperOK
    <3>2. u = t
      BY <1>1, <3>1 DEF MutualExclusion, Owns, Owning
    <3>3. QED
      BY <1>1, <3>1, <3>2
  <2>2. QED
    BY <1>1, <2>1 DEF TypeOK
<1>3. /\ sched' = thread_block(sched, "BLOCKED")
      /\ sleeper' = [sleeper EXCEPT ![l] = t]
      /\ UNCHANGED <<pc, intr, old, lk, value, waiters, holder, repeat>>
  <2>1. ASSERT(sched, sleeper[l] = NoTask) = sched
    BY <1>1, <1>2, AssertHolds
  <2>2. QED
    BY <2>1 DEF IoqWait
<1>4. sched' \in SchedType /\ SchedOK(sched') /\ WakesOnlyIdle(m, sched')
  BY <1>1, <1>3, BlockOK DEF Asleep
<1>5. m.status = [sched.status EXCEPT ![t] = "BLOCKED"]
  BY <1>1 DEF SchedType
<1> HIDE DEF m, l
<1>6. \A u \in Task \ {Idle} :
        /\ sched'.status[u] = "BLOCKED" <=> u = t \/ sched.status[u] = "BLOCKED"
        /\ u # t /\ sched.status[u] \in {"READY", "RUNNING"}
             => sched'.status[u] \in {"READY", "RUNNING"}
        /\ sched'.status[u] \in {"RUNNING", "READY", "BLOCKED"}
  BY <1>1, <1>4, <1>5 DEF WakesOnlyIdle, StatusOK
<1>7. TypeOK'
  BY <1>1, <1>3, <1>4 DEF TypeOK
<1>8. PcOK' /\ StatusOK'
  BY <1>1, <1>3, <1>4, <1>6 DEF PcOK, StatusOK, SchedOK
<1>9. pc[Idle] \notin {"down", "cs"} /\ lk[t] = l
  BY TaskAssumption DEF PcOK, l
<1>10. WaitersOK'
  BY <1>1, <1>3, <1>6, <1>9 DEF WaitersOK
<1>11. SleeperOK'
  <2>1. ASSUME NEW k \in Lock, NEW u \in Task
        PROVE  sleeper'[k] = u <=> sched'.status[u] = "BLOCKED" /\ pc[u] = "cs" /\ lk[u] = k
    <3>1. sleeper'[k] = IF k = l THEN t ELSE sleeper[k]
      BY <1>1, <1>3 DEF TypeOK
    <3>2. u # t => ~(pc[u] = "cs" /\ lk[u] = l)
      BY <1>1, <1>9 DEF MutualExclusion, Owns, Owning
    <3>3. QED
      BY <1>1, <1>6, <1>9, <3>1, <3>2 DEF SleeperOK
  <2>2. QED
    BY <1>3, <2>1 DEF SleeperOK
<1>12. ValueOK' /\ MutualExclusion' /\ HolderOK' /\ RepeatOK'
  BY <1>3 DEF ValueOK, MutualExclusion, Owns, HolderOK, RepeatOK
<1>13. NoLostWakeup'
  BY <1>1, <1>3, <1>6, <1>9 DEF NoLostWakeup
<1>14. QED
  BY <1>4, <1>7, <1>8, <1>10, <1>11, <1>12, <1>13

(* The interrupt handler that wakes it keeps the invariant (ioqueue.c      *)
(* wakeup).                                                                *)
LEMMA DeviceIntrInv ==
  ASSUME IInv, NEW l \in Lock, DeviceIntr(l)
  PROVE  IInv'
<1> USE DEF IInv
<1> DEFINE w == sleeper[l]
<1>1. /\ w \in Task /\ sched \in SchedType /\ sched.status \in [Task -> Status]
      /\ sched.status[w] = "BLOCKED" /\ pc[w] = "cs" /\ lk[w] = l
  BY DEF DeviceIntr, TypeOK, SchedType, SleeperOK
<1>2. /\ sched' = thread_unblock(sched, w)
      /\ sleeper' = [sleeper EXCEPT ![l] = NoTask]
      /\ UNCHANGED <<intr, old, lk, value, waiters, holder, repeat>>
      /\ pc' = pc \/ pc' = [pc EXCEPT ![Idle] = "idle"]
  BY DEF DeviceIntr, ResumeHlt
<1> HIDE DEF w
<1>3. /\ sched' \in SchedType /\ SchedOK(sched')
      /\ sched'.status = [sched.status EXCEPT ![w] = "READY"]
  BY <1>1, <1>2, UnblockOK DEF Asleep
<1>4. /\ \A u \in Task \ {Idle} : pc'[u] = pc[u]
      /\ pc' \in [Task -> PC] /\ w # Idle
      /\ pc[Idle] \in {"idle", "sti", "hlt"} /\ pc'[Idle] \in {"idle", "sti", "hlt"}
  BY <1>1, <1>2, TaskAssumption DEF TypeOK, PcOK, PC
<1>5. \A u \in Task :
        /\ sched'.status[u] = "BLOCKED" <=> u # w /\ sched.status[u] = "BLOCKED"
        /\ sched.status[u] \in {"READY", "RUNNING"} => sched'.status[u] \in {"READY", "RUNNING"}
        /\ sched'.status[u] \in {"RUNNING", "READY", "BLOCKED"}
  BY <1>1, <1>3 DEF StatusOK
<1>6. TypeOK'
  BY <1>1, <1>2, <1>3, <1>4 DEF TypeOK
<1>7. PcOK' /\ StatusOK'
  BY <1>1, <1>4, <1>5, TaskAssumption DEF PcOK, StatusOK
<1>8. WaitersOK'
  BY <1>1, <1>2, <1>4, <1>5 DEF WaitersOK
<1>9. SleeperOK'
  <2>1. ASSUME NEW k \in Lock, NEW u \in Task
        PROVE  sleeper'[k] = u <=> sched'.status[u] = "BLOCKED" /\ pc'[u] = "cs" /\ lk[u] = k
    <3>1. sleeper'[k] = IF k = l THEN NoTask ELSE sleeper[k]
      BY <1>1, <1>2 DEF TypeOK
    <3>2. u # w => ~(pc[u] = "cs" /\ lk[u] = l)
      BY <1>1 DEF MutualExclusion, Owns, Owning
    <3>3. QED
      BY <1>1, <1>4, <1>5, <3>1, <3>2, SyncAssumption, TaskAssumption DEF SleeperOK
  <2>2. QED
    BY <1>2, <2>1 DEF SleeperOK
<1>10. \A u \in Task, k \in Lock : Owns(u, k)' <=> Owns(u, k)
  BY <1>2, <1>4 DEF Owns, Owning
<1>11. ValueOK' /\ MutualExclusion'
  BY <1>2, <1>10 DEF ValueOK, MutualExclusion
<1>12. HolderOK' /\ RepeatOK'
  BY <1>2, <1>4 DEF HolderOK, RepeatOK
<1>13. NoLostWakeup'
  BY <1>2, <1>4, <1>5 DEF NoLostWakeup
<1>14. QED
  BY <1>3, <1>6, <1>7, <1>8, <1>9, <1>11, <1>12, <1>13

(* The state after thread_init and lock_init satisfies the invariant.      *)
LEMMA InitInv == Init => IInv
<1> SUFFICES ASSUME Init PROVE IInv
  OBVIOUS
<1>1. Lock # {} => (CHOOSE l \in Lock : TRUE) \in Lock
  OBVIOUS
<1>2. TypeOK
  BY <1>1, SyncAssumption, TaskAssumption DEF Init, TypeOK, SchedType, Status, PC, Owning
<1>3. SchedOK(sched)
  BY SyncAssumption, TaskAssumption DEF Init, SchedOK
<1>4. PcOK /\ StatusOK
  BY SyncAssumption, TaskAssumption DEF Init, PcOK, StatusOK
<1>5. WaitersOK
  BY DEF Init, WaitersOK, elem_find, NoDuplicates
<1>6. SleeperOK /\ HolderOK
  BY SyncAssumption, TaskAssumption DEF Init, SleeperOK, HolderOK
<1>7. ValueOK /\ MutualExclusion
  BY DEF Init, ValueOK, MutualExclusion, Owns, Owning
<1>8. RepeatOK /\ NoLostWakeup
  BY DEF Init, RepeatOK, NoLostWakeup
<1>9. QED
  BY <1>2, <1>3, <1>4, <1>5, <1>6, <1>7, <1>8 DEF IInv

(* Every step keeps the invariant.                                         *)
LEMMA NextInv == IInv /\ [Next]_vars => IInv'
<1> SUFFICES ASSUME IInv, [Next]_vars PROVE IInv'
  OBVIOUS
<1>1. ASSUME NEW t \in Task \ {Idle}, Step(t)
      PROVE  IInv'
  BY <1>1, SyscallEnterInv, SyscallExitInv, LockAcquireInv, SemaDownEnterInv,
     SemaDownBlockInv, SemaDownTakeInv, SetHolderInv, SetRepeatInv,
     LockReleaseInv, ClearHolderInv, ClearRepeatInv, SemaUpInv, YieldInv,
     IoqWaitInv DEF Step
<1>2. CASE IdleBlock \/ IdleHalt
  BY <1>2, IdleInv
<1>3. CASE Tick
  BY <1>3, TickInv
<1>4. ASSUME NEW l \in Lock, DeviceIntr(l)
      PROVE  IInv'
  BY <1>4, DeviceIntrInv
<1>5. CASE UNCHANGED vars
  BY <1>5 DEF vars, IInv, TypeOK, SchedOK, PcOK, StatusOK, WaitersOK, SleeperOK,
     ValueOK, MutualExclusion, Owns, HolderOK, RepeatOK, NoLostWakeup
<1>6. QED
  BY <1>1, <1>2, <1>3, <1>4, <1>5 DEF Next

(* The inductive invariant holds in every reachable state, for any number  *)
(* of tasks and locks and any priorities.                                  *)
THEOREM InductiveInvariant == Spec => []IInv
BY InitInv, NextInv, PTL DEF Spec

(* Every field keeps its type.                                             *)
THEOREM TypeCorrect == Spec => []TypeOK
<1>1. IInv => TypeOK
  BY DEF IInv
<1>2. QED
  BY <1>1, InductiveInvariant, PTL

(* Locks exclude: two tasks never hold one lock (sync.c lock_acquire,      *)
(* lock_release).                                                          *)
THEOREM LocksExclude == Spec => []MutualExclusion
<1>1. IInv => MutualExclusion
  BY DEF IInv
<1>2. QED
  BY <1>1, InductiveInvariant, PTL

(* No ASSERT or PANIC of sync.c and the scheduler functions it calls       *)
(* fires.                                                                  *)
THEOREM NoAssertFails == Spec => []NoPanic
<1>1. IInv => NoPanic
  BY DEF IInv, SchedOK, NoPanic
<1>2. QED
  BY <1>1, InductiveInvariant, PTL

(* A free lock with sleeping waiters has one that is awake and about to    *)
(* test it (sync.c sema_up).                                               *)
THEOREM NoWaiterForgotten == Spec => []NoLostWakeup
<1>1. IInv => NoLostWakeup
  BY DEF IInv
<1>2. QED
  BY <1>1, InductiveInvariant, PTL

(* The general_tag of a PCB is in at most one list, once (thread.h         *)
(* task_struct).                                                           *)
THEOREM TagsDisjoint == Spec => []TagInOneList
<1>1. IInv => TagInOneList
  BY DEF IInv, SchedOK, WaitersOK, TagInOneList
<1>2. QED
  BY <1>1, InductiveInvariant, PTL

(* Every sleeping task is where its waker will look for it.                *)
THEOREM SleepRemembered == Spec => []SleepersAreRemembered
<1>1. ASSUME IInv
      PROVE  SleepersAreRemembered
  <2>1. ASSUME NEW t \in Task, sched.status[t] \in Asleep, t # Idle
        PROVE  \/ pc[t] = "down" /\ elem_find(waiters[lk[t]], t)
               \/ pc[t] = "cs" /\ sleeper[lk[t]] = t
    <3>1. sched.status[t] = "BLOCKED" /\ pc[t] \in {"down", "cs"} /\ lk[t] \in Lock
      BY <1>1, <2>1 DEF IInv, StatusOK, Asleep, TypeOK
    <3>2. QED
      BY <1>1, <3>1 DEF IInv, WaitersOK, SleeperOK
  <2>2. QED
    BY <2>1 DEF SleepersAreRemembered
<1>2. QED
  BY <1>1, InductiveInvariant, PTL

(* holder and holder_repeat_nr describe the task inside the lock.          *)
THEOREM HolderInside == Spec => []HolderIsInside
<1>1. ASSUME IInv
      PROVE  HolderIsInside
  <2>1. \A t \in Task : pc[t] = "cs" => holder[lk[t]] = t /\ repeat[lk[t]] >= 1
    BY <1>1 DEF IInv, TypeOK, HolderOK, RepeatOK
  <2>2. ASSUME NEW l \in Lock, value[l] = 1
        PROVE  holder[l] = NoTask /\ repeat[l] = 0
    <3>1. \A t \in Task : ~Owns(t, l)
      BY <1>1, <2>2 DEF IInv, ValueOK
    <3>2. \A t \in Task : holder[l] # t
      BY <1>1, <3>1 DEF IInv, HolderOK, Owns, Owning
    <3>3. QED
      BY <1>1, <2>2, <3>2 DEF IInv, TypeOK, RepeatOK
  <2>3. QED
    BY <2>1, <2>2 DEF HolderIsInside
<1>2. QED
  BY <1>1, InductiveInvariant, PTL

-----------------------------------------------------------------------------
(* Sync implements Mutex.                                                  *)

OwnerFacts ==
  \A l \in Lock :
    /\ \A t \in Task : Owner[l] = t <=> Owns(t, l)
    /\ Owner[l] \in Task \cup {NoTask}

(* Under mutual exclusion Owner is the only task that owns the lock.       *)
LEMMA OwnerUnique == MutualExclusion => OwnerFacts
<1> SUFFICES ASSUME MutualExclusion, NEW l \in Lock
             PROVE  /\ \A t \in Task : Owner[l] = t <=> Owns(t, l)
                    /\ Owner[l] \in Task \cup {NoTask}
  BY DEF OwnerFacts
<1>1. CASE \E t \in Task : Owns(t, l)
  <2>1. Owner[l] = CHOOSE t \in Task : Owns(t, l)
    BY <1>1 DEF Owner
  <2>2. Owner[l] \in Task /\ Owns(Owner[l], l)
    BY <1>1, <2>1
  <2>3. QED
    BY <2>2 DEF MutualExclusion
<1>2. CASE ~\E t \in Task : Owns(t, l)
  <2>1. Owner[l] = NoTask
    BY <1>2 DEF Owner
  <2>2. QED
    BY <1>2, <2>1, TaskAssumption
<1>3. QED
  BY <1>1, <1>2

(* A task's step changes only its own ownership, of the lock it names.     *)
LEMMA OwnerStep ==
  ASSUME IInv, IInv', NEW t \in Task \ {Idle}, Step(t)
  PROVE  \/ \A u \in Task, m \in Lock : Owns(u, m)' <=> Owns(u, m)
         \/ \E l \in Lock :
              /\ \A u \in Task : ~Owns(u, l)
              /\ \A u \in Task, m \in Lock :
                   Owns(u, m)' <=> Owns(u, m) \/ (u = t /\ m = l)
         \/ \E l \in Lock :
              /\ Owns(t, l)
              /\ \A u \in Task, m \in Lock :
                   Owns(u, m)' <=> Owns(u, m) /\ ~(u = t /\ m = l)
<1> USE DEF At, Goto
<1>0. TypeOK /\ HolderOK /\ ValueOK
  BY DEF IInv
<1>1. CASE SyscallEnter(t) \/ SyscallExit(t) \/ SemaDownEnter(t)
  BY <1>0, <1>1 DEF TypeOK, Owns, Owning, SyscallEnter, SyscallExit, SemaDownEnter
<1>2. CASE SetHolder(t) \/ SetRepeat(t) \/ LockRelease(t) \/ ClearHolder(t) \/ ClearRepeat(t)
  <2>1. lk' = lk
    BY <1>2 DEF SetHolder, SetRepeat, LockRelease, ClearHolder, ClearRepeat
  <2>2. /\ pc[t] \in Owning
        /\ pc' = pc \/ \E p \in Owning : pc' = [pc EXCEPT ![t] = p]
    BY <1>2 DEF Owning, SetHolder, SetRepeat, LockRelease, ClearHolder, ClearRepeat
  <2>3. \A u \in Task : pc'[u] \in Owning <=> pc[u] \in Owning
    BY <1>0, <2>2 DEF TypeOK
  <2>4. QED
    BY <2>1, <2>3 DEF Owns
<1>3. CASE SemaDownBlock(t) \/ Yield(t) \/ IoqWait(t)
  BY <1>3 DEF Owns, SemaDownBlock, Yield, IoqWait
<1>4. ASSUME NEW l \in Lock, LockAcquire(t, l)
      PROVE  \A u \in Task, m \in Lock : Owns(u, m)' <=> Owns(u, m)
  BY <1>0, <1>4 DEF TypeOK, HolderOK, Owns, Owning, LockAcquire
<1>5. CASE SemaDownTake(t)
  <2>1. /\ pc[t] = "down" /\ lk[t] \in Lock /\ value[lk[t]] # 0
        /\ pc' = [pc EXCEPT ![t] = "own"] /\ lk' = lk
    BY <1>0, <1>5 DEF TypeOK, SemaDownTake
  <2>2. \A u \in Task : ~Owns(u, lk[t])
    BY <1>0, <2>1 DEF ValueOK
  <2>3. \A u \in Task, m \in Lock :
          Owns(u, m)' <=> Owns(u, m) \/ (u = t /\ m = lk[t])
    BY <1>0, <2>1 DEF TypeOK, Owns, Owning
  <2>4. QED
    BY <2>1, <2>2, <2>3
<1>6. CASE SemaUp(t)
  <2>1. /\ pc[t] = "up" /\ lk[t] \in Lock
        /\ pc' = [pc EXCEPT ![t] = "kernel"] /\ lk' = lk
    BY <1>0, <1>6 DEF TypeOK, SemaUp
  <2>2. Owns(t, lk[t])
    BY <2>1 DEF Owns, Owning
  <2>3. \A u \in Task, m \in Lock :
          Owns(u, m)' <=> Owns(u, m) /\ ~(u = t /\ m = lk[t])
    BY <1>0, <2>1 DEF TypeOK, Owns, Owning
  <2>4. QED
    BY <2>1, <2>2, <2>3
<1>7. QED
  BY <1>1, <1>2, <1>3, <1>4, <1>5, <1>6 DEF Step

(* idle and interrupts change no ownership.                                *)
LEMMA OwnerOther ==
  ASSUME IInv, \/ IdleBlock \/ IdleHalt \/ Tick
               \/ \E l \in Lock : DeviceIntr(l)
               \/ UNCHANGED vars
  PROVE  \A u \in Task, m \in Lock : Owns(u, m)' <=> Owns(u, m)
<1>1. lk' = lk
  BY DEF IdleBlock, IdleHalt, Tick, DeviceIntr, vars
<1>2. pc' = pc \/ \E p \in {"idle", "sti", "hlt"} : pc' = [pc EXCEPT ![Idle] = p]
  BY DEF IdleBlock, IdleHalt, Tick, DeviceIntr, vars, Goto, ResumeHlt
<1>3. pc \in [Task -> PC] /\ pc[Idle] \in {"idle", "sti", "hlt"}
  BY TaskAssumption DEF IInv, TypeOK, PcOK
<1>4. QED
  BY <1>1, <1>2, <1>3, TaskAssumption DEF Owns, Owning

(* Every step is a step of Mutex or leaves the owners alone.               *)
LEMMA OwnerRefines == IInv /\ IInv' /\ [Next]_vars => [M!Next]_Owner
<1> SUFFICES ASSUME IInv, IInv', [Next]_vars
             PROVE  [M!Next]_Owner
  OBVIOUS
<1>1. OwnerFacts /\ OwnerFacts'
  <2>1. MutualExclusion /\ MutualExclusion'
    BY DEF IInv
  <2>2. (MutualExclusion => OwnerFacts)'
    BY OwnerUnique, PTL
  <2>3. QED
    BY <2>1, <2>2, OwnerUnique
<1>2. /\ Owner = [l \in Lock |-> Owner[l]] /\ Owner' = [l \in Lock |-> Owner'[l]]
      /\ \A l \in Lock : Owner'[l] \in Task \cup {NoTask}
      /\ \A l \in Lock : \A t \in Task : Owner'[l] = t <=> Owns(t, l)'
  BY <1>1 DEF Owner, OwnerFacts
<1>3. ASSUME \A u \in Task, m \in Lock : Owns(u, m)' <=> Owns(u, m)
      PROVE  Owner' = Owner
  <2>1. \A l \in Lock : Owner'[l] = Owner[l]
    BY <1>1, <1>2, <1>3 DEF OwnerFacts
  <2>2. QED
    BY <1>2, <2>1
<1>4. ASSUME NEW t \in Task \ {Idle}, Step(t)
      PROVE  [M!Next]_Owner
  <2>1. CASE \A u \in Task, m \in Lock : Owns(u, m)' <=> Owns(u, m)
    BY <1>3, <2>1
  <2>2. ASSUME NEW l \in Lock, \A u \in Task : ~Owns(u, l),
               \A u \in Task, m \in Lock : Owns(u, m)' <=> Owns(u, m) \/ (u = t /\ m = l)
        PROVE  M!Take(t, l)
    <3>1. Owner[l] = NoTask
      BY <1>1, <2>2 DEF OwnerFacts
    <3>2. Owner'[l] = t
      BY <1>2, <2>2
    <3>3. \A m \in Lock \ {l} : Owner'[m] = Owner[m]
      BY <1>1, <1>2, <2>2 DEF OwnerFacts
    <3>4. Owner' = [Owner EXCEPT ![l] = t]
      BY <1>2, <3>2, <3>3
    <3>5. QED
      BY <3>1, <3>4 DEF M!Take
  <2>3. ASSUME NEW l \in Lock, Owns(t, l),
               \A u \in Task, m \in Lock : Owns(u, m)' <=> Owns(u, m) /\ ~(u = t /\ m = l)
        PROVE  M!Give(t, l)
    <3>1. Owner[l] = t
      BY <1>1, <2>3 DEF OwnerFacts
    <3>2. Owner'[l] = NoTask
      <4>1. \A u \in Task : u # t => ~Owns(u, l)
        BY <1>1, <3>1 DEF OwnerFacts
      <4>2. QED
        BY <1>2, <2>3, <4>1
    <3>3. \A m \in Lock \ {l} : Owner'[m] = Owner[m]
      BY <1>1, <1>2, <2>3 DEF OwnerFacts
    <3>4. Owner' = [Owner EXCEPT ![l] = NoTask]
      BY <1>2, <3>2, <3>3
    <3>5. QED
      BY <3>1, <3>4 DEF M!Give
  <2>4. QED
    BY <1>4, <2>1, <2>2, <2>3, OwnerStep DEF M!Next
<1>5. CASE \/ IdleBlock \/ IdleHalt \/ Tick
           \/ \E l \in Lock : DeviceIntr(l)
           \/ UNCHANGED vars
  BY <1>3, <1>5, OwnerOther
<1>6. QED
  BY <1>4, <1>5 DEF Next

(* The locks of sync.c implement the abstract Mutex.                       *)
THEOREM Refinement == Spec => ImplementsMutex
<1>1. Init => M!Init
  BY DEF Init, M!Init, Owner, Owns, Owning
<1>2. QED
  BY <1>1, OwnerRefines, InductiveInvariant, PTL DEF Spec, M!Spec, ImplementsMutex

=============================================================================
