---------------------------- MODULE SyscallLock -----------------------------
(***************************************************************************)
(* Locks and semaphores as code that runs with interrupts off sees them.   *)
(* Inside a system call or an interrupt handler nothing happens between    *)
(* the statements of lock_acquire or lock_release except where the task    *)
(* sleeps in sema_down, so each is one operator on the record              *)
(*   [value, waiters, holder, repeat]                                      *)
(* Module Sync has the same functions statement by statement.              *)
(***************************************************************************)
EXTENDS Thread

FreeLock == [value |-> 1, waiters |-> <<>>, holder |-> NoTask, repeat |-> 0]

(* lock_acquire goes on without sleeping.                                  *)
CanTake(k, t) == k.holder = t \/ k.value = 1

Take(k, t) ==
  IF k.holder = t
    THEN [k EXCEPT !.repeat = k.repeat + 1]
    ELSE [k EXCEPT !.value = 0, !.holder = t, !.repeat = 1]

(* sema_down links the task into the waiters before it blocks.             *)
Enqueue(k, t) == [k EXCEPT !.waiters = list_append(k.waiters, t)]

(* lock_release: its two ASSERTs, and sema_up of the inner semaphore.      *)
ReleaseOK(k, t) == k.holder = t /\ k.repeat >= 1

Release(k) ==
  IF k.repeat > 1
    THEN [k EXCEPT !.repeat = k.repeat - 1]
    ELSE [value |-> 1, holder |-> NoTask, repeat |-> 0,
          waiters |-> IF k.waiters = <<>> THEN <<>> ELSE Tail(k.waiters)]

(* The waiter sema_up unblocks.                                            *)
WakeFirst(s, waiters) ==
  IF waiters = <<>> THEN s ELSE thread_unblock(s, Head(waiters))

ReleaseSched(s, k, t) ==
  LET a == ASSERT(s, ReleaseOK(k, t))
  IN  IF k.repeat > 1 THEN a ELSE WakeFirst(a, k.waiters)
=============================================================================
