------------------------------- MODULE Thread -------------------------------
(***************************************************************************)
(* The scheduler of thread.c on the lists of list.c, as operators on one   *)
(* record:                                                                 *)
(*   cur     the PCB running_thread() computes from esp,                   *)
(*   ready   thread_ready_list, a sequence of general_tags,                *)
(*   status  task_struct.status, one per task,                             *)
(*   ticks   task_struct.ticks, what is left of the time slice,            *)
(*   panic   TRUE once an ASSERT or PANIC of the kernel has fired; the     *)
(*           kernel then spins with interrupts off, so nothing follows.    *)
(* The operators are total functions from a scheduler record to the next,  *)
(* so that a handler that unblocks one task and then blocks its own (as    *)
(* sys_exit does) is their composition.                                    *)
(***************************************************************************)
EXTENDS Naturals, Sequences

CONSTANTS
  Task,    \* all PCBs that exist
  Idle,    \* idle_thread
  Prio,    \* task_struct.priority, the length of a time slice in ticks
  NoTask   \* the NULL pointer to a task_struct

ASSUME TaskAssumption ==
  /\ Idle \in Task
  /\ NoTask \notin Task
  /\ Prio \in [Task -> Nat]

Status == {"RUNNING", "READY", "BLOCKED", "WAITING", "HANGING", "DIED"}

\* The states thread_block may enter and thread_unblock may leave.
Asleep == {"BLOCKED", "WAITING", "HANGING"}

SchedType ==
  [cur : Task, ready : Seq(Task), status : [Task -> Status],
   ticks : [Task -> Nat], panic : BOOLEAN]

-----------------------------------------------------------------------------
(* list.c, on the sequence of the elements between head and tail.          *)

elem_find(list, t) == \E i \in 1 .. Len(list) : list[i] = t

list_append(list, t) == Append(list, t)

list_push(list, t) == <<t>> \o list

(* Unlink t, which is in the list.                                         *)
list_remove(list, t) ==
  LET i == CHOOSE j \in 1 .. Len(list) : list[j] = t
  IN  SubSeq(list, 1, i - 1) \o SubSeq(list, i + 1, Len(list))

-----------------------------------------------------------------------------
(* ASSERT(ok): a failing assertion stops the kernel.                       *)
ASSERT(s, ok) == [s EXCEPT !.panic = s.panic \/ ~ok]

(* A sleeping task goes to the FRONT of the ready list.                    *)
thread_unblock(s, t) ==
  IF s.status[t] \in Asleep /\ ~elem_find(s.ready, t)
    THEN [s EXCEPT !.ready = list_push(s.ready, t),
                   !.status = [s.status EXCEPT ![t] = "READY"]]
    ELSE ASSERT(s, FALSE)

(* The running task whose slice is over is queued and gets a new slice.    *)
requeue(s) ==
  IF s.status[s.cur] # "RUNNING"
    THEN s
    ELSE IF elem_find(s.ready, s.cur)
      THEN ASSERT(s, FALSE)
      ELSE [s EXCEPT !.ready = list_append(s.ready, s.cur),
                     !.ticks = [s.ticks EXCEPT ![s.cur] = Prio[s.cur]],
                     !.status = [s.status EXCEPT ![s.cur] = "READY"]]

(* With nobody ready the idle thread is unblocked.                         *)
wake_idle(s) == IF s.ready = <<>> THEN thread_unblock(s, Idle) ELSE s

(* list_pop of the ready list and switch_to the popped task.               *)
dispatch(s) ==
  IF s.ready = <<>>
    THEN ASSERT(s, FALSE)
    ELSE [s EXCEPT !.ready = Tail(s.ready),
                   !.status = [s.status EXCEPT ![Head(s.ready)] = "RUNNING"],
                   !.cur = Head(s.ready)]

schedule(s) == dispatch(wake_idle(requeue(s)))

thread_block(s, stat) ==
  schedule([s EXCEPT !.status = [s.status EXCEPT ![s.cur] = stat]])

(* A yielding task keeps what is left of its slice.                        *)
thread_yield(s) ==
  IF elem_find(s.ready, s.cur)
    THEN ASSERT(s, FALSE)
    ELSE schedule([s EXCEPT !.ready = list_append(s.ready, s.cur),
                            !.status = [s.status EXCEPT ![s.cur] = "READY"]])

(* intr_timer_handler.                                                     *)
timer_tick(s) ==
  IF s.ticks[s.cur] = 0
    THEN schedule(s)
    ELSE [s EXCEPT !.ticks = [s.ticks EXCEPT ![s.cur] = s.ticks[s.cur] - 1]]

-----------------------------------------------------------------------------
(* What every operator above preserves: exactly the running task has       *)
(* status RUNNING, the ready list holds exactly the READY tasks, each      *)
(* once, and idle sleeps whenever it is neither.                           *)

NoDuplicates(list) ==
  \A i, j \in 1 .. Len(list) : list[i] = list[j] => i = j

SchedOK(s) ==
  /\ \A t \in Task : s.status[t] = "RUNNING" <=> t = s.cur
  /\ \A t \in Task : elem_find(s.ready, t) <=> s.status[t] = "READY"
  /\ NoDuplicates(s.ready)
  /\ s.status[Idle] \in {"RUNNING", "READY", "BLOCKED"}
  /\ ~s.panic
=============================================================================
