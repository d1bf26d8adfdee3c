------------------------------ MODULE Process -------------------------------
(***************************************************************************)
(* The life of processes: sys_fork (fork.c), sys_wait and sys_exit         *)
(* (wait_exit.c), thread_exit and the pid pool (thread.c), and init        *)
(* (main.c).  A task of module Thread is a PCB page: one that is not on    *)
(* thread_all_list is free and may become the PCB of the next child.       *)
(* System calls run with interrupts off, and none of these waits for a     *)
(* lock somebody can hold, so each is one step except that sys_wait may    *)
(* sleep in its loop.  The files a process has open are module FileTable's *)
(* subject, its pages module Memory's.                                     *)
(***************************************************************************)
EXTENDS Thread, Integers, FiniteSets, SequencesExt

CONSTANTS
  InitProc,    \* the first process, pid 1
  MainThread,  \* the boot thread, pid 2, which exits when it has booted
  ExitStatus,  \* the values programs pass to exit
  Sleeper      \* bound: the PCBs whose programs make other calls that sleep

ASSUME ProcessAssumption ==
  /\ InitProc \in Task /\ MainThread \in Task
  /\ InitProc # MainThread /\ Idle \notin {InitProc, MainThread}
  /\ IsFiniteSet(Task)
  /\ Sleeper \subseteq Task \ {InitProc, MainThread, Idle}

VARIABLES
  sched,       \* scheduler record
  pc,          \* "user", "wait" (in sys_wait's loop), "idle" or "hlt"
  all,         \* thread_all_list
  pid, parent_pid, exit_status,   \* PCB fields
  pids,        \* pid_pool: the pids in use
  lost,        \* PCB pages of forks that failed half way: nobody frees them
  forked,      \* init has called fork
  maker        \* history: the PCB that forked this one

pcb_vars == <<pid, parent_pid, exit_status>>
vars == <<sched, pc, all, pcb_vars, pids, lost, forked, maker>>

Live == ToSet(all)
InUse == Live \cup lost
PidRange == 1 .. Cardinality(Task)

Init ==
  /\ sched = [cur |-> MainThread, ready |-> <<InitProc, Idle>>,
              status |-> [t \in Task |-> CASE t = MainThread -> "RUNNING"
                                           [] t \in {InitProc, Idle} -> "READY"
                                           [] OTHER -> "DIED"],
              ticks |-> Prio, panic |-> FALSE]
  /\ pc = [t \in Task |-> IF t = Idle THEN "idle" ELSE "user"]
  /\ all = <<InitProc, MainThread, Idle>>
  /\ pid = [t \in Task |-> CASE t = InitProc -> 1 [] t = MainThread -> 2
                             [] t = Idle -> 3 [] OTHER -> 0]
  /\ parent_pid = [t \in Task |-> -1]
  /\ exit_status = [t \in Task |-> 0]
  /\ pids = {1, 2, 3}
  /\ lost = {}
  /\ forked = FALSE
  /\ maker = [t \in Task |-> t]

-----------------------------------------------------------------------------
At(t, label) == ~sched.panic /\ sched.cur = t /\ pc[t] = label
Goto(t, label) == pc' = [pc EXCEPT ![t] = label]

(* bitmap_scan(1) gives the lowest pid that is free.                       *)
allocate_pid == CHOOSE p \in PidRange \ pids : \A q \in PidRange \ pids : p <= q

(* Unlink t from the scheduler and, if it is the caller, switch away.      *)
thread_exit(s, t, need_schedule) ==
  LET d == [s EXCEPT !.status = [s.status EXCEPT ![t] = "DIED"],
                     !.ready = IF elem_find(s.ready, t) THEN list_remove(s.ready, t)
                               ELSE s.ready]
  IN  IF need_schedule THEN schedule(d) ELSE d

(* The end of thread_exit: unlink the PCB, free its page, give its pid     *)
(* back.  The code reads the pid from the page it has just freed and       *)
(* unmapped.  Interrupts are off, so nobody takes the page meanwhile, and  *)
(* page_table_pte_remove leaves the page's translation in the TLB (its     *)
(* invlpg names a local variable): the read finds the old pid and all of   *)
(* it is one step.  get_kernel_pages clears a page before it is used       *)
(* again; here the fields of a freed PCB are cleared when it is freed.     *)
FreePcb(t) ==
  /\ all' = list_remove(all, t)
  /\ pids' = pids \ {pid[t]}
  /\ pid' = [pid EXCEPT ![t] = 0]
  /\ parent_pid' = [parent_pid EXCEPT ![t] = -1]
  /\ exit_status' = [exit_status EXCEPT ![t] = 0]
  /\ maker' = [maker EXCEPT ![t] = t]

(* main returns from booting: thread_exit(running_thread(), true).         *)
MainExit ==
  /\ At(MainThread, "user")
  /\ sched' = thread_exit(sched, MainThread, TRUE)
  /\ FreePcb(MainThread)
  /\ UNCHANGED <<pc, lost, forked>>

(* Programs fork as they like; init forks the shell and then only waits.   *)
MayFork(t) == t # MainThread /\ (t = InitProc => ~forked)

(* The child's PCB page is a copy of the parent's with its own pid and a   *)
(* full time slice (every process has the priority of init).               *)
copy_pcb_vaddrbitmap_stack0(t, c) ==
  /\ pid' = [pid EXCEPT ![c] = allocate_pid]
  /\ pids' = pids \cup {allocate_pid}
  /\ parent_pid' = [parent_pid EXCEPT ![c] = pid[t]]
  /\ exit_status' = [exit_status EXCEPT ![c] = exit_status[t]]

(* sys_fork: child c is a copy of the caller on a free page.  (The page of *)
(* main is not from the heap and is never freed.)                          *)
sys_fork(t, c) ==
  /\ At(t, "user") /\ MayFork(t)
  /\ c \notin InUse \cup {MainThread}
  /\ copy_pcb_vaddrbitmap_stack0(t, c)
  /\ sched' = [ASSERT(sched, ~elem_find(sched.ready, c) /\ ~elem_find(all, c))
                 EXCEPT !.ready = list_append(sched.ready, c),
                        !.status = [sched.status EXCEPT ![c] = "READY"],
                        !.ticks = [sched.ticks EXCEPT ![c] = Prio[c]]]
  /\ all' = list_append(all, c)
  /\ Goto(c, "user")
  /\ forked' = (forked \/ t = InitProc)
  /\ maker' = [maker EXCEPT ![c] = t]
  /\ UNCHANGED lost

(* sys_fork when get_kernel_pages fails for one of the pages that follow   *)
(* the child's PCB page: the caller gets -1 (init goes on as after a       *)
(* fork), nothing is undone, and the child is on no list.  The page is     *)
(* lost, and so is the pid unless it was buf_page that failed, which comes *)
(* before fork_pid.  The other fields of the lost page are read by nobody. *)
ForkFails(t, c) ==
  /\ At(t, "user") /\ MayFork(t)
  /\ c \notin InUse \cup {MainThread}
  /\ lost' = lost \cup {c}
  /\ \/ /\ pid' = [pid EXCEPT ![c] = 0]
        /\ UNCHANGED pids
     \/ /\ pid' = [pid EXCEPT ![c] = allocate_pid]
        /\ pids' = pids \cup {allocate_pid}
  /\ forked' = (forked \/ t = InitProc)
  /\ UNCHANGED <<sched, pc, all, parent_pid, exit_status, maker>>

-----------------------------------------------------------------------------
Children(p) == {c \in Live : parent_pid[c] = pid[p]}
HangingChildren(p) == {c \in Children(p) : sched.status[c] = "HANGING"}

(* list_traversal(&thread_all_list, find_hanging_child, pid): the first on *)
(* the list for which the callback is true.                                *)
find_hanging_child(p) ==
  LET i == CHOOSE j \in 1 .. Len(all) :
             /\ all[j] \in HangingChildren(p)
             /\ \A k \in 1 .. j - 1 : all[k] \notin HangingChildren(p)
  IN  all[i]

(* Init only waits once it has forked; a program waits when it likes.      *)
MayWait(t) == t # MainThread /\ (t = InitProc => forked)

(* One turn of sys_wait's loop: reap, return -1, or sleep.                 *)
sys_wait(t) ==
  /\ (At(t, "user") /\ MayWait(t)) \/ At(t, "wait")
  /\ \/ /\ HangingChildren(t) # {}
        /\ LET c == find_hanging_child(t) IN
             /\ sched' = thread_exit(sched, c, FALSE)
             /\ FreePcb(c)
        /\ Goto(t, "user")
     \/ /\ Children(t) = {}
        /\ Goto(t, "user")
        /\ UNCHANGED <<sched, all, pids, pcb_vars, maker>>
     \/ /\ HangingChildren(t) = {} /\ Children(t) # {}
        /\ sched' = thread_block(sched, "WAITING")
        /\ Goto(t, "wait")
        /\ UNCHANGED <<all, pids, pcb_vars, maker>>
  /\ UNCHANGED <<lost, forked>>

(* Faulty variant: the children keep their parent.                         *)
NotAdopted(t) == parent_pid

(* parent_pid after init_adopt_a_child has run over thread_all_list.       *)
adopted(t) ==
  [c \in Task |-> IF c \in Children(t) THEN 1 ELSE parent_pid[c]]

(* Faulty variants of sys_exit: the parent is unblocked whatever it does,  *)
(* or not at all.                                                          *)
ExitUnblocksAlways(t, st) ==
  /\ At(t, "user") /\ t \notin {InitProc, MainThread}
  /\ exit_status' = [exit_status EXCEPT ![t] = st]
  /\ parent_pid' = adopted(t)
  /\ LET p == CHOOSE u \in Live : pid[u] = parent_pid[t]
     IN  sched' = thread_block(thread_unblock(sched, p), "HANGING")
  /\ UNCHANGED <<pc, all, pid, pids, lost, forked, maker>>

ExitUnblocksNobody(t, st) ==
  /\ At(t, "user") /\ t \notin {InitProc, MainThread}
  /\ exit_status' = [exit_status EXCEPT ![t] = st]
  /\ parent_pid' = adopted(t)
  /\ sched' = thread_block(sched, "HANGING")
  /\ UNCHANGED <<pc, all, pid, pids, lost, forked, maker>>

(* sys_exit wakes the parent if it is in sys_wait, and turns into a zombie.*)
(* pid2thread of a pid nobody has would be dereferenced as NULL.           *)
sys_exit(t, st) ==
  /\ At(t, "user") /\ t \notin {InitProc, MainThread}
  /\ exit_status' = [exit_status EXCEPT ![t] = st]
  /\ parent_pid' = adopted(t)
  /\ LET pid2thread == {u \in Live : pid[u] = parent_pid[t]}
         p == CHOOSE u \in pid2thread : TRUE
         woken == IF sched.status[p] = "WAITING" THEN thread_unblock(sched, p)
                  ELSE sched
     IN  sched' = IF parent_pid[t] = -1 \/ pid2thread = {}
                    THEN ASSERT(sched, FALSE)
                    ELSE thread_block(woken, "HANGING")
  /\ UNCHANGED <<pc, all, pid, pids, lost, forked, maker>>

-----------------------------------------------------------------------------
(* Any other system call that sleeps, and the interrupt that ends it.      *)
Sleep(t) ==
  /\ At(t, "user") /\ t \in Sleeper
  /\ sched' = thread_block(sched, "BLOCKED")
  /\ UNCHANGED <<pc, all, pcb_vars, pids, lost, forked, maker>>

Interruptible == ~sched.panic /\ pc[sched.cur] \in {"user", "idle", "hlt"}

ResumeHlt == pc' = [pc EXCEPT ![sched.cur] = IF pc[sched.cur] = "hlt" THEN "idle"
                                             ELSE pc[sched.cur]]

Wake(t) ==
  /\ Interruptible /\ t # Idle
  /\ sched.status[t] = "BLOCKED"
  /\ sched' = thread_unblock(sched, t)
  /\ ResumeHlt
  /\ UNCHANGED <<all, pcb_vars, pids, lost, forked, maker>>

Tick ==
  /\ Interruptible
  /\ sched' = timer_tick(sched)
  /\ ResumeHlt
  /\ UNCHANGED <<all, pcb_vars, pids, lost, forked, maker>>

IdleBlock ==
  /\ At(Idle, "idle")
  /\ sched' = thread_block(sched, "BLOCKED")
  /\ Goto(Idle, "hlt")
  /\ UNCHANGED <<all, pcb_vars, pids, lost, forked, maker>>

Syscall(t) ==
  \/ \E c \in Task : sys_fork(t, c) \/ ForkFails(t, c)
  \/ sys_wait(t)
  \/ \E st \in ExitStatus : sys_exit(t, st)
  \/ Sleep(t) \/ Wake(t)

Next == (\E t \in Task \ {Idle} : Syscall(t)) \/ MainExit \/ Tick \/ IdleBlock

Spec == Init /\ [][Next]_vars

(* The CPU executes the task that has it, and timer interrupts come.       *)
Fairness ==
  /\ \A t \in Task \ {Idle} : SF_vars(pc[t] = "wait" /\ sys_wait(t))
  /\ SF_vars(Tick) /\ SF_vars(IdleBlock)

FairSpec == Spec /\ Fairness

-----------------------------------------------------------------------------
TypeOK ==
  /\ sched \in SchedType
  /\ pc \in [Task -> {"user", "wait", "idle", "hlt"}]
  /\ all \in Seq(Task)
  /\ pid \in [Task -> PidRange \cup {0}]
  /\ parent_pid \in [Task -> PidRange \cup {-1}]
  /\ exit_status \in [Task -> ExitStatus \cup {0}]
  /\ pids \subseteq PidRange /\ lost \subseteq Task
  /\ maker \in [Task -> Task]

(* No ASSERT or PANIC of the scheduler, sys_fork or sys_exit fires, and    *)
(* pid2thread finds the parent of every process that exits.  A PCB page is *)
(* on thread_all_list once and only while its process is alive or a        *)
(* zombie: the page thread_exit frees is in no list and is not the running *)
(* task's, and one that a failed fork has lost is never a process again.   *)
SchedulerOK ==
  /\ TypeOK /\ SchedOK(sched)
  /\ NoDuplicates(all)
  /\ \A t \in Task : t \notin Live <=> sched.status[t] = "DIED"
  /\ lost \cap Live = {}

(* Although pids are reused, parent_pid always names the process that      *)
(* forked this one, or init once that one has exited; never a stranger     *)
(* that was given the pid later.  And what the pool has given out are the  *)
(* pids of processes alive or not yet reaped, one each, and those that     *)
(* failed forks have lost, which no process shares: exit and wait give     *)
(* every pid back, once.                                                   *)
ParentIsReal ==
  /\ pids = {pid[t] : t \in InUse} \ {0}
  /\ \A t, u \in InUse : pid[t] = pid[u] => t = u \/ pid[t] = 0
  /\ \A t \in Live : pid[t] # 0
  /\ \A t \in Live \ {InitProc, MainThread, Idle} :
       \E p \in Live :
         /\ pid[p] = parent_pid[t]
         /\ p \in {maker[t], InitProc}
         /\ p # t

(* A process asleep in sys_wait has no zombie to reap: sys_exit and        *)
(* sys_wait never miss each other.  The exception is init, which nobody    *)
(* wakes when it adopts a zombie.                                          *)
WaiterHasNoZombie ==
  \A p \in Live \ {InitProc} :
    sched.status[p] = "WAITING" => HangingChildren(p) = {}

(* A parent that waits while it has a zombie gets it.                      *)
WaitReturns ==
  \A p \in Task \ {InitProc} :
    (pc[p] = "wait" /\ HangingChildren(p) # {}) ~> pc[p] = "user"
=============================================================================
