---------------------------- MODULE ProcessProofs ----------------------------
(***************************************************************************)
(* Theorems about the life of processes (module Process), for any set of   *)
(* tasks: the kernel's assertions hold, parent_pid is never stale although *)
(* pids are reused, and sys_wait and sys_exit never miss each other.       *)
(***************************************************************************)
EXTENDS Process, ThreadProofs, FiniteSetTheorems

(* The boot tasks are nobody's children and init, pid 1, stays.            *)
BootOK ==
  /\ InitProc \in Live /\ pid[InitProc] = 1
  /\ sched.status[InitProc] # "HANGING"
  /\ \A t \in {InitProc, MainThread, Idle} : parent_pid[t] = -1

(* Who is about to give its pid back has no children left that name it.    *)
Childless ==
  /\ \A t \in Live : sched.status[t] = "HANGING" => Children(t) = {}
  /\ MainThread \in Live => Children(MainThread) = {}

ProcessInv ==
  SchedulerOK /\ ParentIsReal /\ WaiterHasNoZombie /\ BootOK /\ Childless

-----------------------------------------------------------------------------
(* The tasks on thread_all_list, by elem_find.                             *)
LEMMA LiveFind ==
  ASSUME NEW t, all \in Seq(Task)
  PROVE  t \in Live <=> elem_find(all, t)
BY DEF Live, ToSet, elem_find

(* A set of naturals that is not empty has a least element.                *)
LEMMA LeastNat ==
  ASSUME NEW S \in SUBSET Nat, S # {}
  PROVE  \E m \in S : \A n \in S : m <= n
<1> DEFINE T == {0 .. n : n \in S}
<1>1. T \subseteq FiniteSubsetsOf(Nat) /\ T # {}
  <2>1. \A n \in S : 0 .. n \in FiniteSubsetsOf(Nat)
    BY FS_Interval DEF FiniteSubsetsOf
  <2>2. QED
    BY <2>1
<1>2. IsWellFoundedOn(StrictSubsetOrdering(Nat), FiniteSubsetsOf(Nat))
  BY FS_StrictSubsetOrderingWellFounded
<1>3. PICK x \in T : \A y \in T : ~(<<y, x>> \in StrictSubsetOrdering(Nat))
  <2> HIDE DEF T
  <2>1. QED
    BY <1>1, <1>2, WFMin
<1>4. PICK m \in S : x = 0 .. m
  BY <1>3
<1>5. ASSUME NEW n \in S, n < m
      PROVE  FALSE
  <2>1. /\ 0 .. n \subseteq 0 .. m /\ 0 .. n # 0 .. m
        /\ 0 .. n \in SUBSET Nat /\ 0 .. m \in SUBSET Nat
    <3>1. m \in 0 .. m /\ m \notin 0 .. n
      BY <1>5
    <3>2. QED
      BY <1>5, <3>1
  <2>2. <<0 .. n, 0 .. m>> \in StrictSubsetOrdering(Nat)
    BY <2>1 DEF StrictSubsetOrdering
  <2>3. QED
    BY <1>3, <1>4, <2>2
<1>6. QED
  BY <1>5

(* list_traversal finds a hanging child whenever there is one              *)
(* (wait_exit.c find_hanging_child).                                       *)
LEMMA FindHangingChild ==
  ASSUME all \in Seq(Task), NEW p \in Task, HangingChildren(p) # {}
  PROVE  find_hanging_child(p) \in HangingChildren(p)
<1> DEFINE H == HangingChildren(p)
           S == {j \in 1 .. Len(all) : all[j] \in H}
<1>1. PICK c : c \in H /\ c \in Live
  BY DEF HangingChildren, Children
<1>2. S \in SUBSET Nat /\ S # {}
  BY <1>1, LiveFind DEF elem_find
<1>3. PICK m \in S : \A n \in S : m <= n
  BY <1>2, LeastNat
<1>4. m \in 1 .. Len(all) /\ all[m] \in H
  BY <1>3
<1>5. \A k \in 1 .. m - 1 : all[k] \notin H
  <2>1. ASSUME NEW k \in 1 .. m - 1, all[k] \in H
        PROVE  FALSE
    <3>1. k \in 1 .. Len(all) /\ k < m
      BY <1>4
    <3>2. QED
      BY <1>3, <2>1, <3>1
  <2>2. QED
    BY <2>1
<1>6. QED
  BY <1>4, <1>5 DEF find_hanging_child

(* With a free PCB there is a free pid, and bitmap_scan finds it: no more  *)
(* pids are in use than there are processes and pages that failed forks    *)
(* have lost (thread.c allocate_pid).                                      *)
LEMMA AllocatePid ==
  ASSUME ProcessInv, NEW c \in Task, c \notin InUse
  PROVE  allocate_pid \in PidRange /\ allocate_pid \notin pids
<1> DEFINE D == {t \in InUse : pid[t] # 0}
<1>1. IsFiniteSet(Task) /\ Cardinality(Task) \in Nat
  BY FS_CardinalityType, ProcessAssumption
<1>2. D \in SUBSET (Task \ {c})
  BY LiveFind DEF InUse, ProcessInv, SchedulerOK, TypeOK, elem_find
<1>3. /\ IsFiniteSet(D) /\ Cardinality(D) \in Nat
      /\ Cardinality(D) < Cardinality(Task)
  <2>1. IsFiniteSet(Task \ {c}) /\ Cardinality(Task \ {c}) = Cardinality(Task) - 1
    BY <1>1, FS_RemoveElement
  <2>2. IsFiniteSet(D) /\ Cardinality(D) <= Cardinality(Task \ {c})
    BY <1>2, <2>1, FS_Subset
  <2>3. Cardinality(D) \in Nat
    BY <2>2, FS_CardinalityType
  <2>4. QED
    BY <1>1, <2>1, <2>2, <2>3
<1>4. IsFiniteSet(pids) /\ Cardinality(pids) <= Cardinality(D)
  <2> DEFINE f == [t \in D |-> pid[t]]
  <2>1. pids = {pid[t] : t \in D}
    BY DEF ProcessInv, ParentIsReal
  <2>2. f \in Surjection(D, pids)
    BY <2>1 DEF Surjection
  <2>3. QED
    BY <1>3, <2>2, FS_Surjection
<1>5. IsFiniteSet(PidRange) /\ Cardinality(PidRange) = Cardinality(Task)
  BY <1>1, <1>3, FS_Interval DEF PidRange
<1>6. PidRange \ pids # {}
  <2>1. Cardinality(pids) \in Nat
    BY <1>4, FS_CardinalityType
  <2>2. ASSUME PidRange \ pids = {}
        PROVE  FALSE
    <3>1. pids = PidRange
      BY <2>2 DEF ProcessInv, SchedulerOK, TypeOK
    <3>2. QED
      BY <1>1, <1>3, <1>4, <1>5, <2>1, <3>1
  <2>3. QED
    BY <2>2
<1>7. \E p \in PidRange \ pids : \A q \in PidRange \ pids : p <= q
  <2>1. PidRange \ pids \in SUBSET Nat
    BY DEF PidRange
  <2>2. QED
    BY <1>6, <2>1, LeastNat
<1>8. QED
  BY <1>7 DEF allocate_pid

-----------------------------------------------------------------------------
(* What the invariant says of one task, for the steps below.               *)
LEMMA LiveFacts ==
  ASSUME ProcessInv
  PROVE  /\ sched \in SchedType /\ SchedOK(sched) /\ sched.status \in [Task -> Status]
         /\ sched.cur \in Live
         /\ all \in Seq(Task) /\ Live \subseteq Task
         /\ Idle \in Live /\ InitProc \in Live
         /\ 1 \in PidRange
         /\ \A t \in Live : pid[t] \in PidRange /\ pid[t] \in pids /\ pid[t] # -1
         /\ \A t \in Live : parent_pid[t] = -1 \/ parent_pid[t] \in pids
         /\ \A t \in Live, u \in InUse : pid[t] = pid[u] => t = u
         /\ lost \subseteq Task /\ lost \cap Live = {} /\ Live \subseteq InUse
<1>1. /\ sched \in SchedType /\ SchedOK(sched) /\ sched.status \in [Task -> Status]
      /\ all \in Seq(Task)
  BY DEF ProcessInv, SchedulerOK, TypeOK, SchedType
<1>2. Live \subseteq Task
  BY <1>1, LiveFind DEF elem_find
<1>3. sched.cur \in Live /\ Idle \in Live
  BY <1>1, TaskAssumption DEF ProcessInv, SchedulerOK, SchedOK, SchedType
<1>4. \A t \in Live : pid[t] \in PidRange /\ pid[t] \in pids /\ pid[t] # -1
  <2>1. \A t \in Live : pid[t] \in pids
    BY DEF ProcessInv, ParentIsReal, InUse
  <2>2. pids \subseteq PidRange /\ -1 \notin PidRange
    BY DEF ProcessInv, SchedulerOK, TypeOK, PidRange
  <2>3. QED
    BY <2>1, <2>2
<1>5. InitProc \in Live /\ 1 \in PidRange
  BY <1>4 DEF ProcessInv, BootOK
<1>6. \A t \in Live : parent_pid[t] = -1 \/ parent_pid[t] \in pids
  BY <1>4 DEF ProcessInv, BootOK, ParentIsReal
<1>7. /\ lost \subseteq Task /\ lost \cap Live = {} /\ Live \subseteq InUse
      /\ \A t \in Live, u \in InUse : pid[t] = pid[u] => t = u
  BY DEF ProcessInv, SchedulerOK, TypeOK, ParentIsReal, InUse
<1>8. QED
  BY <1>1, <1>2, <1>3, <1>4, <1>5, <1>6, <1>7

(* When a task blocks, nobody else starts or stops waiting, hanging or     *)
(* being dead (idle does neither).                                         *)
LEMMA BlockedOthers ==
  ASSUME NEW s, SchedOK(s), NEW n, NEW stat, BlockedOnly(s, n, stat)
  PROVE  /\ n \in SchedType /\ SchedOK(n) /\ n.status[s.cur] = stat
         /\ \A u \in Task \ {s.cur} : \A st \in {"WAITING", "HANGING", "DIED"} :
              n.status[u] = st <=> s.status[u] = st
<1>1. n \in SchedType /\ SchedOK(n) /\ n.status[s.cur] = stat
  BY DEF BlockedOnly
<1>2. ASSUME NEW u \in Task \ {s.cur}, NEW st \in {"WAITING", "HANGING", "DIED"}
      PROVE  n.status[u] = st <=> s.status[u] = st
  <2>1. CASE u = Idle
    BY <1>1, <2>1 DEF SchedOK
  <2>2. CASE u # Idle
    BY <2>2 DEF BlockedOnly, Asleep
  <2>3. QED
    BY <2>1, <2>2
<1>3. QED
  BY <1>1, <1>2

(* A step of the scheduler alone: nobody dies or is born, nobody becomes a *)
(* zombie, and nobody falls asleep in sys_wait while it has one.           *)
LEMMA SchedStep ==
  ASSUME ProcessInv, sched' \in SchedType, SchedOK(sched'),
         pc' \in [Task -> {"user", "wait", "idle", "hlt"}],
         UNCHANGED <<all, pcb_vars, pids, lost, maker>>,
         \A t \in Task : sched'.status[t] = "DIED" <=> sched.status[t] = "DIED",
         \A t \in Task : sched'.status[t] = "HANGING" => sched.status[t] = "HANGING",
         \A t \in Task : sched'.status[t] = "WAITING" =>
                           sched.status[t] = "WAITING" \/ HangingChildren(t) = {}
  PROVE  ProcessInv'
<1>1. /\ Live' = Live /\ InUse' = InUse /\ \A t : Children(t)' = Children(t)
      /\ Live \subseteq Task /\ InitProc \in Live
  BY LiveFacts DEF Live, InUse, Children, pcb_vars
<1>2. SchedulerOK'
  BY <1>1 DEF ProcessInv, SchedulerOK, TypeOK, pcb_vars
<1>3. ParentIsReal'
  BY <1>1 DEF ProcessInv, ParentIsReal, pcb_vars
<1>4. \A t \in Task : HangingChildren(t) = {} => HangingChildren(t)' = {}
  BY <1>1 DEF HangingChildren, Children
<1>5. WaiterHasNoZombie'
  BY <1>1, <1>4 DEF ProcessInv, WaiterHasNoZombie
<1>6. BootOK'
  BY <1>1 DEF ProcessInv, BootOK, pcb_vars
<1>7. Childless'
  BY <1>1 DEF ProcessInv, Childless
<1>8. QED
  BY <1>2, <1>3, <1>5, <1>6, <1>7 DEF ProcessInv

(* thread_exit gives back the PCB and the pid of a task that has no        *)
(* children any more: no parent_pid dangles (thread.c thread_exit).        *)
LEMMA FreeStep ==
  ASSUME ProcessInv, NEW c \in Live \ {InitProc, Idle}, Children(c) = {},
         FreePcb(c), lost' = lost, sched' \in SchedType, SchedOK(sched'),
         pc' \in [Task -> {"user", "wait", "idle", "hlt"}],
         sched'.status[c] = "DIED",
         \A t \in Task \ {c} : sched'.status[t] = "DIED" <=> sched.status[t] = "DIED",
         \A t \in Task \ {c} : sched'.status[t] = "HANGING" => sched.status[t] = "HANGING",
         \A t \in Task \ {c} : sched'.status[t] = "WAITING" => sched.status[t] = "WAITING"
  PROVE  ProcessInv'
<1>1. /\ all \in Seq(Task) /\ NoDuplicates(all) /\ elem_find(all, c)
      /\ Live \subseteq Task /\ c \in Task
  BY LiveFacts, LiveFind DEF ProcessInv, SchedulerOK
<1>2. /\ all' \in Seq(Task) /\ NoDuplicates(all')
      /\ \A u : elem_find(all', u) <=> elem_find(all, u) /\ u # c
  BY <1>1, RemoveFind DEF FreePcb
<1>3. Live' = Live \ {c}
  <2>1. \A u : u \in Live' <=> elem_find(all', u)
    BY <1>2 DEF Live, ToSet, elem_find
  <2>2. QED
    BY <1>1, <1>2, <2>1, LiveFind
<1>4. /\ pid \in [Task -> PidRange \cup {0}] /\ pid' = [pid EXCEPT ![c] = 0]
      /\ parent_pid \in [Task -> PidRange \cup {-1}]
      /\ parent_pid' = [parent_pid EXCEPT ![c] = -1]
      /\ exit_status \in [Task -> ExitStatus \cup {0}]
      /\ exit_status' = [exit_status EXCEPT ![c] = 0]
      /\ pids' = pids \ {pid[c]} /\ pids \subseteq PidRange
      /\ maker \in [Task -> Task] /\ maker' = [maker EXCEPT ![c] = c]
      /\ lost' \subseteq Task
  BY DEF ProcessInv, SchedulerOK, TypeOK, FreePcb
<1>5. /\ \A t \in Live \ {c} : pid'[t] = pid[t] /\ parent_pid'[t] = parent_pid[t]
      /\ \A t \in Live \ {c} : t \in Task /\ pid[t] # pid[c]
  BY <1>1, <1>4, LiveFacts
<1>6. \A t \in Live \ {c} : Children(t)' = Children(t) \ {c}
  BY <1>3, <1>5 DEF Children
<1>7. SchedulerOK'
  <2>1. TypeOK'
    <3>1. pid' \in [Task -> PidRange \cup {0}] /\ pids' \subseteq PidRange
      BY <1>1, <1>4
    <3>2. parent_pid' \in [Task -> PidRange \cup {-1}]
      BY <1>1, <1>4
    <3>3. exit_status' \in [Task -> ExitStatus \cup {0}]
      BY <1>1, <1>4
    <3>4. maker' \in [Task -> Task]
      BY <1>1, <1>4
    <3>5. QED
      BY <1>2, <1>4, <3>1, <3>2, <3>3, <3>4 DEF TypeOK
  <2>2. \A t \in Task : t \notin Live' <=> sched'.status[t] = "DIED"
    BY <1>3 DEF ProcessInv, SchedulerOK
  <2>3. lost' \cap Live' = {}
    BY <1>3, LiveFacts
  <2>4. QED
    BY <1>2, <2>1, <2>2, <2>3 DEF SchedulerOK
<1>8. ParentIsReal'
  <2>1. /\ InUse' = InUse \ {c} /\ InUse \subseteq Task /\ c \in InUse
        /\ \A t \in InUse' : pid'[t] = pid[t] /\ pid[t] # pid[c]
    <3>1. InUse' = InUse \ {c} /\ InUse \subseteq Task /\ c \in InUse
      BY <1>1, <1>3, LiveFacts DEF InUse
    <3>2. QED
      BY <1>4, <3>1, LiveFacts
  <2>2. /\ pids' = {pid'[t] : t \in InUse'} \ {0}
        /\ \A t, u \in InUse' : pid'[t] = pid'[u] => t = u \/ pid'[t] = 0
        /\ \A t \in Live' : pid'[t] # 0
    BY <1>3, <1>4, <1>5, <2>1 DEF ProcessInv, ParentIsReal
  <2>3. ASSUME NEW t \in Live' \ {InitProc, MainThread, Idle}
        PROVE  \E p \in Live' : /\ pid'[p] = parent_pid'[t]
                                /\ p \in {maker'[t], InitProc}
                                /\ p # t
    <3>1. t \in Live /\ t # c /\ t \in Task
      BY <1>1, <1>3
    <3>2. PICK p \in Live : pid[p] = parent_pid[t] /\ p \in {maker[t], InitProc} /\ p # t
      BY <3>1 DEF ProcessInv, ParentIsReal
    <3>3. p # c
      BY <3>1, <3>2 DEF Children
    <3>4. maker'[t] = maker[t]
      BY <1>4, <3>1
    <3>5. QED
      BY <1>3, <1>5, <3>1, <3>2, <3>3, <3>4
  <2>4. QED
    BY <2>2, <2>3 DEF ParentIsReal
<1>9. WaiterHasNoZombie'
  <2>1. ASSUME NEW p \in Live' \ {InitProc}, sched'.status[p] = "WAITING"
        PROVE  HangingChildren(p)' = {}
    <3>1. p \in Live \ {c} /\ p # InitProc /\ sched.status[p] = "WAITING"
      BY <1>1, <1>3, <2>1
    <3>2. HangingChildren(p) = {}
      BY <3>1 DEF ProcessInv, WaiterHasNoZombie
    <3>3. ASSUME NEW x \in HangingChildren(p)'
          PROVE  FALSE
      <4>1. x \in Children(p) /\ x # c /\ x \in Live /\ sched'.status[x] = "HANGING"
        BY <1>6, <3>1, <3>3 DEF HangingChildren, Children
      <4>2. sched.status[x] = "HANGING"
        BY <1>1, <4>1
      <4>3. QED
        BY <3>2, <4>1, <4>2 DEF HangingChildren
    <3>4. QED
      BY <3>3
  <2>2. QED
    BY <2>1 DEF WaiterHasNoZombie
<1>10. BootOK'
  BY <1>1, <1>3, <1>4, <1>5, ProcessAssumption, TaskAssumption
  DEF ProcessInv, BootOK
<1>11. Childless'
  BY <1>1, <1>3, <1>6, ProcessAssumption DEF ProcessInv, Childless
<1>12. QED
  BY <1>7, <1>8, <1>9, <1>10, <1>11 DEF ProcessInv

-----------------------------------------------------------------------------
(* The actions.                                                            *)

LEMMA MainExitInv ==
  ASSUME ProcessInv, MainExit
  PROVE  ProcessInv'
<1> DEFINE d == [sched EXCEPT !.status = [sched.status EXCEPT ![MainThread] = "DIED"],
                              !.ready = sched.ready]
<1>1. /\ sched \in SchedType /\ SchedOK(sched) /\ sched.status \in [Task -> Status]
      /\ sched.cur = MainThread /\ MainThread \in Live /\ MainThread \in Task
      /\ Live \subseteq Task
  BY LiveFacts, ProcessAssumption DEF MainExit, At
<1>2. ~elem_find(sched.ready, MainThread)
  BY <1>1 DEF SchedOK
<1>3. sched' = schedule(d)
  BY <1>2 DEF MainExit, thread_exit
<1>4. /\ d \in SchedType /\ d.ready = sched.ready /\ d.cur = sched.cur
      /\ d.panic = sched.panic
      /\ d.status = [sched.status EXCEPT ![MainThread] = "DIED"]
  BY <1>1 DEF SchedType, Status
<1> HIDE DEF d
<1>5. MidOK(d)
  BY <1>1, <1>4, ProcessAssumption DEF MidOK, SchedOK
<1>6. sched' \in SchedType /\ SchedOK(sched') /\ WakesOnlyIdle(d, sched')
  BY <1>3, <1>4, <1>5, ScheduleOK
<1>7. /\ sched'.status[MainThread] = "DIED"
      /\ \A t \in Task \ {MainThread, Idle} :
           IF sched.status[t] \in {"RUNNING", "READY"}
             THEN sched'.status[t] \in {"RUNNING", "READY"}
             ELSE sched'.status[t] = sched.status[t]
  BY <1>1, <1>4, <1>6, ProcessAssumption DEF WakesOnlyIdle
<1>8. \A t \in Task \ {MainThread} :
        /\ sched'.status[t] = "DIED" <=> sched.status[t] = "DIED"
        /\ sched'.status[t] = "HANGING" => sched.status[t] = "HANGING"
        /\ sched'.status[t] = "WAITING" => sched.status[t] = "WAITING"
  BY <1>1, <1>6, <1>7 DEF SchedOK
<1>9. FreePcb(MainThread) /\ lost' = lost /\ pc' \in [Task -> {"user", "wait", "idle", "hlt"}]
  BY DEF MainExit, ProcessInv, SchedulerOK, TypeOK
<1>10. Children(MainThread) = {}
  BY <1>1 DEF ProcessInv, Childless
<1>11. QED
  BY <1>1, <1>6, <1>7, <1>8, <1>9, <1>10, FreeStep, ProcessAssumption

LEMMA ForkInv ==
  ASSUME ProcessInv, NEW t \in Task \ {Idle}, NEW c \in Task, sys_fork(t, c)
  PROVE  ProcessInv'
<1> DEFINE np == allocate_pid
<1>1. /\ sched \in SchedType /\ SchedOK(sched) /\ sched.status \in [Task -> Status]
      /\ sched.cur = t /\ t \in Live /\ c \notin InUse /\ c \notin Live
      /\ c # MainThread
      /\ t # MainThread /\ Live \subseteq Task /\ all \in Seq(Task)
      /\ sched.ready \in Seq(Task) /\ sched.ticks \in [Task -> Nat]
  BY LiveFacts DEF sys_fork, At, MayFork, SchedType, InUse
<1>2. /\ sched.status[c] = "DIED" /\ sched.status[t] = "RUNNING"
      /\ ~elem_find(sched.ready, c) /\ ~elem_find(all, c)
      /\ c \notin {InitProc, Idle, t}
  BY <1>1, LiveFacts, LiveFind DEF ProcessInv, SchedulerOK, SchedOK
<1>3. np \in PidRange /\ np \notin pids
  BY <1>1, AllocatePid
<1>4. /\ pid' = [pid EXCEPT ![c] = np] /\ pids' = pids \cup {np}
      /\ parent_pid' = [parent_pid EXCEPT ![c] = pid[t]]
      /\ exit_status' = [exit_status EXCEPT ![c] = exit_status[t]]
      /\ maker' = [maker EXCEPT ![c] = t]
      /\ all' = list_append(all, c) /\ pc' = [pc EXCEPT ![c] = "user"]
      /\ lost' = lost
  BY DEF sys_fork, copy_pcb_vaddrbitmap_stack0, Goto
<1> HIDE DEF np
<1>5. /\ sched'.ready = list_append(sched.ready, c)
      /\ sched'.status = [sched.status EXCEPT ![c] = "READY"]
      /\ sched'.cur = sched.cur /\ ~sched'.panic
      /\ sched' \in SchedType
  <2> DEFINE a == ASSERT(sched, ~elem_find(sched.ready, c) /\ ~elem_find(all, c))
  <2>1. a \in SchedType /\ ~a.panic /\ a.cur = sched.cur
    BY <1>1, <1>2 DEF ASSERT, SchedType, SchedOK
  <2>2. sched' = [a EXCEPT !.ready = list_append(sched.ready, c),
                           !.status = [sched.status EXCEPT ![c] = "READY"],
                           !.ticks = [sched.ticks EXCEPT ![c] = Prio[c]]]
    BY DEF sys_fork
  <2> HIDE DEF a
  <2>3. /\ list_append(sched.ready, c) \in Seq(Task)
        /\ [sched.status EXCEPT ![c] = "READY"] \in [Task -> Status]
        /\ [sched.ticks EXCEPT ![c] = Prio[c]] \in [Task -> Nat]
    BY <1>1, TaskAssumption DEF list_append, Status
  <2>4. QED
    BY <2>1, <2>2, <2>3 DEF SchedType
<1>6. SchedOK(sched')
  <2>1. /\ NoDuplicates(list_append(sched.ready, c))
        /\ \A u : elem_find(list_append(sched.ready, c), u)
                    <=> elem_find(sched.ready, u) \/ u = c
    BY <1>1, <1>2, AppendFind, AppendNoDuplicates DEF SchedOK
  <2>2. QED
    BY <1>1, <1>2, <1>5, <2>1, TaskAssumption DEF SchedOK
<1>7. /\ all' \in Seq(Task) /\ NoDuplicates(all')
      /\ Live' = Live \cup {c}
  <2>1. all' \in Seq(Task) /\ NoDuplicates(all')
    BY <1>1, <1>2, <1>4, AppendNoDuplicates DEF ProcessInv, SchedulerOK, list_append
  <2>2. \A u : u \in Live' <=> elem_find(all', u)
    BY <2>1 DEF Live, ToSet, elem_find
  <2>3. \A u : elem_find(all', u) <=> elem_find(all, u) \/ u = c
    BY <1>1, <1>4, AppendFind
  <2>4. QED
    BY <1>1, <2>1, <2>2, <2>3, LiveFind
<1>8. SchedulerOK'
  <2>1. TypeOK'
    <3>1. pid[t] \in PidRange
      BY <1>1, LiveFacts
    <3>2. QED
      BY <1>1, <1>3, <1>4, <1>5, <1>7, <3>1 DEF ProcessInv, SchedulerOK, TypeOK
  <2>2. \A u \in Task : u \notin Live' <=> sched'.status[u] = "DIED"
    BY <1>1, <1>5, <1>7 DEF ProcessInv, SchedulerOK
  <2>3. lost' \cap Live' = {}
    BY <1>1, <1>4, <1>7, LiveFacts DEF InUse
  <2>4. QED
    BY <1>6, <1>7, <2>1, <2>2, <2>3 DEF SchedulerOK
<1>9. /\ pid'[c] = np /\ parent_pid'[c] = pid[t] /\ maker'[c] = t
      /\ \A u \in Live : /\ pid'[u] = pid[u] /\ parent_pid'[u] = parent_pid[u]
                         /\ pid[u] \in pids /\ pid[u] # np
                         /\ parent_pid[u] # np
  <2>1. /\ pid \in [Task -> PidRange \cup {0}]
        /\ parent_pid \in [Task -> PidRange \cup {-1}]
        /\ -1 \notin PidRange /\ maker \in [Task -> Task]
    BY DEF ProcessInv, SchedulerOK, TypeOK, PidRange
  <2>2. QED
    BY <1>1, <1>3, <1>4, <2>1, LiveFacts
<1>10. /\ Children(c)' = {}
       /\ \A u \in Live : Children(u)' = Children(u) \cup (IF u = t THEN {c} ELSE {})
  <2>1. \A u \in Live : pid[u] = pid[t] => u = t
    BY <1>1, LiveFacts
  <2>2. Children(c)' = {x \in Live \cup {c} : parent_pid'[x] = np}
    BY <1>7, <1>9 DEF Children
  <2>3. Children(c)' = {}
    BY <1>1, <1>9, <2>2
  <2>4. ASSUME NEW u \in Live
        PROVE  Children(u)' = Children(u) \cup (IF u = t THEN {c} ELSE {})
    <3>1. Children(u)' = {x \in Live \cup {c} : parent_pid'[x] = pid[u]}
      BY <1>7, <1>9 DEF Children
    <3>2. QED
      BY <1>1, <1>9, <2>1, <3>1 DEF Children
  <2>5. QED
    BY <2>3, <2>4
<1>11. ParentIsReal'
  <2>1. /\ InUse' = InUse \cup {c}
        /\ \A u \in InUse : pid'[u] = pid[u] /\ (pid[u] = 0 \/ pid[u] \in pids)
    BY <1>1, <1>4, <1>7, LiveFacts
    DEF InUse, ProcessInv, SchedulerOK, TypeOK, ParentIsReal
  <2>2. /\ pids' = {pid'[u] : u \in InUse'} \ {0}
        /\ \A u, v \in InUse' : pid'[u] = pid'[v] => u = v \/ pid'[u] = 0
        /\ \A u \in Live' : pid'[u] # 0
    <3>1. np # 0
      BY <1>3 DEF PidRange
    <3>2. QED
      BY <1>3, <1>4, <1>7, <1>9, <2>1, <3>1 DEF ProcessInv, ParentIsReal
  <2>3. ASSUME NEW u \in Live' \ {InitProc, MainThread, Idle}
        PROVE  \E p \in Live' : /\ pid'[p] = parent_pid'[u]
                                /\ p \in {maker'[u], InitProc}
                                /\ p # u
    <3>1. CASE u = c
      BY <1>1, <1>2, <1>7, <1>9, <3>1
    <3>2. CASE u # c
      <4>1. u \in Live /\ u \in Task
        BY <1>1, <1>7, <3>2
      <4>2. PICK p \in Live : pid[p] = parent_pid[u] /\ p \in {maker[u], InitProc} /\ p # u
        BY <4>1 DEF ProcessInv, ParentIsReal
      <4>3. maker'[u] = maker[u]
        BY <1>4, <3>2, <4>1 DEF ProcessInv, SchedulerOK, TypeOK
      <4>4. QED
        BY <1>7, <1>9, <4>1, <4>2, <4>3
    <3>3. QED
      BY <3>1, <3>2
  <2>4. QED
    BY <2>2, <2>3 DEF ParentIsReal
<1>12. \A u \in Live : sched'.status[u] = sched.status[u] /\ u # c
  BY <1>1, <1>5
<1>13. sched'.status[c] = "READY"
  BY <1>1, <1>5
<1>14. WaiterHasNoZombie'
  <2>1. ASSUME NEW p \in Live' \ {InitProc}, sched'.status[p] = "WAITING"
        PROVE  HangingChildren(p)' = {}
    <3>1. p \in Live /\ p # t /\ HangingChildren(p) = {} /\ Children(p)' = Children(p)
      BY <1>2, <1>7, <1>10, <1>12, <1>13, <2>1 DEF ProcessInv, WaiterHasNoZombie
    <3>2. QED
      BY <1>12, <3>1 DEF HangingChildren, Children
  <2>2. QED
    BY <2>1 DEF WaiterHasNoZombie
<1>15. BootOK'
  <2>1. InitProc \in Live' /\ pid'[InitProc] = 1 /\ sched'.status[InitProc] # "HANGING"
    BY <1>7, <1>9, <1>12 DEF ProcessInv, BootOK
  <2>2. \A u \in {InitProc, MainThread, Idle} : u \in Task /\ u # c
    BY <1>1, <1>2, ProcessAssumption, TaskAssumption
  <2>3. \A u \in {InitProc, MainThread, Idle} : parent_pid'[u] = -1
    BY <1>4, <2>2 DEF ProcessInv, BootOK, SchedulerOK, TypeOK
  <2>4. QED
    BY <2>1, <2>3 DEF BootOK
<1>16. Childless'
  <2>1. ASSUME NEW u \in Live', sched'.status[u] = "HANGING"
        PROVE  Children(u)' = {}
    <3>1. u \in Live /\ u # t /\ Children(u) = {}
      BY <1>2, <1>7, <1>12, <1>13, <2>1 DEF ProcessInv, Childless
    <3>2. QED
      BY <1>10, <3>1
  <2>2. MainThread \in Live' => Children(MainThread)' = {}
    BY <1>1, <1>7, <1>10 DEF ProcessInv, Childless
  <2>3. QED
    BY <2>1, <2>2 DEF Childless
<1>17. QED
  BY <1>8, <1>11, <1>14, <1>15, <1>16 DEF ProcessInv

(* A fork that fails half way takes a page and perhaps a pid out of use    *)
(* and touches no process (fork.c copy_process, sys_fork).                 *)
LEMMA ForkFailsInv ==
  ASSUME ProcessInv, NEW t \in Task \ {Idle}, NEW c \in Task, ForkFails(t, c)
  PROVE  ProcessInv'
<1> DEFINE np == allocate_pid
<1>1. /\ c \notin InUse /\ c \notin Live /\ InUse \subseteq Task
      /\ lost' = lost \cup {c} /\ Live' = Live /\ InUse' = InUse \cup {c}
      /\ UNCHANGED <<sched, pc, all, parent_pid, exit_status, maker>>
  BY LiveFacts DEF ForkFails, InUse, Live
<1>2. np \in PidRange /\ np \notin pids /\ np # 0
  BY <1>1, AllocatePid DEF PidRange
<1>3. /\ pid \in [Task -> PidRange \cup {0}] /\ pids \subseteq PidRange
      /\ \/ pid' = [pid EXCEPT ![c] = 0] /\ pids' = pids
         \/ pid' = [pid EXCEPT ![c] = np] /\ pids' = pids \cup {np}
  BY DEF ForkFails, ProcessInv, SchedulerOK, TypeOK
<1> HIDE DEF np
<1>4. /\ \A u \in InUse : pid'[u] = pid[u] /\ (pid[u] = 0 \/ pid[u] \in pids)
      /\ \A u \in Live : pid'[u] = pid[u]
  <2>1. \A u \in InUse : pid[u] = 0 \/ pid[u] \in pids
    BY DEF ProcessInv, ParentIsReal
  <2>2. QED
    BY <1>1, <1>3, <2>1, LiveFacts
<1>5. \A u \in Live : Children(u)' = Children(u) /\ HangingChildren(u)' = HangingChildren(u)
  BY <1>1, <1>4 DEF Children, HangingChildren
<1>6. SchedulerOK'
  <2>1. TypeOK'
    BY <1>1, <1>2, <1>3 DEF ProcessInv, SchedulerOK, TypeOK
  <2>2. QED
    BY <1>1, <2>1, LiveFacts DEF ProcessInv, SchedulerOK
<1>7. ParentIsReal'
  <2>1. CASE pid' = [pid EXCEPT ![c] = 0] /\ pids' = pids
    <3>1. pid'[c] = 0
      BY <1>3, <2>1
    <3>2. QED
      BY <1>1, <1>4, <2>1, <3>1 DEF ProcessInv, ParentIsReal
  <2>2. CASE pid' = [pid EXCEPT ![c] = np] /\ pids' = pids \cup {np}
    <3>1. pid'[c] = np
      BY <1>3, <2>2
    <3>2. /\ pids' = {pid'[u] : u \in InUse'} \ {0}
          /\ \A u, v \in InUse' : pid'[u] = pid'[v] => u = v \/ pid'[u] = 0
          /\ \A u \in Live' : pid'[u] # 0
      BY <1>1, <1>2, <1>4, <2>2, <3>1 DEF ProcessInv, ParentIsReal
    <3>3. QED
      BY <1>1, <1>4, <3>2 DEF ProcessInv, ParentIsReal
  <2>3. QED
    BY <1>3, <2>1, <2>2
<1>8. WaiterHasNoZombie' /\ BootOK' /\ Childless'
  BY <1>1, <1>4, <1>5 DEF ProcessInv, WaiterHasNoZombie, BootOK, Childless
<1>9. QED
  BY <1>6, <1>7, <1>8 DEF ProcessInv

LEMMA WaitInv ==
  ASSUME ProcessInv, NEW t \in Task \ {Idle}, sys_wait(t)
  PROVE  ProcessInv'
<1>1. /\ sched \in SchedType /\ SchedOK(sched) /\ sched.status \in [Task -> Status]
      /\ sched.cur = t /\ t \in Live /\ Live \subseteq Task /\ all \in Seq(Task)
      /\ pc \in [Task -> {"user", "wait", "idle", "hlt"}]
  BY LiveFacts DEF sys_wait, At, ProcessInv, SchedulerOK, TypeOK
<1>2. CASE HangingChildren(t) # {}
  <2> DEFINE c == find_hanging_child(t)
  <2>1. c \in HangingChildren(t)
    BY <1>1, <1>2, FindHangingChild
  <2>2. /\ sched' = thread_exit(sched, c, FALSE) /\ FreePcb(c) /\ Goto(t, "user")
        /\ lost' = lost
    BY <1>2 DEF sys_wait, HangingChildren
  <2> HIDE DEF c
  <2>3. /\ c \in Live /\ c \in Task /\ parent_pid[c] = pid[t]
        /\ sched.status[c] = "HANGING"
    BY <1>1, <2>1 DEF HangingChildren, Children
  <2>4. c \notin {InitProc, Idle}
    BY <1>1, <2>3, LiveFacts DEF ProcessInv, BootOK
  <2>5. Children(c) = {}
    BY <2>3 DEF ProcessInv, Childless
  <2>6. /\ sched'.status = [sched.status EXCEPT ![c] = "DIED"]
        /\ sched'.ready = sched.ready /\ sched'.cur = sched.cur
        /\ sched'.panic = sched.panic /\ sched' \in SchedType
    <3>1. ~elem_find(sched.ready, c)
      BY <1>1, <2>3 DEF SchedOK
    <3>2. sched' = [sched EXCEPT !.status = [sched.status EXCEPT ![c] = "DIED"],
                                 !.ready = sched.ready]
      BY <2>2, <3>1 DEF thread_exit
    <3>3. [sched.status EXCEPT ![c] = "DIED"] \in [Task -> Status]
      BY <1>1 DEF Status
    <3>4. QED
      BY <1>1, <3>2, <3>3 DEF SchedType
  <2>7. SchedOK(sched')
    BY <1>1, <2>3, <2>4, <2>6, TaskAssumption DEF SchedOK
  <2>8. pc' \in [Task -> {"user", "wait", "idle", "hlt"}]
    BY <1>1, <2>2 DEF Goto
  <2>9. /\ sched'.status[c] = "DIED"
        /\ \A u \in Task \ {c} : sched'.status[u] = sched.status[u]
    BY <1>1, <2>3, <2>6
  <2>10. QED
    BY <2>2, <2>3, <2>4, <2>5, <2>6, <2>7, <2>8, <2>9, FreeStep
<1>3. CASE HangingChildren(t) = {} /\ Children(t) = {}
  <2>1. /\ UNCHANGED <<sched, all, pids, pcb_vars, lost, maker>>
        /\ pc' \in [Task -> {"user", "wait", "idle", "hlt"}]
    BY <1>1, <1>3 DEF sys_wait, Goto
  <2>2. QED
    BY <1>1, <2>1, SchedStep
<1>4. CASE HangingChildren(t) = {} /\ Children(t) # {}
  <2>1. /\ UNCHANGED <<all, pids, pcb_vars, lost, maker>>
        /\ sched' = thread_block(sched, "WAITING")
        /\ pc' \in [Task -> {"user", "wait", "idle", "hlt"}]
    BY <1>1, <1>4 DEF sys_wait, Goto
  <2>2. BlockedOnly(sched, sched', "WAITING")
    BY <1>1, <2>1, BlockChanges DEF Asleep
  <2>3. sched' \in SchedType /\ SchedOK(sched') /\ sched.status[t] = "RUNNING"
    BY <1>1, <2>2 DEF BlockedOnly, SchedOK
  <2>4. /\ sched'.status[t] = "WAITING"
        /\ \A u \in Task \ {t} : \A st \in {"WAITING", "HANGING", "DIED"} :
             sched'.status[u] = st <=> sched.status[u] = st
    BY <1>1, <2>2, BlockedOthers
  <2>5. \A u \in Task : sched'.status[u] = "DIED" <=> sched.status[u] = "DIED"
    BY <2>3, <2>4
  <2>6. \A u \in Task : sched'.status[u] = "HANGING" => sched.status[u] = "HANGING"
    BY <2>3, <2>4
  <2>7. \A u \in Task : sched'.status[u] = "WAITING" =>
                           sched.status[u] = "WAITING" \/ HangingChildren(u) = {}
    BY <1>4, <2>4
  <2>8. QED
    BY <2>1, <2>3, <2>5, <2>6, <2>7, SchedStep
<1>5. QED
  BY <1>2, <1>3, <1>4 DEF sys_wait

(* A sleep or wake-up outside sys_wait and sys_exit, and the timer.        *)
LEMMA OtherInv ==
  ASSUME ProcessInv,
         \/ \E t \in Task \ {Idle} : Sleep(t) \/ Wake(t)
         \/ Tick \/ IdleBlock
  PROVE  ProcessInv'
<1>1. /\ sched \in SchedType /\ SchedOK(sched) /\ sched.status \in [Task -> Status]
      /\ sched.cur \in Task /\ pc \in [Task -> {"user", "wait", "idle", "hlt"}]
  BY LiveFacts DEF ProcessInv, SchedulerOK, TypeOK, SchedType
<1>2. /\ UNCHANGED <<all, pcb_vars, pids, lost, maker>>
      /\ pc' \in [Task -> {"user", "wait", "idle", "hlt"}]
  BY <1>1, TaskAssumption DEF Sleep, Wake, Tick, IdleBlock, ResumeHlt, Goto
<1>3. ASSUME sched' \in SchedType, SchedOK(sched'),
             \A t \in Task \ {Idle} : \A st \in {"WAITING", "HANGING", "DIED"} :
               sched'.status[t] = st <=> sched.status[t] = st
      PROVE  ProcessInv'
  <2>1. \A t \in Task : \A st \in {"WAITING", "HANGING", "DIED"} :
          sched'.status[t] = st <=> sched.status[t] = st
    BY <1>1, <1>3 DEF SchedOK
  <2>2. QED
    BY <1>2, <1>3, <2>1, SchedStep
<1>4. ASSUME NEW t \in Task \ {Idle}, Sleep(t)
      PROVE  ProcessInv'
  <2>1. sched.cur = t /\ sched' = thread_block(sched, "BLOCKED")
    BY <1>4 DEF Sleep, At
  <2>2. BlockedOnly(sched, sched', "BLOCKED") /\ sched.status[t] = "RUNNING"
    BY <1>1, <2>1, BlockChanges DEF Asleep, SchedOK
  <2>3. /\ sched' \in SchedType /\ SchedOK(sched')
        /\ sched'.status[t] = "BLOCKED"
        /\ \A u \in Task \ {t} : \A st \in {"WAITING", "HANGING", "DIED"} :
             sched'.status[u] = st <=> sched.status[u] = st
    BY <1>1, <2>1, <2>2, BlockedOthers
  <2>4. QED
    BY <1>3, <2>2, <2>3
<1>5. ASSUME NEW t \in Task \ {Idle}, Wake(t)
      PROVE  ProcessInv'
  <2>1. sched.status[t] = "BLOCKED" /\ sched' = thread_unblock(sched, t)
    BY <1>5 DEF Wake
  <2>2. /\ sched' \in SchedType /\ SchedOK(sched')
        /\ sched'.status = [sched.status EXCEPT ![t] = "READY"]
    BY <1>1, <2>1, UnblockOK DEF Asleep
  <2>3. QED
    BY <1>1, <1>3, <2>1, <2>2
<1>6. ASSUME WakesOnlyIdle(sched, sched'), sched' \in SchedType, SchedOK(sched')
      PROVE  ProcessInv'
  <2>1. \A t \in Task \ {Idle} : \A st \in {"WAITING", "HANGING", "DIED"} :
          sched'.status[t] = st <=> sched.status[t] = st
    BY <1>6 DEF WakesOnlyIdle
  <2>2. QED
    BY <1>3, <1>6, <2>1
<1>7. ASSUME Tick
      PROVE  ProcessInv'
  BY <1>1, <1>6, <1>7, TickOK DEF Tick
<1>8. ASSUME IdleBlock
      PROVE  ProcessInv'
  <2> DEFINE m == [sched EXCEPT !.status = [sched.status EXCEPT ![sched.cur] = "BLOCKED"]]
  <2>1. sched' = thread_block(sched, "BLOCKED") /\ sched.cur = Idle
    BY <1>8 DEF IdleBlock, At
  <2>2. sched' \in SchedType /\ SchedOK(sched') /\ WakesOnlyIdle(m, sched')
    BY <1>1, <2>1, BlockOK DEF Asleep
  <2>3. m.status = [sched.status EXCEPT ![Idle] = "BLOCKED"]
    BY <1>1, <2>1 DEF SchedType
  <2> HIDE DEF m
  <2>4. WakesOnlyIdle(sched, sched')
    BY <1>1, <2>2, <2>3 DEF WakesOnlyIdle
  <2>5. QED
    BY <1>6, <2>2, <2>4
<1>9. QED
  BY <1>4, <1>5, <1>7, <1>8

LEMMA ExitInv ==
  ASSUME ProcessInv, NEW t \in Task \ {Idle}, NEW st \in ExitStatus, sys_exit(t, st)
  PROVE  ProcessInv'
<1>1. /\ sched \in SchedType /\ SchedOK(sched) /\ sched.status \in [Task -> Status]
      /\ sched.cur = t /\ t \in Live /\ Live \subseteq Task /\ InitProc \in Live
      /\ t \notin {InitProc, MainThread, Idle} /\ sched.status[t] = "RUNNING"
  BY LiveFacts DEF sys_exit, At, SchedOK
<1>2. PICK p \in Live : pid[p] = parent_pid[t] /\ p # t
  BY <1>1 DEF ProcessInv, ParentIsReal
<1>3. \A u, v \in Live : pid[u] = pid[v] => u = v
  BY LiveFacts
<1> DEFINE woken == IF sched.status[p] = "WAITING" THEN thread_unblock(sched, p) ELSE sched
<1>4. sched' = thread_block(woken, "HANGING")
  <2> DEFINE P == {u \in Live : pid[u] = parent_pid[t]}
  <2>1. P = {p}
    BY <1>2, <1>3
  <2>2. (CHOOSE u \in P : TRUE) = p /\ P # {} /\ parent_pid[t] # -1
    BY <1>2, <2>1, LiveFacts
  <2>3. QED
    BY <2>2 DEF sys_exit
<1>5. /\ woken \in SchedType /\ SchedOK(woken) /\ woken.cur = t
      /\ woken.status = IF sched.status[p] = "WAITING"
                          THEN [sched.status EXCEPT ![p] = "READY"] ELSE sched.status
  BY <1>1, <1>2, UnblockOK DEF Asleep
<1> HIDE DEF woken
<1>6. BlockedOnly(woken, sched', "HANGING")
  BY <1>4, <1>5, BlockChanges DEF Asleep
<1>7. /\ sched' \in SchedType /\ SchedOK(sched') /\ sched'.status[t] = "HANGING"
      /\ \A u \in Task \ {t} : \A x \in {"WAITING", "HANGING", "DIED"} :
           sched'.status[u] = x <=> woken.status[u] = x
  BY <1>5, <1>6, BlockedOthers
<1>8. /\ \A u \in Task : sched'.status[u] = "DIED" <=> sched.status[u] = "DIED"
      /\ \A u \in Task \ {t} : sched'.status[u] = "HANGING" => sched.status[u] = "HANGING"
      /\ \A u \in Task : sched'.status[u] = "WAITING" =>
                           sched.status[u] = "WAITING" /\ u # p /\ u # t
  BY <1>1, <1>2, <1>5, <1>7
<1>9. /\ all' = all /\ pid' = pid /\ pids' = pids /\ maker' = maker /\ pc' = pc
      /\ exit_status' = [exit_status EXCEPT ![t] = st]
      /\ parent_pid' = [c \in Task |-> IF c \in Children(t) THEN 1 ELSE parent_pid[c]]
      /\ Live' = Live /\ lost' = lost /\ InUse' = InUse
  BY DEF sys_exit, adopted, Live, InUse
<1>10. \A c \in Live : parent_pid'[c] = IF c \in Children(t) THEN pid[InitProc]
                                        ELSE parent_pid[c]
  BY <1>1, <1>9 DEF ProcessInv, BootOK
<1>11. t \notin Children(t)
  BY <1>2, <1>3, <1>1 DEF Children
(* Nobody but init has new children.                                       *)
<1>12. \A u \in Live \ {InitProc} : Children(u)' = Children(u) \ Children(t)
  <2>1. ASSUME NEW u \in Live \ {InitProc}, NEW c
        PROVE  c \in Children(u)' <=> c \in Children(u) \ Children(t)
    <3>1. c \in Children(u)' <=> c \in Live /\ parent_pid'[c] = pid[u]
      BY <1>9 DEF Children
    <3>2. pid[u] # pid[InitProc]
      BY <1>1, <1>3
    <3>3. QED
      BY <1>10, <3>1, <3>2 DEF Children
  <2>2. QED
    BY <2>1
<1>13. SchedulerOK'
  <2>1. TypeOK'
    BY <1>7, <1>9, LiveFacts DEF ProcessInv, SchedulerOK, TypeOK
  <2>2. QED
    BY <1>7, <1>8, <1>9, <2>1 DEF ProcessInv, SchedulerOK
<1>14. ParentIsReal'
  <2>1. ASSUME NEW u \in Live \ {InitProc, MainThread, Idle}
        PROVE  \E q \in Live : /\ pid[q] = parent_pid'[u]
                               /\ q \in {maker[u], InitProc}
                               /\ q # u
    BY <1>1, <1>10 DEF ProcessInv, ParentIsReal
  <2>2. QED
    BY <1>9, <2>1 DEF ProcessInv, ParentIsReal
<1>15. WaiterHasNoZombie'
  <2>1. ASSUME NEW q \in Live \ {InitProc}, sched'.status[q] = "WAITING",
               NEW c \in HangingChildren(q)'
        PROVE  FALSE
    <3>1. c \in Children(q) /\ c \in Live /\ sched'.status[c] = "HANGING"
      BY <1>12, <2>1 DEF HangingChildren, Children
    <3>2. sched.status[q] = "WAITING" /\ q # p /\ HangingChildren(q) = {}
      BY <1>1, <1>8, <2>1 DEF ProcessInv, WaiterHasNoZombie
    <3>3. c # t
      BY <1>2, <1>3, <3>1, <3>2 DEF Children
    <3>4. QED
      BY <1>1, <1>8, <3>1, <3>2, <3>3 DEF HangingChildren
  <2>2. QED
    BY <1>9, <2>1 DEF WaiterHasNoZombie
<1>16. BootOK'
  <2>1. \A u \in {InitProc, MainThread, Idle} : u \in Task /\ u \notin Children(t)
    BY <1>1, LiveFacts, ProcessAssumption, TaskAssumption DEF ProcessInv, BootOK, Children
  <2>2. \A u \in {InitProc, MainThread, Idle} : parent_pid'[u] = -1
    BY <1>9, <2>1 DEF ProcessInv, BootOK
  <2>3. QED
    BY <1>1, <1>8, <1>9, <2>2 DEF ProcessInv, BootOK
<1>17. Childless'
  <2>1. ASSUME NEW u \in Live, sched'.status[u] = "HANGING"
        PROVE  Children(u)' = {}
    <3>1. CASE u = t
      BY <1>1, <1>12, <3>1
    <3>2. CASE u # t
      <4>1. u # InitProc /\ Children(u) = {}
        BY <1>1, <1>8, <2>1, <3>2 DEF ProcessInv, Childless, BootOK
      <4>2. QED
        BY <1>12, <4>1
    <3>3. QED
      BY <3>1, <3>2
  <2>2. MainThread \in Live => Children(MainThread)' = {}
    BY <1>12, ProcessAssumption DEF ProcessInv, Childless
  <2>3. QED
    BY <1>9, <2>1, <2>2 DEF Childless
<1>18. QED
  BY <1>13, <1>14, <1>15, <1>16, <1>17 DEF ProcessInv

-----------------------------------------------------------------------------
(* There is a pid for each of the three boot tasks.                        *)
LEMMA ThreePids == {1, 2, 3} \subseteq PidRange
<1> DEFINE B == {InitProc} \cup {MainThread} \cup {Idle}
<1>1. IsFiniteSet({InitProc}) /\ Cardinality({InitProc}) = 1
  BY FS_Singleton
<1>2. /\ IsFiniteSet({InitProc} \cup {MainThread})
      /\ Cardinality({InitProc} \cup {MainThread}) = 2
  <2>1. MainThread \notin {InitProc}
    BY ProcessAssumption
  <2>2. QED
    BY <1>1, <2>1, FS_AddElement
<1>3. IsFiniteSet(B) /\ Cardinality(B) = 3
  <2>1. Idle \notin {InitProc} \cup {MainThread}
    BY ProcessAssumption
  <2>2. QED
    BY <1>2, <2>1, FS_AddElement
<1>4. B \in SUBSET Task
  BY ProcessAssumption, TaskAssumption
<1>5. Cardinality(Task) \in Nat /\ 3 <= Cardinality(Task)
  BY <1>3, <1>4, FS_Subset, FS_CardinalityType, ProcessAssumption
<1>6. QED
  BY <1>5 DEF PidRange

LEMMA ProcessInit == Init => ProcessInv
<1> SUFFICES ASSUME Init PROVE ProcessInv
  OBVIOUS
<1> DEFINE Boot == {InitProc, MainThread, Idle}
<1>1. /\ InitProc \in Task /\ MainThread \in Task /\ Idle \in Task
      /\ InitProc # MainThread /\ InitProc # Idle /\ MainThread # Idle
      /\ Prio \in [Task -> Nat]
  BY ProcessAssumption, TaskAssumption
<1>2. /\ all \in Seq(Task) /\ Len(all) = 3
      /\ all[1] = InitProc /\ all[2] = MainThread /\ all[3] = Idle
  BY <1>1 DEF Init
<1>3. Live = Boot /\ InUse = Boot /\ lost = {}
  <2>1. \A u : elem_find(all, u) <=> u \in Boot
    <3>1. 1 .. 3 = {1, 2, 3}
      OBVIOUS
    <3>2. QED
      BY <1>2, <3>1 DEF elem_find
  <2>2. QED
    BY <1>2, <2>1, LiveFind DEF Init, InUse
<1>4. NoDuplicates(all)
  BY <1>1, <1>2 DEF NoDuplicates
<1>5. /\ sched.cur = MainThread /\ sched.ready = <<InitProc, Idle>>
      /\ sched.ticks = Prio /\ ~sched.panic
      /\ sched.status \in [Task -> Status]
      /\ sched.status[MainThread] = "RUNNING" /\ sched.status[InitProc] = "READY"
      /\ sched.status[Idle] = "READY"
      /\ \A t \in Task \ Boot : sched.status[t] = "DIED"
      /\ sched \in SchedType
  BY <1>1 DEF Init, SchedType, Status
<1>6. /\ \A u : elem_find(sched.ready, u) <=> u \in {InitProc, Idle}
      /\ NoDuplicates(sched.ready)
  <2>1. 1 .. 2 = {1, 2} /\ Len(sched.ready) = 2
        /\ sched.ready[1] = InitProc /\ sched.ready[2] = Idle
    BY <1>5
  <2>2. QED
    BY <1>1, <2>1 DEF elem_find, NoDuplicates
<1>7. SchedOK(sched)
  BY <1>1, <1>5, <1>6 DEF SchedOK
<1>8. /\ pid \in [Task -> PidRange \cup {0}]
      /\ pid[InitProc] = 1 /\ pid[MainThread] = 2 /\ pid[Idle] = 3
  BY <1>1, ThreePids DEF Init
<1>9. /\ parent_pid = [t \in Task |-> -1] /\ pids = {1, 2, 3}
      /\ exit_status = [t \in Task |-> 0] /\ maker = [t \in Task |-> t]
      /\ pc \in [Task -> {"user", "wait", "idle", "hlt"}]
  BY DEF Init
<1>10. SchedulerOK
  <2>1. TypeOK
    BY <1>2, <1>3, <1>5, <1>8, <1>9, ThreePids DEF TypeOK
  <2>2. \A t \in Task : t \notin Live <=> sched.status[t] = "DIED"
    BY <1>3, <1>5
  <2>3. QED
    BY <1>3, <1>4, <1>7, <2>1, <2>2 DEF SchedulerOK
<1>11. ParentIsReal
  <2>1. pids = {pid[t] : t \in InUse} \ {0}
    BY <1>3, <1>8, <1>9
  <2>2. /\ \A t, u \in InUse : pid[t] = pid[u] => t = u \/ pid[t] = 0
        /\ \A t \in Live : pid[t] # 0
    BY <1>3, <1>8
  <2>3. Live \ Boot = {}
    BY <1>3
  <2>4. QED
    BY <2>1, <2>2, <2>3 DEF ParentIsReal
<1>12. \A t \in Live : Children(t) = {}
  <2>1. \A t \in Live : pid[t] \in {1, 2, 3}
    BY <1>3, <1>8
  <2>2. \A t \in Live : parent_pid[t] = -1
    BY <1>1, <1>3, <1>9
  <2>3. -1 \notin {1, 2, 3}
    OBVIOUS
  <2>4. QED
    BY <2>1, <2>2, <2>3 DEF Children
<1>13. WaiterHasNoZombie /\ Childless
  BY <1>12 DEF WaiterHasNoZombie, Childless, HangingChildren
<1>14. BootOK
  BY <1>1, <1>3, <1>5, <1>8, <1>9 DEF BootOK
<1>15. QED
  BY <1>10, <1>11, <1>13, <1>14 DEF ProcessInv

LEMMA ProcessNext == ProcessInv /\ [Next]_vars => ProcessInv'
<1> SUFFICES ASSUME ProcessInv, [Next]_vars PROVE ProcessInv'
  OBVIOUS
<1>1. CASE Next
  BY <1>1, ForkInv, ForkFailsInv, WaitInv, ExitInv, OtherInv, MainExitInv DEF Next, Syscall
<1>2. CASE UNCHANGED vars
  <2>1. UNCHANGED <<sched, pc, all, pcb_vars, pids, lost, maker>>
    BY <1>2 DEF vars
  <2>2. sched \in SchedType /\ SchedOK(sched)
        /\ pc \in [Task -> {"user", "wait", "idle", "hlt"}]
    BY DEF ProcessInv, SchedulerOK, TypeOK
  <2>3. QED
    BY <2>1, <2>2, SchedStep
<1>3. QED
  BY <1>1, <1>2

(* fork, wait and exit keep the process tables consistent.                 *)
THEOREM ProcessInvariant == Spec => []ProcessInv
BY ProcessInit, ProcessNext, PTL DEF Spec

(* No ASSERT of the scheduler, sys_fork or sys_exit ever fails, and a PCB  *)
(* is on thread_all_list exactly while it is in use, however many          *)
(* processes fork, wait and exit in whatever order.                        *)
THEOREM ProcessTablesOK == Spec => []SchedulerOK
<1>1. ProcessInv => SchedulerOK
  BY DEF ProcessInv
<1>2. QED
  BY <1>1, ProcessInvariant, PTL

(* Although release_pid makes pids available again, parent_pid always      *)
(* names the process that forked this one or init (fork.c, wait_exit.c).   *)
THEOREM ParentNeverStale == Spec => []ParentIsReal
<1>1. ProcessInv => ParentIsReal
  BY DEF ProcessInv
<1>2. QED
  BY <1>1, ProcessInvariant, PTL

(* No process but init sleeps in sys_wait while a zombie child of its own  *)
(* waits to be reaped (wait_exit.c sys_wait, sys_exit).                    *)
THEOREM NoExitMissed == Spec => []WaiterHasNoZombie
<1>1. ProcessInv => WaiterHasNoZombie
  BY DEF ProcessInv
<1>2. QED
  BY <1>1, ProcessInvariant, PTL
==============================================================================
