----------------------------- MODULE IdeProofs ------------------------------
(***************************************************************************)
(* Proofs about one IDE channel: a task moves only the data of its own     *)
(* commands, a call moves each sector of its range once and in order, no   *)
(* completion interrupt is lost and no ASSERT fires.                       *)
(***************************************************************************)
EXTENDS Ide, ThreadProofs

Engaged == {"down", "poll", "nap", "xfer"}
Locked == Engaged \cup {"cmd"}

InChannel(p) == {t \in Task : p[t] \in Locked}

-----------------------------------------------------------------------------
(* The scheduler and the channel lock: a task other than idle sleeps for   *)
(* the lock or on disk_done.                                               *)
ChannelInv(s, p, k) ==
  /\ s \in SchedType /\ SchedOK(s)
  /\ LockInv(s, k, Queueing(p), InChannel(p))
  /\ \A t \in Task : t = Idle <=> p[t] \in {"idle", "hlt"}
  /\ \A t \in Task \ {Idle} :
       \/ s.status[t] \in {"RUNNING", "READY"}
       \/ s.status[t] = "BLOCKED" /\ p[t] \in {"lock", "down"}

(* A passing ASSERT changes nothing.                                       *)
LEMMA AssertPasses ==
  ASSUME NEW s \in SchedType, NEW ok, ok
  PROVE  ASSERT(s, ok) = s
BY DEF ASSERT, SchedType

(* At most one task is between lock_acquire and lock_release.              *)
LEMMA OneInChannel ==
  ASSUME NEW s, NEW p, NEW k, ChannelInv(s, p, k),
         NEW t \in Task, p[t] \in Locked, NEW u \in Task, p[u] \in Locked
  PROVE  t = u
BY DEF ChannelInv, LockInv, InChannel

(* A task goes on inside the channel.                                      *)
LEMMA ChannelPlain ==
  ASSUME NEW s, NEW P, NEW p \in [Task -> P], NEW k, ChannelInv(s, p, k),
         NEW t \in Task \ {Idle}, s.cur = t, p[t] \in Locked,
         NEW label \in P, label \in Locked
  PROVE  ChannelInv(s, [p EXCEPT ![t] = label], k)
<1> DEFINE q == [p EXCEPT ![t] = label]
<1>1. q[t] = label /\ \A u \in Task \ {t} : q[u] = p[u]
  OBVIOUS
<1> HIDE DEF q
<1>2. Queueing(q) = Queueing(p) /\ InChannel(q) = InChannel(p)
  BY <1>1 DEF Queueing, InChannel, Locked, Engaged
<1>3. s.status[t] = "RUNNING"
  BY DEF ChannelInv, SchedOK
<1>4. QED
  BY <1>1, <1>2, <1>3 DEF ChannelInv, Locked, Engaged, q

(* A call begins.                                                          *)
LEMMA ChannelCalled ==
  ASSUME NEW s, NEW P, NEW p \in [Task -> P], NEW k, ChannelInv(s, p, k),
         NEW t \in Task \ {Idle}, s.cur = t, p[t] = "user"
  PROVE  ChannelInv(s, [p EXCEPT ![t] = "lock"], k)
<1> DEFINE q == [p EXCEPT ![t] = "lock"]
<1>1. q[t] = "lock" /\ \A u \in Task \ {t} : q[u] = p[u]
  OBVIOUS
<1> HIDE DEF q
<1>2. Queueing(q) = Queueing(p) \cup {t} /\ InChannel(q) = InChannel(p)
  BY <1>1 DEF Queueing, InChannel, Locked, Engaged
<1>3. s.status[t] = "RUNNING"
  BY DEF ChannelInv, SchedOK
<1>4. LockInv(s, k, Queueing(q), InChannel(q))
  BY <1>2, <1>3 DEF ChannelInv, LockInv
<1>5. QED
  BY <1>1, <1>3, <1>4 DEF ChannelInv, q

(* The lock is taken ...                                                   *)
LEMMA ChannelAcquired ==
  ASSUME NEW s, NEW P, NEW p \in [Task -> P], NEW k, ChannelInv(s, p, k),
         NEW t \in Task \ {Idle}, s.cur = t, p[t] = "lock", CanTake(k, t)
  PROVE  ChannelInv(s, [p EXCEPT ![t] = "cmd"], Take(k, t))
<1> DEFINE q == [p EXCEPT ![t] = "cmd"]
<1>1. q[t] = "cmd" /\ \A u \in Task \ {t} : q[u] = p[u]
  OBVIOUS
<1> HIDE DEF q
<1>2. /\ s \in SchedType /\ s.status[t] = "RUNNING"
      /\ LockInv(s, k, Queueing(p), InChannel(p))
  BY DEF ChannelInv, SchedOK
<1>3. t \notin InChannel(p)
  BY DEF InChannel, Locked, Engaged
<1>4. InChannel(p) = {} /\ LockInv(s, Take(k, t), Queueing(p) \ {t}, {t})
  BY <1>2, <1>3, LockAcquired
<1>5. Queueing(q) = Queueing(p) \ {t} /\ InChannel(q) = {t}
  BY <1>1, <1>4 DEF Queueing, InChannel, Locked
<1>6. QED
  BY <1>1, <1>2, <1>4, <1>5 DEF ChannelInv, q

(* ... at a moment when nobody else is in the channel.                     *)
LEMMA ChannelWasFree ==
  ASSUME NEW s, NEW p, NEW k, ChannelInv(s, p, k),
         NEW t \in Task \ {Idle}, s.cur = t, p[t] = "lock", CanTake(k, t)
  PROVE  \A u \in Task : p[u] \notin Locked
<1>1. /\ s \in SchedType /\ s.status[t] = "RUNNING"
      /\ LockInv(s, k, Queueing(p), InChannel(p)) /\ t \notin InChannel(p)
  BY DEF ChannelInv, SchedOK, InChannel, Locked, Engaged
<1>2. InChannel(p) = {}
  BY <1>1, LockAcquired
<1>3. QED
  BY <1>2 DEF InChannel

(* ... or the task sleeps for it.                                          *)
LEMMA ChannelQueued ==
  ASSUME NEW s, NEW p, NEW k, ChannelInv(s, p, k),
         NEW t \in Task \ {Idle}, s.cur = t, p[t] = "lock", ~CanTake(k, t)
  PROVE  ChannelInv(thread_block(s, "BLOCKED"), p, Enqueue(k, t))
<1> DEFINE n == thread_block(s, "BLOCKED")
<1>1. /\ s \in SchedType /\ SchedOK(s) /\ LockInv(s, k, Queueing(p), InChannel(p))
      /\ t \notin InChannel(p)
  BY DEF ChannelInv, InChannel, Locked, Engaged
<1>2. BlockedOnly(s, n, "BLOCKED")
  BY <1>1, BlockChanges DEF Asleep
<1> HIDE DEF n
<1>3. LockInv(n, Enqueue(k, t), Queueing(p) \cup {t}, InChannel(p))
  BY <1>1, <1>2, LockQueued
<1>4. Queueing(p) \cup {t} = Queueing(p)
  BY DEF Queueing
<1>5. /\ n \in SchedType /\ SchedOK(n) /\ n.status[t] = "BLOCKED"
      /\ \A u \in Task \ {t, Idle} : \A st \in Asleep \cup {"DIED"} :
           n.status[u] = st <=> s.status[u] = st
  BY <1>2 DEF BlockedOnly
<1>6. ASSUME NEW u \in Task \ {t, Idle}
      PROVE  \/ n.status[u] \in {"RUNNING", "READY"}
             \/ n.status[u] = "BLOCKED" /\ p[u] \in {"lock", "down"}
  <2>1. n.status[u] \in Status
    BY <1>5 DEF SchedType
  <2>2. QED
    BY <1>5, <2>1 DEF ChannelInv, Asleep, Status
<1>7. \A u \in Task : u = Idle <=> p[u] \in {"idle", "hlt"}
  BY DEF ChannelInv
<1>8. LockInv(n, Enqueue(k, t), Queueing(p), InChannel(p))
  BY <1>3, <1>4
<1>9. QED
  BY <1>5, <1>6, <1>7, <1>8 DEF ChannelInv, n

(* The holder sleeps on disk_done ...                                      *)
LEMMA ChannelSlept ==
  ASSUME NEW s, NEW p, NEW k, ChannelInv(s, p, k),
         NEW t \in Task \ {Idle}, s.cur = t, p[t] = "down"
  PROVE  /\ ChannelInv(thread_block(s, "BLOCKED"), p, k)
         /\ thread_block(s, "BLOCKED").status[t] = "BLOCKED"
<1> DEFINE n == thread_block(s, "BLOCKED")
<1>1. /\ s \in SchedType /\ SchedOK(s) /\ LockInv(s, k, Queueing(p), InChannel(p))
  BY DEF ChannelInv
<1>2. BlockedOnly(s, n, "BLOCKED")
  BY <1>1, BlockChanges DEF Asleep
<1> HIDE DEF n
<1>3. /\ n \in SchedType /\ SchedOK(n) /\ n.status[t] = "BLOCKED"
      /\ \A u \in Task \ {t, Idle} : \A st \in Asleep \cup {"DIED"} :
           n.status[u] = st <=> s.status[u] = st
  BY <1>2 DEF BlockedOnly
<1>4. ASSUME NEW u \in Task \ {t, Idle}
      PROVE  /\ n.status[u] = "BLOCKED" <=> s.status[u] = "BLOCKED"
             /\ n.status[u] \in {"RUNNING", "READY"} <=> s.status[u] \in {"RUNNING", "READY"}
  <2>1. n.status[u] \in Status /\ s.status[u] \in Status
    BY <1>1, <1>3 DEF SchedType
  <2>2. QED
    BY <1>3, <2>1 DEF Status, Asleep
<1>5. LockInv(n, k, Queueing(p), InChannel(p))
  <2>1. \A u \in Queueing(p) : u \in Task \ {t, Idle}
    BY <1>1 DEF LockInv, Queueing
  <2>2. QED
    BY <1>1, <1>4, <2>1, LockUntouched
<1>6. \A u \in Task \ {t, Idle} :
        \/ n.status[u] \in {"RUNNING", "READY"}
        \/ n.status[u] = "BLOCKED" /\ p[u] \in {"lock", "down"}
  BY <1>4 DEF ChannelInv
<1>7. \A u \in Task : u = Idle <=> p[u] \in {"idle", "hlt"}
  BY DEF ChannelInv
<1>8. QED
  BY <1>3, <1>5, <1>6, <1>7 DEF ChannelInv, n

(* ... and the interrupt handler wakes it.                                 *)
LEMMA ChannelWoken ==
  ASSUME NEW s, NEW p, NEW k, ChannelInv(s, p, k),
         NEW t \in Task, p[t] = "down", s.status[t] = "BLOCKED"
  PROVE  /\ ChannelInv(thread_unblock(s, t), p, k)
         /\ thread_unblock(s, t).status[t] = "READY"
<1> DEFINE n == thread_unblock(s, t)
<1>1. /\ s \in SchedType /\ SchedOK(s) /\ s.status \in [Task -> Status]
      /\ LockInv(s, k, Queueing(p), InChannel(p))
  BY DEF ChannelInv, SchedType
<1>2. /\ n \in SchedType /\ SchedOK(n) /\ n.cur = s.cur
      /\ n.status = [s.status EXCEPT ![t] = "READY"]
  BY <1>1, UnblockOK DEF Asleep
<1> HIDE DEF n
<1>3. n.status[t] = "READY" /\ \A u \in Task \ {t} : n.status[u] = s.status[u]
  BY <1>1, <1>2
<1>4. t \notin Queueing(p) /\ Queueing(p) \subseteq Task
  BY DEF Queueing
<1>5. LockInv(n, k, Queueing(p), InChannel(p))
  BY <1>1, <1>3, <1>4, LockUntouched
<1>6. ChannelInv(n, p, k)
  BY <1>2, <1>3, <1>5 DEF ChannelInv
<1>7. QED
  BY <1>3, <1>6 DEF n

(* The call ends.                                                          *)
LEMMA ChannelReleased ==
  ASSUME NEW s, NEW P, NEW p \in [Task -> P], NEW k, ChannelInv(s, p, k),
         NEW t \in Task \ {Idle}, s.cur = t, p[t] = "cmd"
  PROVE  ChannelInv(ReleaseSched(s, k, t), [p EXCEPT ![t] = "user"], Release(k))
<1> DEFINE q == [p EXCEPT ![t] = "user"]
           n == ReleaseSched(s, k, t)
<1>1. q[t] = "user" /\ \A u \in Task \ {t} : q[u] = p[u]
  OBVIOUS
<1> HIDE DEF q
<1>2. /\ s \in SchedType /\ SchedOK(s) /\ s.status[t] = "RUNNING"
      /\ LockInv(s, k, Queueing(p), InChannel(p)) /\ s.status \in [Task -> Status]
  BY DEF ChannelInv, SchedOK, SchedType
<1>3. t \in InChannel(p) /\ InChannel(p) = {t}
  BY <1>2 DEF LockInv, InChannel, Locked
<1>4. /\ n \in SchedType /\ SchedOK(n)
      /\ LockInv(n, Release(k), Queueing(p), {})
      /\ \/ n = s
         \/ \E x \in Queueing(p) : /\ s.status[x] = "BLOCKED"
                                   /\ n.status = [s.status EXCEPT ![x] = "READY"]
  BY <1>2, <1>3, LockReleased
<1> HIDE DEF n
<1>5. Queueing(q) = Queueing(p) /\ InChannel(q) = {}
  BY <1>1, <1>3 DEF Queueing, InChannel, Locked, Engaged
<1>6. ASSUME NEW u \in Task \ {Idle}
      PROVE  n.status[u] \in {"RUNNING", "READY"} \/ n.status[u] = s.status[u]
  BY <1>2, <1>4 DEF Queueing
<1>7. \A u \in Task \ {Idle} :
        \/ n.status[u] \in {"RUNNING", "READY"}
        \/ n.status[u] = "BLOCKED" /\ q[u] \in {"lock", "down"}
  BY <1>1, <1>2, <1>6 DEF ChannelInv
<1>8. \A u \in Task : u = Idle <=> q[u] \in {"idle", "hlt"}
  BY <1>1 DEF ChannelInv
<1>9. QED
  BY <1>4, <1>5, <1>7, <1>8 DEF ChannelInv, q, n

(* A timer tick, a yield, or idle going to sleep.                          *)
LEMMA ChannelSwitch ==
  ASSUME NEW s, NEW p, NEW k, ChannelInv(s, p, k),
         NEW n \in SchedType, SchedOK(n), WakesOnlyIdle(s, n),
         NEW q, q[Idle] \in {"idle", "hlt"}, \A t \in Task \ {Idle} : q[t] = p[t]
  PROVE  ChannelInv(n, q, k)
<1>1. Queueing(q) = Queueing(p) /\ InChannel(q) = InChannel(p)
  BY TaskAssumption DEF Queueing, InChannel, Locked, Engaged, ChannelInv
<1>2. \A t \in Task \ {Idle} :
        /\ n.status[t] = "BLOCKED" <=> s.status[t] = "BLOCKED"
        /\ s.status[t] \in {"READY", "RUNNING"} => n.status[t] \in {"READY", "RUNNING"}
  BY DEF ChannelInv, WakesOnlyIdle
<1>3. LockInv(s, k, Queueing(p), InChannel(p)) /\ Queueing(p) \subseteq Task \ {Idle}
  BY DEF ChannelInv, LockInv
<1>4. LockInv(n, k, Queueing(p), InChannel(p))
  BY <1>2, <1>3, LockUntouched
<1>5. QED
  BY <1>1, <1>2, <1>4, TaskAssumption DEF ChannelInv

-----------------------------------------------------------------------------
(* Calls: what has been moved for each.                                    *)

Requests == [op : {"read", "write"}, lba : Nat, cnt : 0 .. MaxCnt]

Sectors(lba, n) == [i \in 1 .. n |-> lba + i - 1]

(* A write has moved its chunk before it counts it, a read after.          *)
Progress(t) ==
  IF pc[t] = "down" /\ req[t].op = "write" THEN done[t] + secs_op(t) ELSE done[t]

CallTypes ==
  /\ pc \in [Task -> PC]
  /\ req \in [Task -> Requests]
  /\ done \in [Task -> 0 .. MaxCnt]
  /\ polls \in [Task -> 0 .. PollLimit]
  /\ moved \in [Task -> Seq(Nat)]

CallsOK ==
  \A t \in Task :
    /\ pc[t] = "lock" => done[t] = 0 /\ moved[t] = <<>>
    /\ pc[t] \in Locked => /\ done[t] <= req[t].cnt
                           /\ moved[t] = Sectors(req[t].lba, Progress(t))
    /\ pc[t] \in Engaged => done[t] < req[t].cnt

(* secs_op is what is left of the call, at most MaxOp, and the count       *)
(* register stands for it (ide.c select_sector).                           *)
LEMMA ChunkSize ==
  ASSUME NEW t \in Task, CallTypes, done[t] < req[t].cnt
  PROVE  /\ secs_op(t) \in Nat /\ secs_op(t) >= 1 /\ done[t] + secs_op(t) <= req[t].cnt
         /\ byte_count(secs_op(t)) = secs_op(t)
<1> DEFINE m == secs_op(t)
<1>1. done[t] \in 0 .. MaxCnt /\ req[t].cnt \in 0 .. MaxCnt
  BY DEF CallTypes, Requests
<1>2. m \in 1 .. MaxOp /\ done[t] + m <= req[t].cnt
  BY <1>1, IdeAssumption DEF secs_op
<1> HIDE DEF m
<1>3. byte_count(m) = m
  <2>1. MaxOp \in Nat \ {0}
    BY IdeAssumption
  <2>2. m \in Nat /\ m < MaxOp + MaxOp
    BY <1>2, <2>1
  <2>3. m % MaxOp = IF m < MaxOp THEN m ELSE m - MaxOp
    BY <2>1, <2>2, ModWrap
  <2>4. QED
    BY <1>2, <2>1, <2>3 DEF byte_count
<1>4. QED
  BY <1>2, <1>3, IdeAssumption DEF m

(* The sectors of a range, in order.                                       *)
LEMMA SectorsAre ==
  ASSUME NEW lba \in Nat, NEW n \in Nat
  PROVE  /\ Sectors(lba, n) \in Seq(Nat) /\ Len(Sectors(lba, n)) = n
         /\ \A i \in 1 .. n : Sectors(lba, n)[i] = lba + i - 1
BY DEF Sectors

(* Moving n more sectors after the first m.                                *)
LEMMA SectorsAdd ==
  ASSUME NEW lba \in Nat, NEW m \in Nat, NEW n \in Nat
  PROVE  /\ Sectors(lba, m) \o Sectors(lba + m, n) = Sectors(lba, m + n)
         /\ Sectors(lba, m) \in Seq(Nat)
<1> DEFINE a == Sectors(lba, m)
           b == Sectors(lba + m, n)
           c == Sectors(lba, m + n)
<1>1. /\ a \in Seq(Nat) /\ Len(a) = m /\ \A i \in 1 .. m : a[i] = lba + i - 1
  BY DEF Sectors
<1>2. /\ b \in Seq(Nat) /\ Len(b) = n /\ \A i \in 1 .. n : b[i] = (lba + m) + i - 1
  <2> DEFINE l == lba + m
  <2>1. l \in Nat
    OBVIOUS
  <2> HIDE DEF l
  <2>2. /\ Sectors(l, n) \in Seq(Nat) /\ Len(Sectors(l, n)) = n
        /\ \A i \in 1 .. n : Sectors(l, n)[i] = l + i - 1
    BY <2>1, SectorsAre
  <2>3. QED
    BY <2>2 DEF l
<1>3. /\ c \in Seq(Nat) /\ Len(c) = m + n /\ \A i \in 1 .. m + n : c[i] = lba + i - 1
  <2> DEFINE l == m + n
  <2>1. l \in Nat
    OBVIOUS
  <2> HIDE DEF l
  <2>2. /\ Sectors(lba, l) \in Seq(Nat) /\ Len(Sectors(lba, l)) = l
        /\ \A i \in 1 .. l : Sectors(lba, l)[i] = lba + i - 1
    BY <2>1, SectorsAre
  <2>3. QED
    BY <2>2 DEF l
<1> HIDE DEF a, b, c
<1>4. a \o b \in Seq(Nat) /\ Len(a \o b) = m + n
  <2>1. a \in Seq(Nat) /\ b \in Seq(Nat) /\ Len(a) = m /\ Len(b) = n
    BY <1>1, <1>2
  <2>2. QED
    BY <2>1
<1>5. ASSUME NEW i \in 1 .. m + n
      PROVE  (a \o b)[i] = c[i]
  <2>1. CASE i <= m
    <3>1. i \in 1 .. m /\ (a \o b)[i] = a[i]
      BY <1>1, <1>2, <2>1
    <3>2. QED
      BY <1>1, <1>3, <3>1
  <2>2. CASE ~(i <= m)
    <3>1. i - m \in 1 .. n /\ (a \o b)[i] = b[i - m]
      BY <1>1, <1>2, <2>2
    <3>2. b[i - m] = (lba + m) + (i - m) - 1
      BY <1>2, <3>1
    <3>3. QED
      BY <1>3, <3>1, <3>2
  <2>3. QED
    BY <2>1, <2>2
<1>6. a \o b = c
  BY <1>3, <1>4, <1>5, SeqsEqual
<1>7. QED
  BY <1>1, <1>6 DEF a, b, c

(* Nothing moved.                                                          *)
LEMMA NoSectors ==
  ASSUME NEW lba \in Nat
  PROVE  Sectors(lba, 0) = <<>>
<1>1. Sectors(lba, 0) \in Seq(Nat) /\ Len(Sectors(lba, 0)) = 0
  BY DEF Sectors
<1>2. QED
  BY <1>1

-----------------------------------------------------------------------------
(* The drive, the interrupt and disk_done.                                 *)

DiskTypes ==
  /\ disk \in [state : {"ready", "busy", "drq", "writing"}, op : {"read", "write"},
               lba : Nat, n : Nat]
  /\ doneval \in {0, 1}
  /\ expecting \in BOOLEAN /\ irq \in BOOLEAN /\ failed \in BOOLEAN

(* Nothing is under way.                                                   *)
Quiet ==
  /\ disk.state = "ready" /\ ~irq /\ ~expecting
  /\ doneval = 0 /\ donewait = <<>>

(* The drive works on the transfer of task t ...                           *)
Works(t) ==
  /\ disk.state = (IF req[t].op = "read" THEN "busy" ELSE "writing")
  /\ ~irq /\ expecting /\ doneval = 0

(* ... has raised its line ...                                             *)
Raised(t) ==
  /\ disk.state = (IF req[t].op = "read" THEN "drq" ELSE "ready")
  /\ irq /\ expecting /\ doneval = 0

(* ... and the handler has upped disk_done.                                *)
Upped(t) ==
  /\ disk.state = (IF req[t].op = "read" THEN "drq" ELSE "ready")
  /\ ~irq /\ ~expecting /\ doneval = 1 /\ donewait = <<>>

(* Task t polls the drive or moves data: a read after the interrupt, a     *)
(* write before it.                                                        *)
Polls(t) ==
  /\ ~irq /\ doneval = 0 /\ donewait = <<>>
  /\ IF req[t].op = "read"
       THEN disk.state = "drq" /\ ~expecting
       ELSE disk.state \in {"busy", "drq"} /\ expecting
  /\ pc[t] = "xfer" => disk.state = "drq"

(* Where the command of task t stands.                                     *)
Phase(t) ==
  /\ disk.op = req[t].op /\ disk.lba = req[t].lba + done[t]
  /\ disk.n = secs_op(t)
  /\ pc[t] = "down" =>
       /\ donewait = IF sched.status[t] = "BLOCKED" THEN <<t>> ELSE <<>>
       /\ Works(t) \/ Raised(t) \/ Upped(t)
  /\ pc[t] # "down" => Polls(t)

DriveOK ==
  /\ (\A t \in Task : pc[t] \notin Engaged) => Quiet
  /\ \A t \in Task : pc[t] \in Engaged => Phase(t)

IdeInv ==
  /\ CallTypes /\ DiskTypes
  /\ ChannelInv(sched, pc, lock) /\ CallsOK /\ DriveOK

(* Nothing is under way before the first call.                             *)
LEMMA IdeInit == Init => IdeInv
<1> SUFFICES ASSUME Init PROVE IdeInv
  OBVIOUS
<1>1. /\ sched \in SchedType /\ sched.cur = Main /\ sched.ready = InitReady
      /\ sched.status = [t \in Task |-> IF t = Main THEN "RUNNING" ELSE "READY"]
      /\ sched.panic = FALSE
  BY IdeAssumption, TaskAssumption DEF Init, SchedType, Status
<1>2. SchedOK(sched)
  BY <1>1, IdeAssumption, TaskAssumption DEF SchedOK
<1>3. pc \in [Task -> PC] /\ \A t \in Task : pc[t] = IF t = Idle THEN "idle" ELSE "user"
  BY DEF Init, PC
<1>4. Queueing(pc) = {} /\ InChannel(pc) = {}
  BY <1>3 DEF Queueing, InChannel, Locked, Engaged
<1>5. LockInv(sched, lock, {}, {})
  BY InitLock DEF Init
<1>6. ChannelInv(sched, pc, lock)
  BY <1>1, <1>2, <1>3, <1>4, <1>5 DEF ChannelInv
<1>7. CallTypes
  <2>1. NoReq \in Requests
    BY IdeAssumption DEF NoReq, Requests
  <2>2. <<>> \in Seq(Nat) /\ 0 \in 0 .. MaxCnt /\ 0 \in 0 .. PollLimit
    BY IdeAssumption
  <2>3. QED
    BY <1>3, <2>1, <2>2 DEF CallTypes, Init
<1>8. DiskTypes
  BY DEF DiskTypes, Init
<1>9. CallsOK
  BY <1>3 DEF CallsOK, Locked, Engaged
<1>10. DriveOK
  BY <1>3 DEF DriveOK, Quiet, Init, Engaged
<1>11. QED
  BY <1>6, <1>7, <1>8, <1>9, <1>10 DEF IdeInv

-----------------------------------------------------------------------------
(* One lemma per action.                                                   *)

(* A step that touches neither the drive nor disk_done nor the call that   *)
(* has a command under way.                                                *)
LEMMA DriveKept ==
  ASSUME DriveOK, UNCHANGED <<disk, irq, expecting, doneval, donewait>>,
         \A u \in Task : pc'[u] \in Engaged <=> pc[u] \in Engaged,
         \A u \in Task : pc[u] \in Engaged =>
           /\ pc'[u] = pc[u] /\ req'[u] = req[u] /\ done'[u] = done[u]
           /\ sched'.status[u] = "BLOCKED" <=> sched.status[u] = "BLOCKED"
  PROVE  DriveOK'
<1>1. (\A u \in Task : pc'[u] \notin Engaged) => Quiet'
  BY DEF DriveOK, Quiet
<1>2. ASSUME NEW u \in Task, pc'[u] \in Engaged
      PROVE  Phase(u)'
  <2>1. /\ Phase(u) /\ pc'[u] = pc[u] /\ req'[u] = req[u] /\ done'[u] = done[u]
        /\ sched'.status[u] = "BLOCKED" <=> sched.status[u] = "BLOCKED"
    BY <1>2 DEF DriveOK
  <2>2. QED
    BY <2>1 DEF Phase, Works, Raised, Upped, Polls, secs_op
<1>3. QED
  BY <1>1, <1>2 DEF DriveOK

(* A step of the task in the channel.                                      *)
LEMMA DriveStep ==
  ASSUME IdeInv, NEW t \in Task, pc[t] \in Locked,
         \A u \in Task \ {t} : pc'[u] = pc[u],
         pc'[t] \in Engaged => Phase(t)', pc'[t] \notin Engaged => Quiet'
  PROVE  DriveOK'
<1>1. \A u \in Task \ {t} : pc[u] \notin Locked
  BY OneInChannel DEF IdeInv
<1>2. \A u \in Task \ {t} : pc'[u] \notin Engaged
  BY <1>1 DEF Locked
<1>3. QED
  BY <1>2 DEF DriveOK

(* The calls of the other tasks.                                           *)
LEMMA CallsStep ==
  ASSUME CallsOK, NEW t \in Task,
         \A u \in Task \ {t} : /\ pc'[u] = pc[u] /\ req'[u] = req[u]
                               /\ done'[u] = done[u] /\ moved'[u] = moved[u],
         pc'[t] = "lock" => done'[t] = 0 /\ moved'[t] = <<>>,
         pc'[t] \in Locked => /\ done'[t] <= req'[t].cnt
                              /\ moved'[t] = Sectors(req'[t].lba, Progress(t)'),
         pc'[t] \in Engaged => done'[t] < req'[t].cnt
  PROVE  CallsOK'
<1>1. ASSUME NEW u \in Task \ {t}
      PROVE  Progress(u)' = Progress(u)
  BY DEF Progress, secs_op
<1>2. QED
  BY <1>1 DEF CallsOK

LEMMA RequestInv ==
  ASSUME IdeInv, NEW t \in Task \ {Idle},
         NEW r \in [op : Op, lba : Lba, cnt : 1 .. MaxCnt], Request(t, r)
  PROVE  IdeInv'
<1>1. /\ sched.cur = t /\ pc[t] = "user" /\ pc \in [Task -> PC]
      /\ ChannelInv(sched, pc, lock) /\ sched \in SchedType
  BY DEF Request, At, IdeInv, CallTypes, ChannelInv
<1>2. /\ req' = [req EXCEPT ![t] = r] /\ done' = [done EXCEPT ![t] = 0]
      /\ moved' = [moved EXCEPT ![t] = <<>>] /\ pc' = [pc EXCEPT ![t] = "lock"]
      /\ sched' = ASSERT(sched, r.cnt > 0)
      /\ UNCHANGED <<polls, lock, doneval, donewait, expecting, disk, irq, failed>>
  BY DEF Request, Goto, chan_vars, drive_vars
<1>3. r \in Requests /\ r.cnt > 0
  <2>1. /\ r = [op |-> r.op, lba |-> r.lba, cnt |-> r.cnt]
        /\ r.op \in Op /\ r.lba \in Lba /\ r.cnt \in 1 .. MaxCnt
    OBVIOUS
  <2>2. r.op \in {"read", "write"} /\ r.lba \in Nat /\ r.cnt \in 0 .. MaxCnt /\ r.cnt > 0
    <3>1. r.op \in {"read", "write"} /\ r.lba \in Nat
      BY <2>1, IdeAssumption
    <3>2. r.cnt \in 0 .. MaxCnt /\ r.cnt > 0
      BY <2>1, IdeAssumption
    <3>3. QED
      BY <3>1, <3>2
  <2>3. [op |-> r.op, lba |-> r.lba, cnt |-> r.cnt] \in Requests
    BY <2>2 DEF Requests
  <2>4. QED
    BY <2>1, <2>2, <2>3
<1>4. sched' = sched
  BY <1>1, <1>2, <1>3, AssertPasses
<1>5. ChannelInv(sched, [pc EXCEPT ![t] = "lock"], lock)
  BY <1>1, ChannelCalled
<1>6. ChannelInv(sched, pc, lock)'
  BY <1>2, <1>4, <1>5
<1>7. CallTypes'
  <2>1. 0 \in 0 .. MaxCnt /\ <<>> \in Seq(Nat) /\ "lock" \in PC
    BY IdeAssumption DEF PC
  <2>2. QED
    BY <1>2, <1>3, <2>1 DEF CallTypes, IdeInv
<1>8. /\ pc'[t] = "lock" /\ done'[t] = 0 /\ moved'[t] = <<>>
      /\ \A u \in Task \ {t} : /\ pc'[u] = pc[u] /\ req'[u] = req[u]
                               /\ done'[u] = done[u] /\ moved'[u] = moved[u]
  BY <1>1, <1>2 DEF IdeInv, CallTypes
<1>9. CallsOK'
  BY <1>8, CallsStep DEF IdeInv, Locked, Engaged
<1>10. DriveOK'
  BY <1>1, <1>2, <1>4, <1>8, DriveKept DEF IdeInv, Engaged
<1>11. DiskTypes'
  BY <1>2 DEF IdeInv, DiskTypes
<1>12. QED
  BY <1>6, <1>7, <1>9, <1>10, <1>11 DEF IdeInv

LEMMA LockChannelInv ==
  ASSUME IdeInv, NEW t \in Task \ {Idle}, LockChannel(t)
  PROVE  IdeInv'
<1>1. /\ sched.cur = t /\ pc[t] = "lock" /\ pc \in [Task -> PC]
      /\ ChannelInv(sched, pc, lock) /\ sched \in SchedType /\ SchedOK(sched)
  BY DEF LockChannel, At, IdeInv, CallTypes, ChannelInv
<1>2. /\ UNCHANGED <<req, done, moved, polls>>
      /\ UNCHANGED <<doneval, donewait, expecting, disk, irq, failed>>
  BY DEF LockChannel, task_vars, drive_vars
<1>3. DiskTypes'
  BY <1>2 DEF IdeInv, DiskTypes
<1>4. CASE CanTake(lock, t)
  <2>1. pc' = [pc EXCEPT ![t] = "cmd"] /\ lock' = Take(lock, t) /\ sched' = sched
    BY <1>4 DEF LockChannel, Goto
  <2>2. ChannelInv(sched, [pc EXCEPT ![t] = "cmd"], Take(lock, t))
    BY <1>1, <1>4, ChannelAcquired
  <2>3. ChannelInv(sched, pc, lock)'
    BY <2>1, <2>2
  <2>4. /\ pc' \in [Task -> PC] /\ pc'[t] = "cmd" /\ \A u \in Task \ {t} : pc'[u] = pc[u]
    BY <1>1, <2>1 DEF PC
  <2>5. CallTypes'
    BY <1>2, <2>4 DEF CallTypes, IdeInv
  <2>6. CallsOK'
    <3>1. /\ done[t] = 0 /\ moved[t] = <<>> /\ req[t].lba \in Nat /\ req[t].cnt \in Nat
      BY <1>1, IdeAssumption DEF IdeInv, CallsOK, CallTypes, Requests
    <3>2. Progress(t)' = 0
      BY <1>2, <2>4, <3>1 DEF Progress
    <3>3. moved'[t] = Sectors(req'[t].lba, Progress(t)')
      BY <1>2, <3>1, <3>2, NoSectors
    <3>4. done'[t] <= req'[t].cnt
      BY <1>2, <3>1
    <3>5. QED
      BY <1>2, <2>4, <3>3, <3>4, CallsStep DEF IdeInv, Locked, Engaged
  <2>7. DriveOK'
    <3>1. \A u \in Task : pc[u] \notin Locked
      BY <1>1, <1>4, ChannelWasFree
    <3>2. \A u \in Task : pc[u] \notin Engaged /\ pc'[u] \notin Engaged
      BY <2>4, <3>1 DEF Locked, Engaged
    <3>3. QED
      BY <1>2, <3>2 DEF IdeInv, DriveOK, Quiet
  <2>8. QED
    BY <1>3, <2>3, <2>5, <2>6, <2>7 DEF IdeInv
<1>5. CASE ~CanTake(lock, t)
  <2>1. pc' = pc /\ lock' = Enqueue(lock, t) /\ sched' = thread_block(sched, "BLOCKED")
    BY <1>5 DEF LockChannel
  <2>2. ChannelInv(thread_block(sched, "BLOCKED"), pc, Enqueue(lock, t))
    BY <1>1, <1>5, ChannelQueued
  <2>3. ChannelInv(sched, pc, lock)'
    BY <2>1, <2>2
  <2>4. CallTypes'
    BY <1>2, <2>1 DEF CallTypes, IdeInv
  <2>5. CallsOK'
    BY <1>2, <2>1 DEF IdeInv, CallsOK, Progress, secs_op
  <2>6. DriveOK'
    <3>1. BlockedOnly(sched, sched', "BLOCKED")
      BY <1>1, <2>1, BlockChanges DEF Asleep
    <3>2. ASSUME NEW u \in Task, pc[u] \in Engaged
          PROVE  sched'.status[u] = "BLOCKED" <=> sched.status[u] = "BLOCKED"
      <4>1. u # t /\ u # Idle
        BY <1>1, <3>2 DEF Engaged, ChannelInv
      <4>2. QED
        BY <1>1, <3>1, <4>1 DEF BlockedOnly, Asleep
    <3>3. QED
      BY <1>2, <2>1, <3>2, DriveKept DEF IdeInv
  <2>7. QED
    BY <1>3, <2>3, <2>4, <2>5, <2>6 DEF IdeInv
<1>6. QED
  BY <1>4, <1>5

(* While the task in the channel has no command under way, all is quiet.   *)
LEMMA QuietAtCmd ==
  ASSUME IdeInv, NEW t \in Task, pc[t] = "cmd"
  PROVE  Quiet
<1>1. \A u \in Task : pc[u] \notin Engaged
  BY OneInChannel DEF IdeInv, Locked, Engaged
<1>2. QED
  BY <1>1 DEF IdeInv, DriveOK

LEMMA CommandInv ==
  ASSUME IdeInv, NEW t \in Task \ {Idle}, Command(t)
  PROVE  IdeInv'
<1> DEFINE label == IF req[t].op = "read" THEN "down" ELSE "poll"
<1>1. /\ sched.cur = t /\ pc[t] = "cmd" /\ pc \in [Task -> PC] /\ done[t] < req[t].cnt
      /\ ChannelInv(sched, pc, lock) /\ CallTypes
  BY DEF Command, At, IdeInv, CallTypes
<1>2. /\ expecting' = TRUE /\ pc' = [pc EXCEPT ![t] = label]
      /\ disk' = [state |-> "busy", op |-> req[t].op, lba |-> req[t].lba + done[t],
                  n |-> byte_count(secs_op(t))]
      /\ polls' = IF req[t].op = "read" THEN polls ELSE [polls EXCEPT ![t] = PollLimit]
      /\ UNCHANGED <<sched, req, done, moved, lock, doneval, donewait, irq, failed>>
  BY DEF Command, Goto
<1>3. /\ label \in PC /\ label \in Locked /\ label \in Engaged /\ pc[t] \in Locked
      /\ label # "xfer" /\ (label = "down" <=> req[t].op = "read")
  BY <1>1 DEF PC, Locked, Engaged
<1> HIDE DEF label
<1>4. ChannelInv(sched, [pc EXCEPT ![t] = label], lock)
  BY <1>1, <1>3, ChannelPlain
<1>5. ChannelInv(sched, pc, lock)'
  BY <1>2, <1>4
<1>6. /\ pc' \in [Task -> PC] /\ pc'[t] = label /\ \A u \in Task \ {t} : pc'[u] = pc[u]
  BY <1>1, <1>2, <1>3
<1>7. polls' \in [Task -> 0 .. PollLimit]
  <2>1. PollLimit \in 0 .. PollLimit
    BY IdeAssumption
  <2>2. QED
    BY <1>1, <1>2, <2>1 DEF CallTypes
<1>8. CallTypes'
  BY <1>1, <1>2, <1>6, <1>7 DEF CallTypes
<1>9. /\ secs_op(t) \in Nat /\ byte_count(secs_op(t)) = secs_op(t)
  BY <1>1, ChunkSize
<1>10. req[t].lba \in Nat /\ done[t] \in Nat /\ req[t].op \in {"read", "write"}
  BY <1>1, IdeAssumption DEF CallTypes, Requests
<1>11. DiskTypes'
  <2>1. req[t].lba + done[t] \in Nat
    BY <1>10
  <2>2. QED
    BY <1>2, <1>9, <1>10, <2>1 DEF IdeInv, DiskTypes
<1>12. CallsOK'
  <2>1. Progress(t) = done[t] /\ Progress(t)' = done[t]
    BY <1>1, <1>2, <1>3, <1>6 DEF Progress
  <2>2. moved[t] = Sectors(req[t].lba, Progress(t))
    BY <1>3 DEF IdeInv, CallsOK
  <2>3. done[t] <= req[t].cnt
    BY <1>3 DEF IdeInv, CallsOK
  <2>4. CallsOK /\ pc'[t] # "lock"
    BY <1>3, <1>6 DEF IdeInv, Engaged
  <2>5. \A u \in Task \ {t} : /\ pc'[u] = pc[u] /\ req'[u] = req[u]
                              /\ done'[u] = done[u] /\ moved'[u] = moved[u]
    BY <1>2, <1>6
  <2>6. /\ done'[t] <= req'[t].cnt /\ done'[t] < req'[t].cnt
        /\ moved'[t] = Sectors(req'[t].lba, Progress(t)')
    BY <1>1, <1>2, <2>1, <2>2, <2>3
  <2>7. QED
    BY <2>4, <2>5, <2>6, CallsStep
<1>13. DriveOK'
  <2>1. Quiet /\ sched.status[t] = "RUNNING"
    BY <1>1, QuietAtCmd DEF ChannelInv, SchedOK
  <2>2. /\ disk'.op = req[t].op /\ disk'.lba = req[t].lba + done[t]
        /\ disk'.n = secs_op(t) /\ disk'.state = "busy"
    BY <1>2, <1>9
  <2>3. secs_op(t)' = secs_op(t)
    BY <1>2 DEF secs_op
  <2>4. Phase(t)'
    <3>1. CASE req[t].op = "read"
      BY <1>2, <1>3, <1>6, <2>1, <2>2, <2>3, <3>1 DEF Phase, Works, Quiet
    <3>2. CASE req[t].op # "read"
      <4>1. pc'[t] # "down" /\ pc'[t] # "xfer"
        BY <1>3, <1>6, <3>2
      <4>2. Polls(t)'
        BY <1>2, <2>1, <2>2, <3>2, <4>1 DEF Polls, Quiet
      <4>3. QED
        BY <1>2, <2>2, <2>3, <4>1, <4>2 DEF Phase
    <3>3. QED
      BY <3>1, <3>2
  <2>5. QED
    BY <1>3, <1>6, <2>4, DriveStep
<1>14. QED
  BY <1>5, <1>8, <1>11, <1>12, <1>13 DEF IdeInv

(* What the invariant says of the task that has a command under way.       *)
LEMMA EngagedFacts ==
  ASSUME IdeInv, NEW t \in Task, pc[t] \in Engaged
  PROVE  /\ Phase(t) /\ CallTypes /\ pc[t] \in Locked /\ done[t] < req[t].cnt
         /\ moved[t] = Sectors(req[t].lba, Progress(t))
         /\ req[t].lba \in Nat /\ done[t] \in Nat /\ req[t].cnt \in 0 .. MaxCnt
         /\ req[t].op \in {"read", "write"}
         /\ secs_op(t) \in Nat /\ done[t] + secs_op(t) <= req[t].cnt
         /\ byte_count(secs_op(t)) = secs_op(t)
<1>1. /\ Phase(t) /\ CallTypes /\ pc[t] \in Locked /\ done[t] < req[t].cnt
      /\ moved[t] = Sectors(req[t].lba, Progress(t))
  BY DEF IdeInv, DriveOK, CallsOK, Locked
<1>2. /\ req[t].lba \in Nat /\ req[t].cnt \in 0 .. MaxCnt /\ done[t] \in Nat
      /\ req[t].op \in {"read", "write"}
  BY <1>1, IdeAssumption DEF CallTypes, Requests
<1>3. /\ secs_op(t) \in Nat /\ done[t] + secs_op(t) <= req[t].cnt
      /\ byte_count(secs_op(t)) = secs_op(t)
  BY <1>1, ChunkSize
<1>4. QED
  BY <1>1, <1>2, <1>3

LEMMA AwaitDiskInv ==
  ASSUME IdeInv, NEW t \in Task \ {Idle}, AwaitDisk(t)
  PROVE  IdeInv'
<1>1. /\ sched.cur = t /\ pc[t] = "down" /\ pc \in [Task -> PC]
      /\ ChannelInv(sched, pc, lock) /\ sched \in SchedType /\ SchedOK(sched)
      /\ sched.status[t] = "RUNNING"
  BY DEF AwaitDisk, At, IdeInv, CallTypes, ChannelInv, SchedOK
<1>2. pc[t] \in Engaged /\ pc[t] \in Locked
  BY <1>1 DEF Engaged, Locked
<1>3. /\ Phase(t) /\ CallTypes /\ done[t] < req[t].cnt
      /\ moved[t] = Sectors(req[t].lba, Progress(t))
      /\ req[t].lba \in Nat /\ done[t] \in Nat /\ req[t].cnt \in 0 .. MaxCnt
      /\ secs_op(t) \in Nat /\ done[t] + secs_op(t) <= req[t].cnt
  BY <1>2, EngagedFacts
<1>4. UNCHANGED <<req, moved, lock, expecting, disk, irq, failed>>
  BY DEF AwaitDisk, drive_vars
<1>5. donewait = <<>> /\ (Works(t) \/ Raised(t) \/ Upped(t))
  BY <1>1, <1>3 DEF Phase
<1>6. CASE doneval = 0
  <2>1. /\ donewait' = list_append(donewait, t) /\ sched' = thread_block(sched, "BLOCKED")
        /\ UNCHANGED <<pc, done, polls, doneval>>
    BY <1>6 DEF AwaitDisk
  <2>2. /\ ChannelInv(thread_block(sched, "BLOCKED"), pc, lock)
        /\ thread_block(sched, "BLOCKED").status[t] = "BLOCKED"
    BY <1>1, ChannelSlept
  <2>3. ChannelInv(sched, pc, lock)' /\ sched'.status[t] = "BLOCKED"
    BY <1>4, <2>1, <2>2
  <2>4. CallTypes' /\ CallsOK'
    BY <1>4, <2>1 DEF IdeInv, CallTypes, CallsOK, Progress, secs_op
  <2>5. DiskTypes'
    BY <1>4, <2>1 DEF IdeInv, DiskTypes
  <2>6. donewait' = <<t>>
    BY <1>5, <2>1 DEF list_append
  <2>7. Works(t)' \/ Raised(t)'
    BY <1>4, <1>5, <1>6, <2>1 DEF Works, Raised, Upped
  <2>8. Phase(t)'
    BY <1>1, <1>3, <1>4, <2>1, <2>3, <2>6, <2>7 DEF Phase, secs_op
  <2>9. DriveOK'
    BY <1>2, <2>1, <2>8, DriveStep
  <2>10. QED
    BY <2>3, <2>4, <2>5, <2>9 DEF IdeInv
<1>7. CASE doneval # 0
  <2>1. Upped(t)
    BY <1>5, <1>7 DEF Works, Raised
  <2>2. /\ doneval' = 0 /\ sched' = ASSERT(sched, doneval - 1 = 0) /\ doneval - 1 = 0
        /\ donewait' = donewait
    BY <1>7, <2>1 DEF AwaitDisk, Upped
  <2>3. sched' = sched
    BY <1>1, <2>2, AssertPasses
  <2>4. DiskTypes'
    BY <1>4, <2>2 DEF IdeInv, DiskTypes
  <2>5. CASE req[t].op = "read"
    <3>1. /\ pc' = [pc EXCEPT ![t] = "poll"] /\ polls' = [polls EXCEPT ![t] = PollLimit]
          /\ done' = done
      BY <1>7, <2>5 DEF AwaitDisk, Goto
    <3>2. ChannelInv(sched, [pc EXCEPT ![t] = "poll"], lock)
      <4>1. "poll" \in PC /\ "poll" \in Locked
        BY DEF PC, Locked, Engaged
      <4>2. QED
        BY <1>1, <1>2, <4>1, ChannelPlain
    <3>3. ChannelInv(sched, pc, lock)'
      BY <1>4, <2>3, <3>1, <3>2
    <3>4. /\ pc' \in [Task -> PC] /\ pc'[t] = "poll" /\ \A u \in Task \ {t} : pc'[u] = pc[u]
      BY <1>1, <3>1 DEF PC
    <3>5. CallTypes'
      <4>1. PollLimit \in 0 .. PollLimit
        BY IdeAssumption
      <4>2. QED
        BY <1>3, <1>4, <3>1, <3>4, <4>1 DEF CallTypes
    <3>6. CallsOK'
      <4>1. Progress(t) = done[t] /\ Progress(t)' = done[t]
        BY <1>4, <2>5, <3>1, <3>4 DEF Progress
      <4>2. /\ done'[t] <= req'[t].cnt /\ done'[t] < req'[t].cnt
            /\ moved'[t] = Sectors(req'[t].lba, Progress(t)')
        BY <1>3, <1>4, <3>1, <4>1
      <4>3. \A u \in Task \ {t} : /\ pc'[u] = pc[u] /\ req'[u] = req[u]
                                  /\ done'[u] = done[u] /\ moved'[u] = moved[u]
        BY <1>4, <3>1, <3>4
      <4>4. CallsOK /\ pc'[t] # "lock"
        BY <3>4 DEF IdeInv
      <4>5. QED
        BY <4>2, <4>3, <4>4, CallsStep
    <3>7. Phase(t)'
      <4>1. Polls(t)'
        BY <1>4, <2>1, <2>2, <2>5, <3>4 DEF Polls, Upped
      <4>2. QED
        BY <1>3, <1>4, <3>1, <3>4, <4>1 DEF Phase, secs_op
    <3>8. DriveOK'
      BY <1>2, <3>4, <3>7, DriveStep DEF Engaged
    <3>9. QED
      BY <2>4, <3>3, <3>5, <3>6, <3>8 DEF IdeInv
  <2>6. CASE req[t].op # "read"
    <3>1. /\ pc' = [pc EXCEPT ![t] = "cmd"] /\ done' = [done EXCEPT ![t] = done[t] + secs_op(t)]
          /\ polls' = polls
      BY <1>7, <2>6 DEF AwaitDisk, Goto
    <3>2. ChannelInv(sched, [pc EXCEPT ![t] = "cmd"], lock)
      <4>1. "cmd" \in PC /\ "cmd" \in Locked
        BY DEF PC, Locked
      <4>2. QED
        BY <1>1, <1>2, <4>1, ChannelPlain
    <3>3. ChannelInv(sched, pc, lock)'
      BY <1>4, <2>3, <3>1, <3>2
    <3>4. /\ pc' \in [Task -> PC] /\ pc'[t] = "cmd" /\ \A u \in Task \ {t} : pc'[u] = pc[u]
      BY <1>1, <3>1 DEF PC
    <3>5. /\ done' \in [Task -> 0 .. MaxCnt] /\ done'[t] = done[t] + secs_op(t)
          /\ \A u \in Task \ {t} : done'[u] = done[u]
      <4>1. done[t] + secs_op(t) \in 0 .. MaxCnt
        BY <1>3, IdeAssumption
      <4>2. QED
        BY <1>3, <3>1, <4>1 DEF CallTypes
    <3>6. CallTypes'
      BY <1>3, <1>4, <3>1, <3>4, <3>5 DEF CallTypes
    <3>7. CallsOK'
      <4>1. req[t].op = "write"
        BY <1>2, <2>6, EngagedFacts
      <4>2. Progress(t) = done[t] + secs_op(t) /\ Progress(t)' = done'[t]
        BY <1>1, <3>4, <4>1 DEF Progress
      <4>3. /\ done'[t] <= req'[t].cnt
            /\ moved'[t] = Sectors(req'[t].lba, Progress(t)')
        BY <1>3, <1>4, <3>5, <4>2
      <4>4. \A u \in Task \ {t} : /\ pc'[u] = pc[u] /\ req'[u] = req[u]
                                  /\ done'[u] = done[u] /\ moved'[u] = moved[u]
        BY <1>4, <3>4, <3>5
      <4>5. CallsOK /\ pc'[t] # "lock" /\ pc'[t] \notin Engaged
        BY <3>4 DEF IdeInv, Engaged
      <4>6. QED
        BY <4>3, <4>4, <4>5, CallsStep
    <3>8. Quiet'
      BY <1>4, <2>1, <2>2, <2>6 DEF Quiet, Upped
    <3>9. DriveOK'
      BY <1>2, <3>4, <3>8, DriveStep DEF Engaged
    <3>10. QED
      BY <2>4, <3>3, <3>6, <3>7, <3>9 DEF IdeInv
  <2>7. QED
    BY <2>5, <2>6
<1>8. QED
  BY <1>6, <1>7

LEMMA PollInv ==
  ASSUME IdeInv, NEW t \in Task \ {Idle}, Poll(t)
  PROVE  IdeInv'
<1>1. /\ sched.cur = t /\ pc[t] = "poll" /\ pc \in [Task -> PC]
      /\ ChannelInv(sched, pc, lock)
  BY DEF Poll, At, IdeInv, CallTypes
<1>2. /\ pc[t] \in Engaged /\ pc[t] \in Locked
  BY <1>1 DEF Engaged, Locked
<1>3. /\ Phase(t) /\ CallTypes /\ done[t] < req[t].cnt
      /\ moved[t] = Sectors(req[t].lba, Progress(t))
      /\ done[t] \in Nat /\ req[t].cnt \in 0 .. MaxCnt
  BY <1>2, EngagedFacts
<1>4. UNCHANGED <<sched, req, done, moved, lock, doneval, donewait, expecting, disk, irq>>
  BY DEF Poll, chan_vars, drive_vars
<1>5. CASE failed' = TRUE /\ UNCHANGED <<pc, polls>>
  <2>1. CallTypes' /\ CallsOK'
    BY <1>4, <1>5 DEF IdeInv, CallTypes, CallsOK, Progress, secs_op
  <2>2. DiskTypes'
    BY <1>4, <1>5 DEF IdeInv, DiskTypes
  <2>3. DriveOK'
    BY <1>4, <1>5, DriveKept DEF IdeInv
  <2>4. ChannelInv(sched, pc, lock)'
    BY <1>1, <1>4, <1>5
  <2>5. QED
    BY <2>1, <2>2, <2>3, <2>4 DEF IdeInv
<1>6. ASSUME NEW label \in {"nap", "xfer"}, pc' = [pc EXCEPT ![t] = label], failed' = failed,
             polls' \in [Task -> 0 .. PollLimit], label = "xfer" => disk.state = "drq"
      PROVE  IdeInv'
  <2>1. label \in PC /\ label \in Locked /\ label \in Engaged /\ label # "down"
    BY DEF PC, Locked, Engaged
  <2>2. ChannelInv(sched, [pc EXCEPT ![t] = label], lock)
    BY <1>1, <1>2, <2>1, ChannelPlain
  <2>3. ChannelInv(sched, pc, lock)'
    BY <1>4, <1>6, <2>2
  <2>4. /\ pc' \in [Task -> PC] /\ pc'[t] = label /\ \A u \in Task \ {t} : pc'[u] = pc[u]
    BY <1>1, <1>6, <2>1
  <2>5. CallTypes'
    BY <1>3, <1>4, <1>6, <2>4 DEF CallTypes
  <2>6. DiskTypes'
    BY <1>4, <1>6 DEF IdeInv, DiskTypes
  <2>7. CallsOK'
    <3>1. Progress(t) = done[t] /\ Progress(t)' = done[t]
      BY <1>1, <1>4, <2>1, <2>4 DEF Progress
    <3>2. /\ done'[t] <= req'[t].cnt /\ done'[t] < req'[t].cnt
          /\ moved'[t] = Sectors(req'[t].lba, Progress(t)')
      BY <1>3, <1>4, <3>1
    <3>3. \A u \in Task \ {t} : /\ pc'[u] = pc[u] /\ req'[u] = req[u]
                                /\ done'[u] = done[u] /\ moved'[u] = moved[u]
      BY <1>4, <2>4
    <3>4. CallsOK /\ pc'[t] # "lock"
      BY <2>4 DEF IdeInv
    <3>5. QED
      BY <3>2, <3>3, <3>4, CallsStep
  <2>8. Phase(t)'
    <3>1. Polls(t)
      BY <1>1, <1>3 DEF Phase
    <3>2. Polls(t)'
      BY <1>4, <1>6, <2>4, <3>1 DEF Polls
    <3>3. QED
      BY <1>3, <1>4, <2>1, <2>4, <3>2 DEF Phase, secs_op
  <2>9. DriveOK'
    BY <1>2, <2>1, <2>4, <2>8, DriveStep
  <2>10. QED
    BY <2>3, <2>5, <2>6, <2>7, <2>9 DEF IdeInv
<1>7. \/ failed' = TRUE /\ UNCHANGED <<pc, polls>>
      \/ /\ polls[t] > 0 /\ polls' = [polls EXCEPT ![t] = polls[t] - 1]
         /\ pc' = [pc EXCEPT ![t] = "nap"] /\ failed' = failed
      \/ /\ disk.state = "drq" /\ polls' = polls
         /\ pc' = [pc EXCEPT ![t] = "xfer"] /\ failed' = failed
  BY DEF Poll, Goto
<1>8. CASE /\ polls[t] > 0 /\ polls' = [polls EXCEPT ![t] = polls[t] - 1]
           /\ pc' = [pc EXCEPT ![t] = "nap"] /\ failed' = failed
  <2>1. polls[t] \in 0 .. PollLimit /\ polls \in [Task -> 0 .. PollLimit]
    BY <1>3 DEF CallTypes
  <2>2. polls[t] - 1 \in 0 .. PollLimit
    BY <1>8, <2>1, IdeAssumption
  <2>3. polls' \in [Task -> 0 .. PollLimit]
    BY <1>8, <2>1, <2>2
  <2>4. QED
    BY <1>6, <1>8, <2>3
<1>9. CASE /\ disk.state = "drq" /\ polls' = polls
           /\ pc' = [pc EXCEPT ![t] = "xfer"] /\ failed' = failed
  <2>1. polls' \in [Task -> 0 .. PollLimit]
    BY <1>3, <1>9 DEF CallTypes
  <2>2. QED
    BY <1>6, <1>9, <2>1
<1>10. QED
  BY <1>5, <1>7, <1>8, <1>9

(* A step that switches tasks and touches nothing else but idle's label.   *)
LEMMA SwitchInv ==
  ASSUME IdeInv, UNCHANGED <<req, done, polls, moved, lock, doneval, donewait>>,
         UNCHANGED <<expecting, disk, irq, failed>>,
         sched' \in SchedType, SchedOK(sched'), WakesOnlyIdle(sched, sched'),
         pc' \in [Task -> PC], pc'[Idle] \in {"idle", "hlt"},
         \A u \in Task \ {Idle} : pc'[u] = pc[u]
  PROVE  IdeInv'
<1>1. ChannelInv(sched, pc, lock)
  BY DEF IdeInv
<1>2. ChannelInv(sched', pc', lock)
  BY <1>1, ChannelSwitch
<1>3. ChannelInv(sched, pc, lock)'
  BY <1>2
<1>4. /\ pc[Idle] \in {"idle", "hlt"}
      /\ \A u \in Task : u = Idle \/ pc'[u] = pc[u]
  BY <1>1, TaskAssumption DEF ChannelInv
<1>5. CallTypes' /\ DiskTypes'
  BY DEF IdeInv, CallTypes, DiskTypes
<1>6. CallsOK'
  <2>1. ASSUME NEW u \in Task \ {Idle}
        PROVE  Progress(u)' = Progress(u)
    BY DEF Progress, secs_op
  <2>2. pc'[Idle] # "lock" /\ pc'[Idle] \notin Locked /\ pc'[Idle] \notin Engaged
    BY DEF Locked, Engaged
  <2>3. QED
    BY <2>1, <2>2 DEF IdeInv, CallsOK
<1>7. DriveOK'
  <2>1. \A u \in Task : pc'[u] \in Engaged <=> pc[u] \in Engaged
    BY <1>4 DEF Engaged
  <2>2. ASSUME NEW u \in Task, pc[u] \in Engaged
        PROVE  /\ pc'[u] = pc[u] /\ req'[u] = req[u] /\ done'[u] = done[u]
               /\ sched'.status[u] = "BLOCKED" <=> sched.status[u] = "BLOCKED"
    <3>1. u # Idle
      BY <1>4, <2>2 DEF Engaged
    <3>2. QED
      BY <3>1 DEF WakesOnlyIdle
  <2>3. QED
    BY <2>1, <2>2, DriveKept DEF IdeInv
<1>8. QED
  BY <1>3, <1>5, <1>6, <1>7 DEF IdeInv

LEMMA NapInv ==
  ASSUME IdeInv, NEW t \in Task \ {Idle}, Nap(t)
  PROVE  IdeInv'
<1>1. /\ sched.cur = t /\ pc[t] = "nap" /\ pc \in [Task -> PC]
      /\ ChannelInv(sched, pc, lock) /\ sched \in SchedType /\ SchedOK(sched)
  BY DEF Nap, At, IdeInv, CallTypes, ChannelInv
<1>2. /\ UNCHANGED <<req, done, polls, moved, lock, doneval, donewait>>
      /\ UNCHANGED <<expecting, disk, irq, failed>>
  BY DEF Nap, task_vars, chan_vars, drive_vars
<1>3. CASE ticked[t]
  <2>1. pc' = [pc EXCEPT ![t] = "poll"] /\ sched' = sched
    BY <1>3 DEF Nap, Goto
  <2>2. /\ "poll" \in PC /\ "poll" \in Locked /\ "poll" \in Engaged
        /\ pc[t] \in Engaged /\ pc[t] \in Locked
    BY <1>1 DEF PC, Locked, Engaged
  <2>3. /\ Phase(t) /\ CallTypes /\ done[t] < req[t].cnt
        /\ moved[t] = Sectors(req[t].lba, Progress(t))
        /\ done[t] \in Nat /\ req[t].cnt \in 0 .. MaxCnt
    BY <2>2, EngagedFacts
  <2>4. ChannelInv(sched, [pc EXCEPT ![t] = "poll"], lock)
    BY <1>1, <2>2, ChannelPlain
  <2>5. ChannelInv(sched, pc, lock)'
    BY <1>2, <2>1, <2>4
  <2>6. /\ pc' \in [Task -> PC] /\ pc'[t] = "poll" /\ \A u \in Task \ {t} : pc'[u] = pc[u]
    BY <1>1, <2>1, <2>2
  <2>7. CallTypes'
    BY <1>2, <2>3, <2>6 DEF CallTypes
  <2>8. DiskTypes'
    BY <1>2 DEF IdeInv, DiskTypes
  <2>9. CallsOK'
    <3>1. Progress(t) = done[t] /\ Progress(t)' = done[t]
      BY <1>1, <1>2, <2>6 DEF Progress
    <3>2. /\ done'[t] <= req'[t].cnt /\ done'[t] < req'[t].cnt
          /\ moved'[t] = Sectors(req'[t].lba, Progress(t)')
      BY <1>2, <2>3, <3>1
    <3>3. \A u \in Task \ {t} : /\ pc'[u] = pc[u] /\ req'[u] = req[u]
                                /\ done'[u] = done[u] /\ moved'[u] = moved[u]
      BY <1>2, <2>6
    <3>4. CallsOK /\ pc'[t] # "lock"
      BY <2>6 DEF IdeInv
    <3>5. QED
      BY <3>2, <3>3, <3>4, CallsStep
  <2>10. Phase(t)'
    <3>1. Polls(t)
      BY <1>1, <2>3 DEF Phase
    <3>2. Polls(t)'
      BY <1>2, <2>6, <3>1 DEF Polls
    <3>3. QED
      BY <1>2, <2>3, <2>6, <3>2 DEF Phase, secs_op
  <2>11. DriveOK'
    BY <2>2, <2>6, <2>10, DriveStep
  <2>12. QED
    BY <2>5, <2>7, <2>8, <2>9, <2>11 DEF IdeInv
<1>4. CASE ~ticked[t]
  <2>1. sched' = thread_yield(sched) /\ pc' = pc
    BY <1>4 DEF Nap
  <2>2. sched' \in SchedType /\ SchedOK(sched') /\ WakesOnlyIdle(sched, sched')
    BY <1>1, <2>1, YieldOK
  <2>3. pc'[Idle] \in {"idle", "hlt"} /\ pc' \in [Task -> PC]
    BY <1>1, <2>1, TaskAssumption DEF ChannelInv
  <2>4. \A u \in Task \ {Idle} : pc'[u] = pc[u]
    BY <2>1
  <2>5. QED
    BY <1>2, <2>2, <2>3, <2>4, SwitchInv
<1>5. QED
  BY <1>3, <1>4

LEMMA TransferInv ==
  ASSUME IdeInv, NEW t \in Task \ {Idle}, Transfer(t)
  PROVE  IdeInv'
<1> DEFINE label == IF req[t].op = "read" THEN "cmd" ELSE "down"
           n == secs_op(t)
<1>1. /\ sched.cur = t /\ pc[t] = "xfer" /\ pc \in [Task -> PC]
      /\ ChannelInv(sched, pc, lock) /\ sched.status[t] = "RUNNING"
  BY DEF Transfer, At, IdeInv, CallTypes, ChannelInv, SchedOK
<1>2. /\ pc[t] \in Engaged /\ pc[t] \in Locked /\ label \in PC /\ label \in Locked
      /\ label \in Engaged <=> req[t].op # "read"
      /\ label = "down" <=> req[t].op # "read"
      /\ label \notin {"lock", "xfer"}
  BY <1>1 DEF Engaged, Locked, PC
<1>3. /\ Phase(t) /\ CallTypes /\ done[t] < req[t].cnt
      /\ moved[t] = Sectors(req[t].lba, Progress(t))
      /\ req[t].lba \in Nat /\ done[t] \in Nat /\ req[t].cnt \in 0 .. MaxCnt
      /\ req[t].op \in {"read", "write"}
      /\ n \in Nat /\ done[t] + n <= req[t].cnt /\ byte_count(n) = n
  BY <1>2, EngagedFacts
<1>4. /\ moved' = [moved EXCEPT ![t] =
                     moved[t] \o [i \in 1 .. byte_count(n) |-> disk.lba + i - 1]]
      /\ disk' = [disk EXCEPT !.state = IF req[t].op = "read" THEN "ready" ELSE "writing"]
      /\ done' = IF req[t].op = "read" THEN [done EXCEPT ![t] = done[t] + n] ELSE done
      /\ pc' = [pc EXCEPT ![t] = label]
      /\ UNCHANGED <<sched, req, polls, lock, doneval, donewait, expecting, irq, failed>>
  BY DEF Transfer, Goto, chan_vars
<1>5. Polls(t) /\ disk.state = "drq" /\ disk.lba = req[t].lba + done[t]
  BY <1>1, <1>3 DEF Phase, Polls
<1>6. moved[t] \o [i \in 1 .. byte_count(n) |-> disk.lba + i - 1]
        = Sectors(req[t].lba, done[t] + n)
  <2>1. Progress(t) = done[t]
    BY <1>1 DEF Progress
  <2>2. [i \in 1 .. byte_count(n) |-> disk.lba + i - 1] = Sectors(req[t].lba + done[t], n)
    BY <1>3, <1>5 DEF Sectors
  <2> HIDE DEF n
  <2>3. Sectors(req[t].lba, done[t]) \o Sectors(req[t].lba + done[t], n)
          = Sectors(req[t].lba, done[t] + n)
    BY <1>3, SectorsAdd
  <2>4. QED
    BY <1>3, <2>1, <2>2, <2>3
<1> HIDE DEF label, n
<1>7. ChannelInv(sched, [pc EXCEPT ![t] = label], lock)
  BY <1>1, <1>2, ChannelPlain
<1>8. ChannelInv(sched, pc, lock)'
  BY <1>4, <1>7
<1>9. /\ pc' \in [Task -> PC] /\ pc'[t] = label /\ \A u \in Task \ {t} : pc'[u] = pc[u]
  BY <1>1, <1>2, <1>4
<1>10. /\ moved' \in [Task -> Seq(Nat)] /\ moved'[t] = Sectors(req[t].lba, done[t] + n)
       /\ \A u \in Task \ {t} : moved'[u] = moved[u]
  <2> DEFINE m == done[t] + n
  <2>1. m \in Nat
    BY <1>3
  <2> HIDE DEF m
  <2>2. Sectors(req[t].lba, m) \in Seq(Nat)
    BY <1>3, <2>1, SectorsAre
  <2>3. moved' = [moved EXCEPT ![t] = Sectors(req[t].lba, m)]
    BY <1>4, <1>6 DEF m
  <2>4. QED
    BY <1>3, <2>2, <2>3 DEF CallTypes, m
<1>11. /\ done' \in [Task -> 0 .. MaxCnt]
       /\ done'[t] = IF req[t].op = "read" THEN done[t] + n ELSE done[t]
       /\ \A u \in Task \ {t} : done'[u] = done[u]
  <2>1. done[t] + n \in 0 .. MaxCnt
    BY <1>3, IdeAssumption
  <2>2. QED
    BY <1>3, <1>4, <2>1 DEF CallTypes
<1>12. CallTypes'
  BY <1>3, <1>4, <1>9, <1>10, <1>11 DEF CallTypes
<1>13. /\ disk'.state = (IF req[t].op = "read" THEN "ready" ELSE "writing")
       /\ disk'.op = disk.op /\ disk'.lba = disk.lba /\ disk'.n = disk.n /\ DiskTypes'
  BY <1>4 DEF IdeInv, DiskTypes
<1>14. CallsOK'
  <2>1. Progress(t)' = done[t] + n
    <3>1. CASE req[t].op = "read"
      BY <1>2, <1>4, <1>9, <1>11, <3>1 DEF Progress
    <3>2. CASE req[t].op # "read"
      <4>1. req'[t].op = "write" /\ pc'[t] = "down" /\ done'[t] = done[t] /\ req' = req
        BY <1>2, <1>3, <1>4, <1>9, <1>11, <3>2
      <4>2. secs_op(t)' = n
        BY <4>1 DEF secs_op, n
      <4>3. QED
        BY <4>1, <4>2 DEF Progress
    <3>3. QED
      BY <3>1, <3>2
  <2>2. moved'[t] = Sectors(req'[t].lba, Progress(t)')
    BY <1>4, <1>10, <2>1
  <2>3. done'[t] <= req'[t].cnt
    BY <1>3, <1>4, <1>11
  <2>4. pc'[t] \in Engaged => done'[t] < req'[t].cnt
    BY <1>2, <1>3, <1>4, <1>9, <1>11
  <2>5. \A u \in Task \ {t} : /\ pc'[u] = pc[u] /\ req'[u] = req[u]
                              /\ done'[u] = done[u] /\ moved'[u] = moved[u]
    BY <1>4, <1>9, <1>10, <1>11
  <2>6. CallsOK /\ pc'[t] # "lock"
    BY <1>2, <1>9 DEF IdeInv
  <2>7. QED
    BY <2>2, <2>3, <2>4, <2>5, <2>6, CallsStep
<1>15. DriveOK'
  <2>1. CASE req[t].op = "read"
    <3>1. Quiet' /\ pc'[t] \notin Engaged
      BY <1>2, <1>4, <1>5, <1>9, <1>13, <2>1 DEF Quiet, Polls
    <3>2. QED
      BY <1>2, <1>9, <3>1, DriveStep
  <2>2. CASE req[t].op # "read"
    <3>1. /\ pc'[t] = "down" /\ done'[t] = done[t] /\ req' = req /\ sched' = sched
          /\ donewait' = <<>>
      BY <1>2, <1>4, <1>5, <1>9, <1>11, <2>2 DEF Polls
    <3>2. Works(t)'
      BY <1>4, <1>5, <1>13, <2>2 DEF Works, Polls
    <3>3. Phase(t)'
      BY <1>1, <1>3, <1>13, <3>1, <3>2 DEF Phase, secs_op
    <3>4. QED
      BY <1>2, <1>9, <3>1, <3>3, DriveStep DEF Engaged
  <2>3. QED
    BY <2>1, <2>2
<1>16. QED
  BY <1>8, <1>12, <1>13, <1>14, <1>15 DEF IdeInv

LEMMA UnlockChannelInv ==
  ASSUME IdeInv, NEW t \in Task \ {Idle}, UnlockChannel(t)
  PROVE  IdeInv'
<1>1. /\ sched.cur = t /\ pc[t] = "cmd" /\ pc \in [Task -> PC]
      /\ ChannelInv(sched, pc, lock)
  BY DEF UnlockChannel, At, IdeInv, CallTypes
<1>2. /\ sched' = ReleaseSched(sched, lock, t) /\ lock' = Release(lock)
      /\ pc' = [pc EXCEPT ![t] = "user"]
      /\ UNCHANGED <<req, done, polls, moved, doneval, donewait, expecting, disk, irq, failed>>
  BY DEF UnlockChannel, Goto, task_vars, drive_vars
<1>3. ChannelInv(ReleaseSched(sched, lock, t), [pc EXCEPT ![t] = "user"], Release(lock))
  BY <1>1, ChannelReleased
<1>4. ChannelInv(sched, pc, lock)'
  BY <1>2, <1>3
<1>5. /\ pc' \in [Task -> PC] /\ pc'[t] = "user" /\ \A u \in Task \ {t} : pc'[u] = pc[u]
  BY <1>1, <1>2 DEF PC
<1>6. CallTypes' /\ DiskTypes'
  BY <1>2, <1>5 DEF IdeInv, CallTypes, DiskTypes
<1>7. CallsOK'
  <2>1. pc'[t] # "lock" /\ pc'[t] \notin Locked /\ pc'[t] \notin Engaged /\ CallsOK
    BY <1>5 DEF IdeInv, Locked, Engaged
  <2>2. \A u \in Task \ {t} : /\ pc'[u] = pc[u] /\ req'[u] = req[u]
                              /\ done'[u] = done[u] /\ moved'[u] = moved[u]
    BY <1>2, <1>5
  <2>3. QED
    BY <2>1, <2>2, CallsStep
<1>8. DriveOK'
  <2>1. Quiet
    BY <1>1, QuietAtCmd
  <2>2. Quiet' /\ pc'[t] \notin Engaged /\ pc[t] \in Locked
    BY <1>1, <1>2, <1>5, <2>1 DEF Quiet, Engaged, Locked
  <2>3. QED
    BY <1>5, <2>2, DriveStep
<1>9. QED
  BY <1>4, <1>6, <1>7, <1>8 DEF IdeInv

(* A step of the drive or of its handler moves the command that is under   *)
(* way, and there is only one.                                             *)
LEMMA DriveMoves ==
  ASSUME IdeInv, NEW t \in Task, pc[t] \in Engaged, Phase(t)', pc'[t] = pc[t],
         \A u \in Task : pc'[u] \in Engaged => pc[u] \in Engaged
  PROVE  DriveOK'
<1>1. \A u \in Task : pc[u] \in Engaged => u = t
  BY OneInChannel DEF IdeInv, Locked
<1>2. QED
  BY <1>1 DEF DriveOK

(* The drive has found the data of a read, or wants those of a write.      *)
LEMMA DriveReadyInv ==
  ASSUME IdeInv, DriveReady
  PROVE  IdeInv'
<1>1. /\ disk.state = "busy" /\ disk' = [disk EXCEPT !.state = "drq"]
      /\ irq' = (irq \/ disk.op = "read")
      /\ UNCHANGED <<sched, pc, req, done, polls, moved>>
      /\ UNCHANGED <<lock, doneval, donewait, expecting, failed>>
  BY DEF DriveReady, task_vars, chan_vars
<1>2. PICK t \in Task : pc[t] \in Engaged
  BY <1>1 DEF IdeInv, DriveOK, Quiet
<1>3. Phase(t) /\ req[t].op \in {"read", "write"}
  BY <1>2 DEF IdeInv, DriveOK, CallTypes, Requests
<1>4. /\ disk'.state = "drq" /\ disk'.op = disk.op /\ disk'.lba = disk.lba
      /\ disk'.n = disk.n /\ DiskTypes'
  BY <1>1 DEF IdeInv, DiskTypes
<1>5. Phase(t)'
  <2>1. CASE pc[t] = "down"
    <3>1. Works(t) /\ req[t].op = "read" /\ disk.op = "read"
      BY <1>1, <1>3, <2>1 DEF Phase, Works, Raised, Upped
    <3>2. Raised(t)'
      BY <1>1, <1>4, <3>1 DEF Works, Raised
    <3>3. QED
      BY <1>1, <1>3, <1>4, <2>1, <3>2 DEF Phase, secs_op
  <2>2. CASE pc[t] # "down"
    <3>1. Polls(t) /\ req[t].op # "read" /\ disk.op # "read"
      BY <1>1, <1>3, <2>2 DEF Phase, Polls
    <3>2. Polls(t)'
      BY <1>1, <1>4, <3>1 DEF Polls
    <3>3. QED
      BY <1>1, <1>3, <1>4, <2>2, <3>2 DEF Phase, secs_op
  <2>3. QED
    BY <2>1, <2>2
<1>6. DriveOK'
  BY <1>1, <1>2, <1>5, DriveMoves
<1>7. CallTypes' /\ CallsOK' /\ ChannelInv(sched, pc, lock)'
  BY <1>1 DEF IdeInv, CallTypes, CallsOK, Progress, secs_op
<1>8. QED
  BY <1>4, <1>6, <1>7 DEF IdeInv

(* The drive has stored the data of a write.                               *)
LEMMA DriveStoredInv ==
  ASSUME IdeInv, DriveStored
  PROVE  IdeInv'
<1>1. /\ disk.state = "writing" /\ disk' = [disk EXCEPT !.state = "ready"]
      /\ irq' = TRUE
      /\ UNCHANGED <<sched, pc, req, done, polls, moved>>
      /\ UNCHANGED <<lock, doneval, donewait, expecting, failed>>
  BY DEF DriveStored, task_vars, chan_vars
<1>2. PICK t \in Task : pc[t] \in Engaged
  BY <1>1 DEF IdeInv, DriveOK, Quiet
<1>3. Phase(t) /\ req[t].op \in {"read", "write"}
  BY <1>2 DEF IdeInv, DriveOK, CallTypes, Requests
<1>4. /\ disk'.state = "ready" /\ disk'.op = disk.op /\ disk'.lba = disk.lba
      /\ disk'.n = disk.n /\ DiskTypes'
  BY <1>1 DEF IdeInv, DiskTypes
<1>5. pc[t] = "down" /\ Works(t) /\ req[t].op # "read"
  BY <1>1, <1>3 DEF Phase, Works, Raised, Upped, Polls
<1>6. Raised(t)'
  BY <1>1, <1>4, <1>5 DEF Works, Raised
<1>7. Phase(t)'
  BY <1>1, <1>3, <1>4, <1>5, <1>6 DEF Phase, secs_op
<1>8. DriveOK'
  BY <1>1, <1>2, <1>7, DriveMoves
<1>9. CallTypes' /\ CallsOK' /\ ChannelInv(sched, pc, lock)'
  BY <1>1 DEF IdeInv, CallTypes, CallsOK, Progress, secs_op
<1>10. QED
  BY <1>4, <1>8, <1>9 DEF IdeInv

(* An interrupt ends idle's hlt and moves no other task.                   *)
LEMMA ResumeLabels ==
  ASSUME IdeInv, ResumeHlt
  PROVE  /\ pc' \in [Task -> PC] /\ pc'[Idle] \in {"idle", "hlt"}
         /\ \A u \in Task \ {Idle} : pc'[u] = pc[u]
<1>1. /\ pc \in [Task -> PC] /\ sched.cur \in Task
      /\ \A u \in Task : u = Idle <=> pc[u] \in {"idle", "hlt"}
  BY DEF IdeInv, CallTypes, ChannelInv, SchedType
<1>2. QED
  BY <1>1, TaskAssumption DEF ResumeHlt, PC

(* The interrupt finds the task whose command it answers before sema_down  *)
(* or asleep in it, and the handler armed.                                 *)
LEMMA HandlerInv ==
  ASSUME IdeInv, intr_hd_handler
  PROVE  IdeInv'
<1>1. /\ irq /\ irq' = FALSE /\ ResumeHlt
      /\ UNCHANGED <<req, done, polls, moved, lock, disk, failed>>
  BY DEF intr_hd_handler, task_vars
<1>2. PICK t \in Task : pc[t] \in Engaged
  BY <1>1 DEF IdeInv, DriveOK, Quiet
<1>3. Phase(t)
  BY <1>2 DEF IdeInv, DriveOK
<1>4. pc[t] = "down" /\ Raised(t)
  BY <1>1, <1>3 DEF Phase, Works, Upped, Polls
<1>5. /\ expecting /\ doneval = 0 /\ ChannelInv(sched, pc, lock) /\ sched \in SchedType
      /\ donewait = IF sched.status[t] = "BLOCKED" THEN <<t>> ELSE <<>>
  BY <1>3, <1>4 DEF Raised, Phase, IdeInv, ChannelInv
<1>6. /\ expecting' = FALSE /\ doneval' = 1
      /\ sched' = WakeFirst(ASSERT(sched, doneval = 0), donewait)
      /\ donewait' = IF donewait = <<>> THEN <<>> ELSE Tail(donewait)
  BY <1>5 DEF intr_hd_handler
<1>7. ASSERT(sched, doneval = 0) = sched
  BY <1>5, AssertPasses
<1>8. /\ donewait' = <<>> /\ ChannelInv(sched', pc, lock)
      /\ sched'.status[t] # "BLOCKED"
  <2>1. CASE sched.status[t] = "BLOCKED"
    <3>1. donewait # <<>> /\ Head(donewait) = t /\ Tail(donewait) = <<>>
      BY <1>5, <2>1
    <3>2. sched' = thread_unblock(sched, t) /\ donewait' = <<>>
      BY <1>6, <1>7, <3>1 DEF WakeFirst
    <3>3. /\ ChannelInv(thread_unblock(sched, t), pc, lock)
          /\ thread_unblock(sched, t).status[t] = "READY"
      BY <1>4, <1>5, <2>1, ChannelWoken
    <3>4. QED
      BY <3>2, <3>3
  <2>2. CASE sched.status[t] # "BLOCKED"
    BY <1>5, <1>6, <1>7, <2>2 DEF WakeFirst
  <2>3. QED
    BY <2>1, <2>2
<1>9. /\ pc' \in [Task -> PC] /\ pc'[Idle] \in {"idle", "hlt"}
      /\ \A u \in Task \ {Idle} : pc'[u] = pc[u]
  BY <1>1, ResumeLabels
<1>10. ChannelInv(sched, pc, lock)'
  <2>1. sched' \in SchedType /\ SchedOK(sched') /\ WakesOnlyIdle(sched', sched')
    BY <1>8 DEF ChannelInv, WakesOnlyIdle
  <2>2. ChannelInv(sched', pc', lock)
    BY <1>8, <1>9, <2>1, ChannelSwitch
  <2>3. QED
    BY <1>1, <2>2
<1>11. CallTypes' /\ DiskTypes'
  BY <1>1, <1>6, <1>9 DEF IdeInv, CallTypes, DiskTypes
<1>12. CallsOK'
  <2>1. ASSUME NEW u \in Task \ {Idle}
        PROVE  Progress(u)' = Progress(u)
    BY <1>1, <1>9 DEF Progress, secs_op
  <2>2. pc'[Idle] # "lock" /\ pc'[Idle] \notin Locked /\ pc'[Idle] \notin Engaged
    BY <1>9 DEF Locked, Engaged
  <2>3. QED
    BY <1>1, <1>9, <2>1, <2>2 DEF IdeInv, CallsOK
<1>13. t # Idle /\ pc'[t] = pc[t]
  <2>1. t # Idle
    BY <1>4, <1>5 DEF ChannelInv
  <2>2. QED
    BY <1>9, <2>1
<1>14. Phase(t)'
  <2>1. Upped(t)'
    BY <1>1, <1>4, <1>6, <1>8 DEF Raised, Upped
  <2>2. QED
    BY <1>1, <1>3, <1>4, <1>8, <1>13, <2>1 DEF Phase, secs_op
<1>15. \A u \in Task : pc'[u] \in Engaged => pc[u] \in Engaged
  BY <1>9 DEF Engaged
<1>16. DriveOK'
  BY <1>2, <1>13, <1>14, <1>15, DriveMoves
<1>17. QED
  BY <1>10, <1>11, <1>12, <1>16 DEF IdeInv

(* The timer interrupt.                                                    *)
LEMMA TickInv ==
  ASSUME IdeInv, Tick
  PROVE  IdeInv'
<1>1. /\ ResumeHlt /\ sched' = timer_tick(sched)
      /\ UNCHANGED <<req, done, polls, moved, lock, doneval, donewait>>
      /\ UNCHANGED <<expecting, disk, irq, failed>>
      /\ sched \in SchedType /\ SchedOK(sched)
  BY DEF Tick, chan_vars, drive_vars, IdeInv, ChannelInv
<1>2. /\ pc' \in [Task -> PC] /\ pc'[Idle] \in {"idle", "hlt"}
      /\ \A u \in Task \ {Idle} : pc'[u] = pc[u]
  BY <1>1, ResumeLabels
<1>3. sched' \in SchedType /\ SchedOK(sched') /\ WakesOnlyIdle(sched, sched')
  BY <1>1, TickOK
<1>4. QED
  BY <1>1, <1>2, <1>3, SwitchInv

(* Idle blocks itself and halts the CPU when it runs again.                *)
LEMMA IdleBlockInv ==
  ASSUME IdeInv, IdleBlock
  PROVE  IdeInv'
<1>1. /\ sched.cur = Idle /\ pc \in [Task -> PC] /\ sched' = thread_block(sched, "BLOCKED")
      /\ pc' = [pc EXCEPT ![Idle] = "hlt"]
      /\ UNCHANGED <<req, done, polls, moved, lock, doneval, donewait>>
      /\ UNCHANGED <<expecting, disk, irq, failed>>
      /\ sched \in SchedType /\ SchedOK(sched)
  BY DEF IdleBlock, At, Goto, task_vars, chan_vars, drive_vars, IdeInv, CallTypes, ChannelInv
<1>2. /\ pc' \in [Task -> PC] /\ pc'[Idle] \in {"idle", "hlt"}
      /\ \A u \in Task \ {Idle} : pc'[u] = pc[u]
  BY <1>1, TaskAssumption DEF PC
<1>3. sched' \in SchedType /\ SchedOK(sched') /\ WakesOnlyIdle(sched, sched')
  BY <1>1, IdleBlocks
<1>4. QED
  BY <1>1, <1>2, <1>3, SwitchInv

-----------------------------------------------------------------------------
(* Every step keeps the invariant.                                         *)
LEMMA IdeNext == IdeInv /\ [Next]_vars => IdeInv'
<1> SUFFICES ASSUME IdeInv, [Next]_vars PROVE IdeInv'
  OBVIOUS
<1>1. CASE UNCHANGED vars
  <2>1. /\ UNCHANGED <<sched, pc, req, done, polls, moved, lock>>
        /\ UNCHANGED <<doneval, donewait, expecting, disk, irq, failed>>
    BY <1>1 DEF vars, task_vars, chan_vars, drive_vars
  <2>2. CallTypes' /\ DiskTypes' /\ CallsOK' /\ ChannelInv(sched, pc, lock)'
    BY <2>1 DEF IdeInv, CallTypes, DiskTypes, CallsOK, Progress, secs_op
  <2>3. DriveOK'
    BY <2>1, DriveKept DEF IdeInv
  <2>4. QED
    BY <2>2, <2>3 DEF IdeInv
<1>2. ASSUME NEW t \in Task \ {Idle}, Work(t)
      PROVE  IdeInv'
  BY <1>2, LockChannelInv, CommandInv, AwaitDiskInv, PollInv, NapInv, TransferInv,
     UnlockChannelInv DEF Work
<1>3. QED
  BY <1>1, <1>2, RequestInv, DriveReadyInv, DriveStoredInv, HandlerInv, TickInv,
     IdleBlockInv DEF Next

(* The invariant of the channel holds in every reachable state: the lock   *)
(* keeps one task between lock_acquire and lock_release, and disk_done,    *)
(* expecting_intr and the drive always stand where that task's command is  *)
(* (ide.c ide_read, ide_write, intr_hd_handler).                           *)
THEOREM IdeInvariant == Spec => []IdeInv
BY IdeInit, IdeNext, PTL DEF Spec

(* A task moves the data of the command it issued itself, and as much as   *)
(* it asked for (ide.c read_from_sector, write2sector).                    *)
THEOREM DataIsOwn == Spec => []OwnData
<1>1. IdeInv => OwnData
  <2> SUFFICES ASSUME IdeInv, NEW t \in Task, pc[t] = "xfer"
               PROVE  /\ disk.state = "drq" /\ disk.op = req[t].op
                      /\ disk.lba = req[t].lba + done[t] /\ disk.n = secs_op(t)
    BY DEF OwnData
  <2>1. Phase(t)
    BY DEF IdeInv, DriveOK, Engaged
  <2>2. QED
    BY <2>1 DEF Phase, Polls
<1>2. QED
  BY <1>1, IdeInvariant, PTL

(* A call that is done has moved each sector of its range once and in      *)
(* order, whatever the count and the number of sectors one command can     *)
(* move (ide.c ide_read, ide_write: secs_done, secs_op).                   *)
THEOREM RangeIsWhole == Spec => []WholeRange
<1>1. IdeInv => WholeRange
  <2> SUFFICES ASSUME IdeInv, NEW t \in Task, pc[t] = "cmd", done[t] >= req[t].cnt
               PROVE  moved[t] = [i \in 1 .. req[t].cnt |-> req[t].lba + i - 1]
    BY DEF WholeRange
  <2>1. /\ done[t] <= req[t].cnt /\ moved[t] = Sectors(req[t].lba, Progress(t))
        /\ done[t] \in 0 .. MaxCnt /\ req[t].cnt \in 0 .. MaxCnt
    BY DEF IdeInv, CallsOK, CallTypes, Requests, Locked
  <2>2. done[t] = req[t].cnt
    BY <2>1, IdeAssumption
  <2>3. Progress(t) = req[t].cnt
    BY <2>2 DEF Progress
  <2>4. QED
    BY <2>1, <2>3 DEF Sectors
<1>2. QED
  BY <1>1, IdeInvariant, PTL

(* No completion interrupt is lost, whichever of the interrupt and the     *)
(* sema_down it answers comes first, and no ASSERT of the handler, the     *)
(* lock or the scheduler fires (ide.c intr_hd_handler, sync.c).            *)
THEOREM NoCompletionLost == Spec => []SleeperWillBeWoken
<1>1. IdeInv => SleeperWillBeWoken
  <2> SUFFICES ASSUME IdeInv PROVE SleeperWillBeWoken
    OBVIOUS
  <2>1. SchedulerOK
    BY DEF IdeInv, CallTypes, DiskTypes, ChannelInv, SchedulerOK, TypeOK
  <2>2. ASSUME donewait # <<>>
        PROVE  expecting /\ (irq \/ disk.state \in {"busy", "writing"})
    <3>1. PICK t \in Task : pc[t] \in Engaged
      BY <2>2 DEF IdeInv, DriveOK, Quiet
    <3>2. Phase(t)
      BY <3>1 DEF IdeInv, DriveOK
    <3>3. Works(t) \/ Raised(t)
      BY <2>2, <3>2 DEF Phase, Upped, Polls
    <3>4. QED
      BY <3>3 DEF Works, Raised
  <2>3. QED
    BY <2>1, <2>2 DEF SleeperWillBeWoken
<1>2. QED
  BY <1>1, IdeInvariant, PTL
=============================================================================
