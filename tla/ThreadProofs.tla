---------------------------- MODULE ThreadProofs ----------------------------
(***************************************************************************)
(* Lemmas about the scheduler operators of module Thread: what each list   *)
(* operation does to membership, and that schedule, thread_block,          *)
(* thread_yield, thread_unblock and the timer tick keep SchedOK and touch  *)
(* the status of no sleeping task but idle's.  And about the locks of      *)
(* module SyscallLock: what lock_acquire and lock_release keep true; about *)
(* the ring of ioqueue.c; and about tasks that sleep for a queue.          *)
(***************************************************************************)
EXTENDS SyscallLock, Ioqueue, TLAPS

-----------------------------------------------------------------------------
(* list.c.                                                                 *)

(* list_append adds exactly the appended element (list.c list_append).     *)
LEMMA AppendFind ==
  ASSUME NEW S, NEW q \in Seq(S), NEW t \in S, NEW u
  PROVE  elem_find(list_append(q, t), u) <=> elem_find(q, u) \/ u = t
<1> DEFINE r == Append(q, t)
<1>1. /\ r \in Seq(S) /\ Len(r) = Len(q) + 1 /\ Len(q) \in Nat
      /\ \A i \in 1 .. Len(q) : r[i] = q[i]
      /\ r[Len(q) + 1] = t
  OBVIOUS
<1> HIDE DEF r
<1>2. (\E i \in 1 .. Len(r) : r[i] = u) <=> (\E i \in 1 .. Len(q) : q[i] = u) \/ u = t
  <2>1. ASSUME NEW i \in 1 .. Len(r), r[i] = u
        PROVE  (\E j \in 1 .. Len(q) : q[j] = u) \/ u = t
    <3>1. i \in 1 .. Len(q) \/ i = Len(q) + 1
      BY <1>1
    <3>2. QED
      BY <1>1, <2>1, <3>1
  <2>2. ASSUME NEW i \in 1 .. Len(q), q[i] = u
        PROVE  \E j \in 1 .. Len(r) : r[j] = u
    <3>1. i \in 1 .. Len(r) /\ r[i] = u
      BY <1>1, <2>2
    <3>2. QED
      BY <3>1
  <2>3. ASSUME u = t
        PROVE  \E j \in 1 .. Len(r) : r[j] = u
    <3>1. Len(q) + 1 \in 1 .. Len(r)
      BY <1>1
    <3>2. QED
      BY <1>1, <2>3, <3>1
  <2>4. QED
    BY <2>1, <2>2, <2>3
<1>3. QED
  BY <1>2 DEF elem_find, list_append, r

(* list_append of an element not in the list duplicates nothing.           *)
LEMMA AppendNoDuplicates ==
  ASSUME NEW S, NEW q \in Seq(S), NEW t \in S,
         NoDuplicates(q), ~elem_find(q, t)
  PROVE  NoDuplicates(list_append(q, t))
<1> DEFINE r == Append(q, t)
<1>1. /\ Len(r) = Len(q) + 1 /\ Len(q) \in Nat
      /\ \A i \in 1 .. Len(q) : r[i] = q[i]
      /\ r[Len(q) + 1] = t
  OBVIOUS
<1> HIDE DEF r
<1>2. ASSUME NEW i \in 1 .. Len(r), NEW j \in 1 .. Len(r), r[i] = r[j]
      PROVE  i = j
  <2>1. /\ i \in 1 .. Len(q) \/ i = Len(q) + 1
        /\ j \in 1 .. Len(q) \/ j = Len(q) + 1
    BY <1>1
  <2>2. QED
    BY <1>1, <1>2, <2>1 DEF NoDuplicates, elem_find
<1>3. QED
  BY <1>2 DEF NoDuplicates, list_append, r

(* list_push adds exactly the pushed element (list.c list_push).           *)
LEMMA PushFind ==
  ASSUME NEW S, NEW q \in Seq(S), NEW t \in S, NEW u
  PROVE  elem_find(list_push(q, t), u) <=> elem_find(q, u) \/ u = t
<1> DEFINE r == <<t>> \o q
<1>1. /\ r \in Seq(S) /\ Len(r) = Len(q) + 1 /\ Len(q) \in Nat
      /\ r[1] = t
      /\ \A i \in 1 .. Len(q) : r[i + 1] = q[i]
  OBVIOUS
<1> HIDE DEF r
<1>2. (\E i \in 1 .. Len(r) : r[i] = u) <=> (\E i \in 1 .. Len(q) : q[i] = u) \/ u = t
  <2>1. ASSUME NEW i \in 1 .. Len(r), r[i] = u
        PROVE  (\E j \in 1 .. Len(q) : q[j] = u) \/ u = t
    <3>1. CASE i = 1
      BY <1>1, <2>1, <3>1
    <3>2. CASE i # 1
      <4>1. i - 1 \in 1 .. Len(q) /\ r[(i - 1) + 1] = q[i - 1] /\ (i - 1) + 1 = i
        BY <1>1, <3>2
      <4>2. QED
        BY <2>1, <4>1
    <3>3. QED
      BY <3>1, <3>2
  <2>2. ASSUME NEW i \in 1 .. Len(q), q[i] = u
        PROVE  \E j \in 1 .. Len(r) : r[j] = u
    <3>1. i + 1 \in 1 .. Len(r) /\ r[i + 1] = u
      BY <1>1, <2>2
    <3>2. QED
      BY <3>1
  <2>3. ASSUME u = t
        PROVE  \E j \in 1 .. Len(r) : r[j] = u
    <3>1. 1 \in 1 .. Len(r)
      BY <1>1
    <3>2. QED
      BY <1>1, <2>3, <3>1
  <2>4. QED
    BY <2>1, <2>2, <2>3
<1>3. QED
  BY <1>2 DEF elem_find, list_push, r

(* list_push of an element not in the list duplicates nothing.             *)
LEMMA PushNoDuplicates ==
  ASSUME NEW S, NEW q \in Seq(S), NEW t \in S,
         NoDuplicates(q), ~elem_find(q, t)
  PROVE  NoDuplicates(list_push(q, t)) /\ list_push(q, t) \in Seq(S)
<1> DEFINE r == <<t>> \o q
<1>1. /\ r \in Seq(S) /\ Len(r) = Len(q) + 1 /\ Len(q) \in Nat
      /\ r[1] = t
      /\ \A i \in 1 .. Len(q) : r[i + 1] = q[i]
  OBVIOUS
<1> HIDE DEF r
<1>2. ASSUME NEW i \in 1 .. Len(r), i # 1
      PROVE  i - 1 \in 1 .. Len(q) /\ r[i] = q[i - 1]
  <2>1. i - 1 \in 1 .. Len(q) /\ (i - 1) + 1 = i
    BY <1>1, <1>2
  <2>2. QED
    BY <1>1, <2>1
<1>3. ASSUME NEW i \in 1 .. Len(r), NEW j \in 1 .. Len(r), r[i] = r[j]
      PROVE  i = j
  <2>1. CASE i = 1 \/ j = 1
    BY <1>1, <1>2, <1>3, <2>1 DEF elem_find
  <2>2. CASE i # 1 /\ j # 1
    <3>1. q[i - 1] = q[j - 1] /\ i - 1 \in 1 .. Len(q) /\ j - 1 \in 1 .. Len(q)
      BY <1>2, <1>3, <2>2
    <3>2. i - 1 = j - 1
      BY <3>1 DEF NoDuplicates
    <3>3. QED
      BY <1>1, <3>2
  <2>3. QED
    BY <2>1, <2>2
<1>4. QED
  BY <1>1, <1>3 DEF NoDuplicates, list_push, r

(* list_pop removes exactly the first element (list.c list_pop).           *)
LEMMA PopFind ==
  ASSUME NEW S, NEW q \in Seq(S), q # <<>>, NoDuplicates(q)
  PROVE  /\ Head(q) \in S /\ Tail(q) \in Seq(S)
         /\ elem_find(q, Head(q))
         /\ NoDuplicates(Tail(q))
         /\ \A u : elem_find(Tail(q), u) <=> elem_find(q, u) /\ u # Head(q)
<1> DEFINE r == Tail(q)
<1>1. /\ Head(q) = q[1] /\ Head(q) \in S
      /\ r \in Seq(S) /\ Len(q) = Len(r) + 1 /\ Len(r) \in Nat
      /\ \A i \in 1 .. Len(r) : r[i] = q[i + 1] /\ i + 1 \in 1 .. Len(q)
  OBVIOUS
<1> HIDE DEF r
<1>2. elem_find(q, Head(q))
  <2>1. 1 \in 1 .. Len(q)
    BY <1>1
  <2>2. QED
    BY <1>1, <2>1 DEF elem_find
<1>3. ASSUME NEW i \in 1 .. Len(r), NEW j \in 1 .. Len(r), r[i] = r[j]
      PROVE  i = j
  <2>1. q[i + 1] = q[j + 1] /\ i + 1 \in 1 .. Len(q) /\ j + 1 \in 1 .. Len(q)
    BY <1>1, <1>3
  <2>2. i + 1 = j + 1
    BY <2>1 DEF NoDuplicates
  <2>3. QED
    BY <1>1, <2>2
<1>4. ASSUME NEW u, elem_find(r, u)
      PROVE  elem_find(q, u) /\ u # Head(q)
  <2>1. PICK i \in 1 .. Len(r) : r[i] = u
    BY <1>4 DEF elem_find
  <2>2. i + 1 \in 1 .. Len(q) /\ q[i + 1] = u /\ i + 1 # 1 /\ 1 \in 1 .. Len(q)
    BY <1>1, <2>1
  <2>3. QED
    BY <1>1, <2>2 DEF elem_find, NoDuplicates
<1>5. ASSUME NEW u, elem_find(q, u), u # Head(q)
      PROVE  elem_find(r, u)
  <2>1. PICK i \in 1 .. Len(q) : q[i] = u
    BY <1>5 DEF elem_find
  <2>2. i # 1
    BY <1>1, <1>5, <2>1
  <2>3. i - 1 \in 1 .. Len(r) /\ (i - 1) + 1 = i
    BY <1>1, <2>2
  <2>4. r[i - 1] = u
    BY <1>1, <2>1, <2>3
  <2>5. QED
    BY <2>3, <2>4 DEF elem_find
<1>6. NoDuplicates(r)
  BY <1>3 DEF NoDuplicates
<1>7. QED
  BY <1>1, <1>2, <1>4, <1>5, <1>6 DEF r

(* list_remove takes off exactly the removed element (list.c list_remove). *)
LEMMA RemoveFind ==
  ASSUME NEW S, NEW q \in Seq(S), NEW t, elem_find(q, t), NoDuplicates(q)
  PROVE  /\ list_remove(q, t) \in Seq(S)
         /\ NoDuplicates(list_remove(q, t))
         /\ \A u : elem_find(list_remove(q, t), u) <=> elem_find(q, u) /\ u # t
<1> DEFINE i == CHOOSE j \in 1 .. Len(q) : q[j] = t
           r == list_remove(q, t)
<1>1. i \in 1 .. Len(q) /\ q[i] = t
  BY DEF elem_find
<1>2. Len(q) \in Nat
  OBVIOUS
<1>3. r = SubSeq(q, 1, i - 1) \o SubSeq(q, i + 1, Len(q))
  BY DEF list_remove
<1> HIDE DEF i, r
<1> DEFINE a == SubSeq(q, 1, i - 1)
           b == SubSeq(q, i + 1, Len(q))
<1>4. /\ a \in Seq(S) /\ Len(a) = i - 1
      /\ \A j \in 1 .. i - 1 : a[j] = q[j]
  BY <1>1, <1>2
<1>5. /\ b \in Seq(S) /\ Len(b) = Len(q) - i
      /\ \A j \in 1 .. Len(q) - i : b[j] = q[i + j]
  BY <1>1, <1>2
<1> HIDE DEF a, b
<1>6. /\ r \in Seq(S) /\ Len(r) = Len(q) - 1
      /\ \A j \in 1 .. Len(q) - 1 : r[j] = IF j < i THEN q[j] ELSE q[j + 1]
  <2>1. r = a \o b
    BY <1>3 DEF a, b
  <2>2. /\ r \in Seq(S) /\ Len(r) = Len(a) + Len(b)
        /\ \A j \in 1 .. Len(a) : r[j] = a[j]
        /\ \A j \in 1 .. Len(b) : r[Len(a) + j] = b[j]
    <3>1. a \in Seq(S) /\ b \in Seq(S) /\ Len(a) \in Nat /\ Len(b) \in Nat
      BY <1>4, <1>5
    <3>2. r \in Seq(S) /\ Len(r) = Len(a) + Len(b)
      BY <2>1, <3>1
    <3>3. ASSUME NEW j \in 1 .. Len(a)
          PROVE  r[j] = a[j]
      BY <2>1, <3>1
    <3>4. ASSUME NEW j \in 1 .. Len(b)
          PROVE  r[Len(a) + j] = b[j]
      <4>1. Len(a) + j \in 1 .. Len(a) + Len(b) /\ ~(Len(a) + j <= Len(a))
            /\ (Len(a) + j) - Len(a) = j
        BY <3>1
      <4>2. QED
        BY <2>1, <3>1, <4>1
    <3>5. QED
      BY <3>2, <3>3, <3>4
  <2>3. ASSUME NEW j \in 1 .. Len(q) - 1
        PROVE  r[j] = IF j < i THEN q[j] ELSE q[j + 1]
    <3>1. CASE j < i
      <4>1. j \in 1 .. i - 1
        BY <1>1, <1>2, <3>1
      <4>2. QED
        BY <1>4, <2>2, <3>1, <4>1
    <3>2. CASE ~(j < i)
      <4>1. PICK k \in 1 .. Len(q) - i : j = (i - 1) + k /\ i + k = j + 1
        <5>1. j - (i - 1) \in 1 .. Len(q) - i /\ j = (i - 1) + (j - (i - 1))
              /\ i + (j - (i - 1)) = j + 1
          BY <1>1, <1>2, <3>2
        <5>2. QED
          BY <5>1
      <4>2. r[(i - 1) + k] = b[k] /\ b[k] = q[i + k]
        BY <1>4, <1>5, <2>2
      <4>3. QED
        BY <3>2, <4>1, <4>2
    <3>3. QED
      BY <3>1, <3>2
  <2>4. QED
    BY <1>1, <1>2, <1>4, <1>5, <2>2, <2>3
<1>7. NoDuplicates(r)
  <2>1. ASSUME NEW j \in 1 .. Len(r), NEW k \in 1 .. Len(r), r[j] = r[k], j < k
        PROVE  FALSE
    <3> DEFINE jj == IF j < i THEN j ELSE j + 1
               kk == IF k < i THEN k ELSE k + 1
    <3>1. jj \in 1 .. Len(q) /\ kk \in 1 .. Len(q) /\ jj # kk
      BY <1>1, <1>2, <1>6, <2>1
    <3>2. r[j] = q[jj] /\ r[k] = q[kk]
      BY <1>6
    <3> HIDE DEF jj, kk
    <3>3. QED
      BY <2>1, <3>1, <3>2 DEF NoDuplicates
  <2>2. QED
    BY <1>2, <1>6, <2>1 DEF NoDuplicates
<1>8. ASSUME NEW u, elem_find(r, u)
      PROVE  elem_find(q, u) /\ u # t
  <2>1. PICK j \in 1 .. Len(r) : r[j] = u
    BY <1>8 DEF elem_find
  <2> DEFINE jj == IF j < i THEN j ELSE j + 1
  <2>2. jj \in 1 .. Len(q) /\ q[jj] = u /\ jj # i
    BY <1>1, <1>2, <1>6, <2>1
  <2> HIDE DEF jj
  <2>3. QED
    BY <1>1, <2>2 DEF elem_find, NoDuplicates
<1>9. ASSUME NEW u, elem_find(q, u), u # t
      PROVE  elem_find(r, u)
  <2>1. PICK j \in 1 .. Len(q) : q[j] = u
    BY <1>9 DEF elem_find
  <2> DEFINE jj == IF j < i THEN j ELSE j - 1
  <2>2. j # i
    BY <1>1, <1>9, <2>1
  <2>3. jj \in 1 .. Len(r) /\ (IF jj < i THEN jj ELSE jj + 1) = j
    BY <1>1, <1>2, <1>6, <2>2
  <2>4. r[jj] = u
    BY <1>6, <2>1, <2>3
  <2> HIDE DEF jj
  <2>5. QED
    BY <2>3, <2>4 DEF elem_find
<1>10. QED
  BY <1>6, <1>7, <1>8, <1>9 DEF r

-----------------------------------------------------------------------------
(* thread.c.                                                               *)

(* What holds inside schedule, where the current task may have left        *)
(* RUNNING already: SchedOK but for that.                                  *)
MidOK(s) ==
  /\ \A t \in Task : s.status[t] = "RUNNING" => t = s.cur
  /\ \A t \in Task : elem_find(s.ready, t) <=> s.status[t] = "READY"
  /\ NoDuplicates(s.ready)
  /\ s.status[Idle] \in {"RUNNING", "READY", "BLOCKED"}
  /\ ~s.panic

(* n is s after a step that wakes nobody but idle: every other sleeping    *)
(* or dead task keeps its status, every other runnable one stays runnable. *)
WakesOnlyIdle(s, n) ==
  \A t \in Task \ {Idle} :
    IF s.status[t] \in {"RUNNING", "READY"}
      THEN n.status[t] \in {"RUNNING", "READY"}
      ELSE n.status[t] = s.status[t]

(* thread_unblock of a sleeping task makes exactly it READY and keeps the  *)
(* scheduler consistent (thread.c thread_unblock).                         *)
LEMMA UnblockMid ==
  ASSUME NEW s \in SchedType, NEW t \in Task, MidOK(s),
         s.status[t] \in Asleep
  PROVE  LET n == thread_unblock(s, t) IN
         /\ n \in SchedType /\ MidOK(n) /\ n.cur = s.cur
         /\ n.ready # <<>>
         /\ n.status = [s.status EXCEPT ![t] = "READY"]
<1> DEFINE n == thread_unblock(s, t)
<1>1. ~elem_find(s.ready, t)
  BY DEF MidOK, Asleep
<1>2. n = [s EXCEPT !.ready = list_push(s.ready, t),
                    !.status = [s.status EXCEPT ![t] = "READY"]]
  BY <1>1 DEF thread_unblock
<1> HIDE DEF n
<1>3. /\ s.ready \in Seq(Task) /\ s.status \in [Task -> Status] /\ s.cur \in Task
      /\ NoDuplicates(s.ready)
  BY DEF SchedType, MidOK
<1>4. /\ NoDuplicates(list_push(s.ready, t)) /\ list_push(s.ready, t) \in Seq(Task)
      /\ \A u : elem_find(list_push(s.ready, t), u) <=> elem_find(s.ready, u) \/ u = t
  BY <1>1, <1>3, PushFind, PushNoDuplicates
<1>5. /\ n.ready = list_push(s.ready, t) /\ n.cur = s.cur /\ n.panic = s.panic
      /\ n.status = [s.status EXCEPT ![t] = "READY"] /\ n.ticks = s.ticks
      /\ n \in SchedType
  BY <1>2, <1>3, <1>4 DEF SchedType, Status
<1>6. n.ready # <<>>
  BY <1>4, <1>5 DEF elem_find
<1>7. MidOK(n)
  BY <1>3, <1>4, <1>5 DEF MidOK, Asleep
<1>8. QED
  BY <1>5, <1>6, <1>7 DEF n

(* Requeueing the running task leaves nobody RUNNING (thread.c schedule).  *)
LEMMA RequeueMid ==
  ASSUME NEW s \in SchedType, MidOK(s)
  PROVE  LET n == requeue(s) IN
         /\ n \in SchedType /\ MidOK(n) /\ n.cur = s.cur
         /\ \A t \in Task : n.status[t] # "RUNNING"
         /\ \A t \in Task : n.status[t] = IF s.status[t] = "RUNNING"
                                            THEN "READY" ELSE s.status[t]
<1> DEFINE n == requeue(s)
<1>1. /\ s.ready \in Seq(Task) /\ s.status \in [Task -> Status] /\ s.cur \in Task
      /\ s.ticks \in [Task -> Nat] /\ NoDuplicates(s.ready)
  BY DEF SchedType, MidOK
<1>2. CASE s.status[s.cur] # "RUNNING"
  BY <1>1, <1>2 DEF requeue, MidOK
<1>3. CASE s.status[s.cur] = "RUNNING"
  <2>1. ~elem_find(s.ready, s.cur)
    BY <1>1, <1>3 DEF MidOK
  <2>2. n = [s EXCEPT !.ready = list_append(s.ready, s.cur),
                      !.ticks = [s.ticks EXCEPT ![s.cur] = Prio[s.cur]],
                      !.status = [s.status EXCEPT ![s.cur] = "READY"]]
    BY <1>3, <2>1 DEF requeue
  <2> HIDE DEF n
  <2>3. /\ NoDuplicates(list_append(s.ready, s.cur))
        /\ list_append(s.ready, s.cur) \in Seq(Task)
        /\ \A u : elem_find(list_append(s.ready, s.cur), u)
                    <=> elem_find(s.ready, u) \/ u = s.cur
    <3>1. list_append(s.ready, s.cur) \in Seq(Task)
      BY <1>1 DEF list_append
    <3>2. QED
      BY <1>1, <2>1, <3>1, AppendFind, AppendNoDuplicates
  <2>4. /\ n.ready = list_append(s.ready, s.cur) /\ n.cur = s.cur
        /\ n.panic = s.panic
        /\ n.status = [s.status EXCEPT ![s.cur] = "READY"]
        /\ n \in SchedType
    BY <1>1, <2>2, <2>3, TaskAssumption DEF SchedType, Status
  <2>5. MidOK(n)
    BY <1>1, <1>3, <2>3, <2>4 DEF MidOK
  <2>6. QED
    BY <1>1, <1>3, <2>4, <2>5 DEF MidOK, n
<1>4. QED
  BY <1>2, <1>3

(* schedule() from a consistent scheduler finds a task to run, wakes       *)
(* nobody but idle and leaves the scheduler consistent: its ASSERTs and    *)
(* those of the thread_unblock inside it hold (thread.c schedule).         *)
LEMMA ScheduleOK ==
  ASSUME NEW s \in SchedType, MidOK(s)
  PROVE  LET n == schedule(s) IN
         n \in SchedType /\ SchedOK(n) /\ WakesOnlyIdle(s, n)
<1> DEFINE a == requeue(s)
           b == wake_idle(a)
           n == dispatch(b)
<1>1. /\ a \in SchedType /\ MidOK(a)
      /\ \A t \in Task : a.status[t] # "RUNNING"
      /\ \A t \in Task : a.status[t] = IF s.status[t] = "RUNNING"
                                         THEN "READY" ELSE s.status[t]
  BY RequeueMid
<1> HIDE DEF a
<1>2. /\ b \in SchedType /\ MidOK(b) /\ b.ready # <<>>
      /\ \A t \in Task : b.status[t] # "RUNNING"
      /\ \A t \in Task \ {Idle} : b.status[t] = a.status[t]
  <2>0. a.status \in [Task -> Status]
    BY <1>1 DEF SchedType
  <2>1. CASE a.ready # <<>>
    BY <1>1, <2>1 DEF wake_idle
  <2>2. CASE a.ready = <<>>
    <3>1. b = thread_unblock(a, Idle)
      BY <2>2 DEF wake_idle
    <3>2. ~elem_find(a.ready, Idle)
      BY <2>2 DEF elem_find
    <3>3. a.status[Idle] \in Asleep
      BY <1>1, <3>2, TaskAssumption DEF MidOK, Asleep
    <3> HIDE DEF b
    <3>4. /\ b \in SchedType /\ MidOK(b) /\ b.ready # <<>>
          /\ b.status = [a.status EXCEPT ![Idle] = "READY"]
      BY <1>1, <3>1, <3>3, UnblockMid, TaskAssumption
    <3>5. QED
      BY <1>1, <2>0, <3>4, TaskAssumption
  <2>3. QED
    BY <2>1, <2>2
<1> HIDE DEF b
<1> DEFINE h == Head(b.ready)
<1>3. /\ b.ready \in Seq(Task) /\ b.status \in [Task -> Status]
      /\ NoDuplicates(b.ready)
  BY <1>2 DEF SchedType, MidOK
<1>4. /\ h \in Task /\ Tail(b.ready) \in Seq(Task)
      /\ elem_find(b.ready, h) /\ NoDuplicates(Tail(b.ready))
      /\ \A u : elem_find(Tail(b.ready), u) <=> elem_find(b.ready, u) /\ u # h
  BY <1>2, <1>3, PopFind
<1>5. b.status[h] = "READY"
  BY <1>2, <1>4 DEF MidOK
<1>6. n = [b EXCEPT !.ready = Tail(b.ready),
                    !.status = [b.status EXCEPT ![h] = "RUNNING"],
                    !.cur = h]
  BY <1>2 DEF dispatch
<1> HIDE DEF n, h
<1>7. /\ n.ready = Tail(b.ready) /\ n.cur = h /\ n.panic = b.panic
      /\ n.status = [b.status EXCEPT ![h] = "RUNNING"]
      /\ n \in SchedType
  BY <1>2, <1>3, <1>4, <1>6 DEF SchedType, Status
<1>8. SchedOK(n)
  BY <1>2, <1>3, <1>4, <1>5, <1>7, TaskAssumption DEF MidOK, SchedOK
<1>9. WakesOnlyIdle(s, n)
  BY <1>1, <1>2, <1>3, <1>4, <1>5, <1>7 DEF WakesOnlyIdle, SchedType
<1>10. QED
  BY <1>7, <1>8, <1>9 DEF schedule, n, b, a

(* thread_block puts the running task to sleep and runs another one        *)
(* (thread.c thread_block).                                                *)
LEMMA BlockOK ==
  ASSUME NEW s \in SchedType, SchedOK(s), NEW stat \in Asleep,
         s.cur = Idle => stat = "BLOCKED"
  PROVE  LET n == thread_block(s, stat)
             m == [s EXCEPT !.status = [s.status EXCEPT ![s.cur] = stat]]
         IN  n \in SchedType /\ SchedOK(n) /\ WakesOnlyIdle(m, n)
<1> DEFINE m == [s EXCEPT !.status = [s.status EXCEPT ![s.cur] = stat]]
<1>1. /\ s.status \in [Task -> Status] /\ s.cur \in Task
  BY DEF SchedType
<1>2. /\ m \in SchedType /\ m.ready = s.ready /\ m.cur = s.cur
      /\ m.panic = s.panic
      /\ m.status = [s.status EXCEPT ![s.cur] = stat]
  BY <1>1 DEF SchedType, Status, Asleep
<1> HIDE DEF m
<1>3. MidOK(m)
  BY <1>1, <1>2, TaskAssumption DEF MidOK, SchedOK, Asleep
<1>4. schedule(m) \in SchedType /\ SchedOK(schedule(m)) /\ WakesOnlyIdle(m, schedule(m))
  BY <1>2, <1>3, ScheduleOK
<1>5. QED
  BY <1>4 DEF thread_block, m

(* thread_yield queues the running task and runs the first ready one       *)
(* (thread.c thread_yield).                                                *)
LEMMA YieldOK ==
  ASSUME NEW s \in SchedType, SchedOK(s)
  PROVE  LET n == thread_yield(s)
         IN  n \in SchedType /\ SchedOK(n) /\ WakesOnlyIdle(s, n)
<1> DEFINE m == [s EXCEPT !.ready = list_append(s.ready, s.cur),
                          !.status = [s.status EXCEPT ![s.cur] = "READY"]]
<1>1. /\ s.status \in [Task -> Status] /\ s.cur \in Task
      /\ s.ready \in Seq(Task) /\ NoDuplicates(s.ready)
      /\ ~elem_find(s.ready, s.cur) /\ s.status[s.cur] = "RUNNING"
  BY DEF SchedType, SchedOK
<1>2. /\ NoDuplicates(list_append(s.ready, s.cur))
      /\ list_append(s.ready, s.cur) \in Seq(Task)
      /\ \A u : elem_find(list_append(s.ready, s.cur), u)
                  <=> elem_find(s.ready, u) \/ u = s.cur
  <2>1. list_append(s.ready, s.cur) \in Seq(Task)
    BY <1>1 DEF list_append
  <2>2. QED
    BY <1>1, <2>1, AppendFind, AppendNoDuplicates
<1>3. /\ m \in SchedType /\ m.ready = list_append(s.ready, s.cur)
      /\ m.cur = s.cur /\ m.panic = s.panic
      /\ m.status = [s.status EXCEPT ![s.cur] = "READY"]
  BY <1>1, <1>2 DEF SchedType, Status
<1>4. thread_yield(s) = schedule(m)
  BY <1>1 DEF thread_yield
<1> HIDE DEF m
<1>5. MidOK(m)
  BY <1>1, <1>2, <1>3, TaskAssumption DEF MidOK, SchedOK
<1>6. schedule(m) \in SchedType /\ SchedOK(schedule(m)) /\ WakesOnlyIdle(m, schedule(m))
  BY <1>3, <1>5, ScheduleOK
<1>7. WakesOnlyIdle(s, schedule(m))
  BY <1>1, <1>3, <1>6 DEF WakesOnlyIdle
<1>8. QED
  BY <1>4, <1>6, <1>7

(* The timer handler keeps the scheduler consistent whether or not the     *)
(* slice is over (timer.c intr_timer_handler).                             *)
LEMMA TickOK ==
  ASSUME NEW s \in SchedType, SchedOK(s)
  PROVE  LET n == timer_tick(s)
         IN  n \in SchedType /\ SchedOK(n) /\ WakesOnlyIdle(s, n)
<1>1. CASE s.ticks[s.cur] = 0
  <2>1. MidOK(s)
    BY DEF MidOK, SchedOK
  <2>2. QED
    BY <1>1, <2>1, ScheduleOK DEF timer_tick
<1>2. CASE s.ticks[s.cur] # 0
  <2> DEFINE n == [s EXCEPT !.ticks = [s.ticks EXCEPT ![s.cur] = s.ticks[s.cur] - 1]]
  <2>1. s.ticks \in [Task -> Nat] /\ s.cur \in Task /\ s.status \in [Task -> Status]
    BY DEF SchedType
  <2>2. s.ticks[s.cur] - 1 \in Nat
    BY <1>2, <2>1
  <2>3. /\ n \in SchedType /\ n.ready = s.ready /\ n.cur = s.cur
        /\ n.panic = s.panic /\ n.status = s.status
    BY <2>1, <2>2 DEF SchedType
  <2>4. timer_tick(s) = n
    BY <1>2 DEF timer_tick
  <2> HIDE DEF n
  <2>5. SchedOK(n) /\ WakesOnlyIdle(s, n)
    BY <2>1, <2>3 DEF SchedOK, WakesOnlyIdle
  <2>6. QED
    BY <2>3, <2>4, <2>5
<1>3. QED
  BY <1>1, <1>2

(* thread_unblock called by a running task or by an interrupt handler on a *)
(* sleeping task (thread.c thread_unblock).                                *)
LEMMA UnblockOK ==
  ASSUME NEW s \in SchedType, SchedOK(s), NEW t \in Task,
         s.status[t] \in Asleep
  PROVE  LET n == thread_unblock(s, t) IN
         /\ n \in SchedType /\ SchedOK(n) /\ n.cur = s.cur
         /\ n.status = [s.status EXCEPT ![t] = "READY"]
<1>1. MidOK(s)
  BY DEF MidOK, SchedOK
<1> DEFINE n == thread_unblock(s, t)
<1>2. /\ n \in SchedType /\ MidOK(n) /\ n.cur = s.cur
      /\ n.status = [s.status EXCEPT ![t] = "READY"]
  BY <1>1, UnblockMid
<1> HIDE DEF n
<1>3. s.status \in [Task -> Status]
  BY DEF SchedType
<1>4. SchedOK(n)
  BY <1>2, <1>3 DEF SchedOK, MidOK, Asleep
<1>5. QED
  BY <1>2, <1>4 DEF n

(* idle going to sleep (thread.c idle).                                    *)
LEMMA IdleBlocks ==
  ASSUME NEW s \in SchedType, SchedOK(s), s.cur = Idle
  PROVE  LET n == thread_block(s, "BLOCKED")
         IN  n \in SchedType /\ SchedOK(n) /\ WakesOnlyIdle(s, n)
<1> DEFINE n == thread_block(s, "BLOCKED")
           m == [s EXCEPT !.status = [s.status EXCEPT ![s.cur] = "BLOCKED"]]
<1>1. n \in SchedType /\ SchedOK(n) /\ WakesOnlyIdle(m, n)
  BY BlockOK DEF Asleep
<1>2. \A t \in Task \ {Idle} : m.status[t] = s.status[t]
  BY DEF SchedType
<1> HIDE DEF m, n
<1>3. WakesOnlyIdle(s, n)
  BY <1>1, <1>2 DEF WakesOnlyIdle
<1>4. QED
  BY <1>1, <1>3 DEF n

(* n is s after its running task went to sleep with status stat: the other *)
(* tasks sleep, hang or are dead as before.                                *)
BlockedOnly(s, n, stat) ==
  /\ n \in SchedType /\ SchedOK(n)
  /\ n.status[s.cur] = stat
  /\ \A t \in Task \ {s.cur, Idle} : \A st \in Asleep \cup {"DIED"} :
       n.status[t] = st <=> s.status[t] = st

(* thread_block changes the status of the caller and of idle only          *)
(* (thread.c thread_block).                                                *)
LEMMA BlockChanges ==
  ASSUME NEW s \in SchedType, SchedOK(s), NEW stat \in Asleep, s.cur # Idle
  PROVE  BlockedOnly(s, thread_block(s, stat), stat)
<1> DEFINE n == thread_block(s, stat)
           m == [s EXCEPT !.status = [s.status EXCEPT ![s.cur] = stat]]
<1>1. n \in SchedType /\ SchedOK(n) /\ WakesOnlyIdle(m, n)
  BY BlockOK
<1>2. s.status \in [Task -> Status] /\ s.cur \in Task
  BY DEF SchedType
<1>3. m.status = [s.status EXCEPT ![s.cur] = stat]
  BY DEF SchedType
<1> HIDE DEF m, n
<1>4. n.status[s.cur] = stat
  BY <1>1, <1>2, <1>3 DEF WakesOnlyIdle, Asleep
<1>5. ASSUME NEW t \in Task \ {s.cur, Idle}, NEW st \in Asleep \cup {"DIED"}
      PROVE  n.status[t] = st <=> s.status[t] = st
  BY <1>1, <1>2, <1>3 DEF WakesOnlyIdle, Asleep
<1>6. QED
  BY <1>1, <1>4, <1>5 DEF BlockedOnly, n

-----------------------------------------------------------------------------
(* sync.c, as module SyscallLock has it.                                   *)

LockType == [value : {0, 1}, waiters : Seq(Task), holder : Task \cup {NoTask},
             repeat : Nat]

(* Lock k while the tasks W are in lock_acquire and the tasks H between    *)
(* lock_acquire and lock_release: H is its holder, if it has one; those in *)
(* W that sleep are its waiters; and if they could have the lock, one in W *)
(* is awake and will try.                                                  *)
LockInv(s, k, W, H) ==
  /\ k \in LockType
  /\ W \subseteq Task \ {Idle} /\ H \subseteq Task \ {Idle}
  /\ k.value = IF k.holder = NoTask THEN 1 ELSE 0
  /\ k.repeat = IF k.holder = NoTask THEN 0 ELSE 1
  /\ H = {k.holder} \ {NoTask}
  /\ NoDuplicates(k.waiters)
  /\ \A t \in Task : elem_find(k.waiters, t) <=> t \in W /\ s.status[t] = "BLOCKED"
  /\ k.waiters # <<>> /\ k.value = 1 =>
       \E t \in W : s.status[t] \in {"READY", "RUNNING"}

(* A lock as lock_init leaves it.                                          *)
LEMMA InitLock ==
  ASSUME NEW s
  PROVE  LockInv(s, FreeLock, {}, {})
<1>1. /\ FreeLock \in LockType /\ FreeLock.holder = NoTask /\ FreeLock.waiters = <<>>
      /\ FreeLock.value = 1 /\ FreeLock.repeat = 0
  BY DEF FreeLock, LockType
<1>2. NoDuplicates(<<>>) /\ \A t \in Task : ~elem_find(<<>>, t)
  BY DEF NoDuplicates, elem_find
<1>3. QED
  BY <1>1, <1>2 DEF LockInv

(* A step that leaves the lock alone and wakes or puts to sleep nobody in  *)
(* lock_acquire.                                                           *)
LEMMA LockUntouched ==
  ASSUME NEW s, NEW n, NEW k, NEW W, NEW H, LockInv(s, k, W, H),
         \A t \in W : n.status[t] = "BLOCKED" <=> s.status[t] = "BLOCKED",
         \A t \in W : s.status[t] \in {"READY", "RUNNING"} =>
                        n.status[t] \in {"READY", "RUNNING"}
  PROVE  LockInv(n, k, W, H)
BY DEF LockInv

(* lock_acquire of a lock that is free, by a task that runs.               *)
LEMMA LockAcquired ==
  ASSUME NEW s \in SchedType, NEW k, NEW W, NEW H, LockInv(s, k, W, H),
         NEW t \in Task \ (H \cup {Idle}), CanTake(k, t),
         s.status[t] # "BLOCKED"
  PROVE  H = {} /\ LockInv(s, Take(k, t), W \ {t}, {t})
<1>1. k \in LockType /\ k.holder # t /\ k.holder = NoTask /\ k.value = 1
  BY TaskAssumption DEF LockInv, CanTake
<1>2. Take(k, t) = [k EXCEPT !.value = 0, !.holder = t, !.repeat = 1]
  BY <1>1 DEF Take
<1>3. /\ Take(k, t) \in LockType /\ Take(k, t).value = 0 /\ Take(k, t).holder = t
      /\ Take(k, t).repeat = 1 /\ Take(k, t).waiters = k.waiters
  <2>1. 0 \in {0, 1} /\ 1 \in Nat /\ t \in Task \cup {NoTask}
    OBVIOUS
  <2>2. QED
    BY <1>1, <1>2, <2>1 DEF LockType
<1>4. \A u \in Task : elem_find(k.waiters, u) <=> u \in W \ {t} /\ s.status[u] = "BLOCKED"
  BY DEF LockInv
<1>5. QED
  BY <1>1, <1>3, <1>4, TaskAssumption DEF LockInv

(* lock_acquire of a lock that is held: the caller queues and sleeps.      *)
LEMMA LockQueued ==
  ASSUME NEW s \in SchedType, SchedOK(s), NEW k, NEW W, NEW H, LockInv(s, k, W, H),
         NEW t \in Task \ (H \cup {Idle}), s.cur = t, ~CanTake(k, t),
         NEW n, BlockedOnly(s, n, "BLOCKED")
  PROVE  LockInv(n, Enqueue(k, t), W \cup {t}, H)
<1>1. k \in LockType /\ k.value = 0 /\ k.waiters \in Seq(Task)
  BY DEF LockInv, LockType, CanTake
<1>2. ~elem_find(k.waiters, t)
  BY DEF LockInv, SchedOK
<1> DEFINE q == list_append(k.waiters, t)
<1>3. /\ q \in Seq(Task) /\ NoDuplicates(q)
      /\ \A u : elem_find(q, u) <=> elem_find(k.waiters, u) \/ u = t
  BY <1>1, <1>2, AppendFind, AppendNoDuplicates DEF LockInv, list_append
<1> HIDE DEF q
<1>4. /\ Enqueue(k, t) \in LockType /\ Enqueue(k, t).waiters = q
      /\ Enqueue(k, t).value = k.value /\ Enqueue(k, t).holder = k.holder
      /\ Enqueue(k, t).repeat = k.repeat
  BY <1>1, <1>3 DEF Enqueue, LockType, q
<1>5. /\ n.status[t] = "BLOCKED"
      /\ \A u \in Task \ {t, Idle} : n.status[u] = "BLOCKED" <=> s.status[u] = "BLOCKED"
  BY DEF BlockedOnly, Asleep
<1>6. \A u \in Task : elem_find(q, u) <=> u \in W \cup {t} /\ n.status[u] = "BLOCKED"
  BY <1>3, <1>5 DEF LockInv
<1>7. QED
  BY <1>1, <1>3, <1>4, <1>6 DEF LockInv

(* lock_release by the holder: its ASSERTs hold, the lock is free, and the *)
(* first waiter, if there is one, is awake and will try again.             *)
LEMMA LockReleased ==
  ASSUME NEW s \in SchedType, SchedOK(s), NEW k, NEW W, NEW H, LockInv(s, k, W, H),
         NEW t \in H
  PROVE  LET n == ReleaseSched(s, k, t) IN
         /\ n \in SchedType /\ SchedOK(n) /\ n.cur = s.cur
         /\ LockInv(n, Release(k), W, {})
         /\ \/ n = s
            \/ \E w \in W : /\ s.status[w] = "BLOCKED"
                            /\ n.status = [s.status EXCEPT ![w] = "READY"]
<1> DEFINE n == ReleaseSched(s, k, t)
<1>1. /\ k \in LockType /\ k.waiters \in Seq(Task) /\ NoDuplicates(k.waiters)
      /\ k.holder = t /\ k.repeat = 1 /\ t \in Task
  BY DEF LockInv, LockType
<1>2. s.status \in [Task -> Status]
  BY DEF SchedType
<1>3. ASSERT(s, ReleaseOK(k, t)) = s
  BY <1>1 DEF ASSERT, ReleaseOK, SchedType
<1>4. n = WakeFirst(s, k.waiters)
  <2>1. ~(k.repeat > 1)
    BY <1>1
  <2>2. QED
    BY <1>3, <2>1 DEF ReleaseSched
<1>5. Release(k) = [value |-> 1, holder |-> NoTask, repeat |-> 0,
                    waiters |-> IF k.waiters = <<>> THEN <<>> ELSE Tail(k.waiters)]
  <2>1. ~(k.repeat > 1)
    BY <1>1
  <2>2. QED
    BY <2>1 DEF Release
<1> HIDE DEF n
<1>6. CASE k.waiters = <<>>
  <2>1. n = s
    BY <1>4, <1>6 DEF WakeFirst
  <2>2. /\ Release(k) \in LockType /\ Release(k).waiters = k.waiters
        /\ Release(k).value = 1 /\ Release(k).holder = NoTask /\ Release(k).repeat = 0
    BY <1>1, <1>5, <1>6 DEF LockType
  <2>3. LockInv(n, Release(k), W, {})
    BY <1>6, <2>1, <2>2 DEF LockInv
  <2>4. QED
    BY <2>1, <2>3 DEF n
<1>7. CASE k.waiters # <<>>
  <2> DEFINE w == Head(k.waiters)
  <2>1. /\ w \in Task /\ Tail(k.waiters) \in Seq(Task) /\ elem_find(k.waiters, w)
        /\ NoDuplicates(Tail(k.waiters))
        /\ \A u : elem_find(Tail(k.waiters), u) <=> elem_find(k.waiters, u) /\ u # w
    BY <1>1, <1>7, PopFind
  <2>2. n = thread_unblock(s, w)
    BY <1>4, <1>7 DEF WakeFirst
  <2> HIDE DEF w
  <2>3. w \in W /\ s.status[w] = "BLOCKED"
    BY <2>1 DEF LockInv
  <2>4. /\ n \in SchedType /\ SchedOK(n) /\ n.cur = s.cur
        /\ n.status = [s.status EXCEPT ![w] = "READY"]
    BY <2>1, <2>2, <2>3, UnblockOK DEF Asleep
  <2>5. /\ Release(k) \in LockType /\ Release(k).waiters = Tail(k.waiters)
        /\ Release(k).value = 1 /\ Release(k).holder = NoTask /\ Release(k).repeat = 0
    BY <1>1, <1>5, <1>7, <2>1 DEF LockType
  <2>6. n.status[w] = "READY" /\ \A u \in Task \ {w} : n.status[u] = s.status[u]
    BY <1>2, <2>1, <2>4
  <2>7. \A u \in Task : elem_find(Tail(k.waiters), u) <=> u \in W /\ n.status[u] = "BLOCKED"
    BY <2>1, <2>6 DEF LockInv
  <2>8. LockInv(n, Release(k), W, {})
    BY <2>1, <2>3, <2>5, <2>6, <2>7 DEF LockInv
  <2>9. QED
    BY <2>3, <2>4, <2>8 DEF n
<1>8. QED
  BY <1>6, <1>7

-----------------------------------------------------------------------------
(* ioqueue.c: the ring, with b slots, head h and tail t.                   *)

(* How many characters it holds, and the characters, oldest first.         *)
RingLen(h, t, b) == IF h >= t THEN h - t ELSE b - (t - h)
RingSeq(buf, h, t, b) == [i \in 1 .. RingLen(h, t, b) |-> buf[(t + i - 1) % b]]

(* The slot of the i-th oldest character.                                  *)
RingSlot(t, i, b) == IF t + i - 1 < b THEN t + i - 1 ELSE t + i - 1 - b

(* Positions of the ring wrap around once.                                 *)
LEMMA ModWrap ==
  ASSUME NEW b \in Nat \ {0}, NEW x \in Nat, x < b + b
  PROVE  x % b = IF x < b THEN x ELSE x - b
OBVIOUS

(* The position after x.                                                   *)
LEMMA NextPos ==
  ASSUME NEW b \in Nat \ {0, 1}, NEW x \in 0 .. b - 1
  PROVE  /\ (x + 1) % b \in 0 .. b - 1
         /\ (x + 1) % b = IF x + 1 < b THEN x + 1 ELSE 0
<1> DEFINE y == x + 1
<1>1. y \in Nat /\ y < b + b /\ y <= b
  OBVIOUS
<1> HIDE DEF y
<1>2. y % b = IF y < b THEN y ELSE y - b
  BY <1>1, ModWrap
<1>3. y % b \in 0 .. b - 1 /\ y % b = IF y < b THEN y ELSE 0
  BY <1>1, <1>2
<1>4. QED
  BY <1>3 DEF y

(* Sequences are equal when their elements are.                            *)
LEMMA SeqsEqual ==
  ASSUME NEW S, NEW p \in Seq(S), NEW q \in Seq(S), Len(p) = Len(q),
         \A i \in 1 .. Len(p) : p[i] = q[i]
  PROVE  p = q
OBVIOUS

(* The facts about a ring that the lemmas below need.                      *)
RingFacts(C, b, buf, h, t) ==
  /\ RingLen(h, t, b) \in 0 .. b - 1
  /\ RingLen(h, t, b) = 0 <=> h = t
  /\ RingSeq(buf, h, t, b) \in Seq(C)
  /\ Len(RingSeq(buf, h, t, b)) = RingLen(h, t, b)
  /\ \A i \in 1 .. RingLen(h, t, b) :
        RingSeq(buf, h, t, b)[i] = buf[RingSlot(t, i, b)]

(* It never holds more than b - 1.                                         *)
LEMMA RingType ==
  ASSUME NEW C, NEW b \in Nat \ {0, 1}, NEW buf \in [0 .. b - 1 -> C],
         NEW h \in 0 .. b - 1, NEW t \in 0 .. b - 1
  PROVE  RingFacts(C, b, buf, h, t)
<1>1. RingLen(h, t, b) \in 0 .. b - 1 /\ (RingLen(h, t, b) = 0 <=> h = t)
  BY DEF RingLen
<1>2. ASSUME NEW i \in 1 .. RingLen(h, t, b)
      PROVE  /\ (t + i - 1) % b = RingSlot(t, i, b)
             /\ (t + i - 1) % b \in 0 .. b - 1
  <2> DEFINE x == t + i - 1
  <2>1. x \in Nat /\ x < b + b
    BY <1>1
  <2> HIDE DEF x
  <2>2. x % b = IF x < b THEN x ELSE x - b
    BY <2>1, ModWrap
  <2>3. x % b \in 0 .. b - 1
    BY <2>1, <2>2
  <2>4. QED
    BY <2>2, <2>3 DEF x, RingSlot
<1>3. RingSeq(buf, h, t, b) \in Seq(C) /\ Len(RingSeq(buf, h, t, b)) = RingLen(h, t, b)
  <2>1. \A i \in 1 .. RingLen(h, t, b) : buf[(t + i - 1) % b] \in C
    BY <1>2
  <2>2. QED
    BY <1>1, <2>1 DEF RingSeq
<1>4. QED
  BY <1>1, <1>2, <1>3 DEF RingSeq, RingFacts

(* ioq_putchar's store and advance of head append one character.           *)
RingPutFacts(C, b, buf, h, t, c) ==
  /\ (h + 1) % b \in 0 .. b - 1
  /\ RingLen(h, t, b) < b - 1
  /\ RingLen((h + 1) % b, t, b) = RingLen(h, t, b) + 1
  /\ RingSeq([buf EXCEPT ![h] = c], (h + 1) % b, t, b)
       = Append(RingSeq(buf, h, t, b), c)

(* It does so on a ring that is not full.                                  *)
LEMMA RingPut ==
  ASSUME NEW C, NEW b \in Nat \ {0, 1}, NEW buf \in [0 .. b - 1 -> C],
         NEW h \in 0 .. b - 1, NEW t \in 0 .. b - 1, NEW c \in C,
         (h + 1) % b # t
  PROVE  RingPutFacts(C, b, buf, h, t, c)
<1> DEFINE g == (h + 1) % b
           new == [buf EXCEPT ![h] = c]
           old == RingSeq(buf, h, t, b)
           r == RingSeq(new, g, t, b)
<1>1. g = (IF h + 1 < b THEN h + 1 ELSE 0) /\ g \in 0 .. b - 1 /\ g # t
  BY NextPos
<1>2. g \in 0 .. b - 1 /\ g # t
  BY <1>1
<1> HIDE DEF g
<1>3. RingLen(h, t, b) < b - 1 /\ RingLen(g, t, b) = RingLen(h, t, b) + 1
  BY <1>1, <1>2 DEF RingLen
<1>4. new \in [0 .. b - 1 -> C]
  OBVIOUS
<1> HIDE DEF new
<1>5. /\ old \in Seq(C) /\ Len(old) = RingLen(h, t, b) /\ RingLen(h, t, b) \in Nat
      /\ \A i \in 1 .. RingLen(h, t, b) :
           old[i] = buf[RingSlot(t, i, b)]
  <2>1. RingFacts(C, b, buf, h, t)
    BY RingType
  <2>2. QED
    BY <2>1 DEF RingFacts
<1>6. /\ r \in Seq(C) /\ Len(r) = RingLen(g, t, b)
      /\ \A i \in 1 .. RingLen(g, t, b) :
           r[i] = new[RingSlot(t, i, b)]
  <2>1. RingFacts(C, b, new, g, t)
    BY <1>2, <1>4, RingType
  <2>2. QED
    BY <2>1 DEF RingFacts
<1> HIDE DEF old, r
<1>7. ASSUME NEW i \in 1 .. Len(r)
      PROVE  r[i] = Append(old, c)[i]
  <2> DEFINE x == RingSlot(t, i, b)
  <2>1. CASE i = Len(old) + 1
    <3>1. x = h
      BY <1>3, <1>5, <2>1 DEF RingLen, RingSlot
    <3>2. Append(old, c)[i] = c
      BY <1>5, <2>1
    <3>3. QED
      BY <1>6, <3>1, <3>2 DEF new
  <2>2. CASE i # Len(old) + 1
    <3>1. i \in 1 .. Len(old) /\ x \in 0 .. b - 1 /\ x # h
      BY <1>3, <1>5, <1>6, <2>2 DEF RingLen, RingSlot
    <3>2. Append(old, c)[i] = old[i] /\ old[i] = buf[x]
      BY <1>5, <3>1
    <3>3. new[x] = buf[x]
      BY <3>1 DEF new
    <3>4. QED
      BY <1>6, <3>2, <3>3
  <2>3. QED
    BY <2>1, <2>2
<1>8. r = Append(old, c)
  <2>1. Append(old, c) \in Seq(C) /\ Len(Append(old, c)) = Len(r)
    BY <1>3, <1>5, <1>6
  <2>2. QED
    BY <1>6, <1>7, <2>1, SeqsEqual
<1>9. QED
  BY <1>2, <1>3, <1>8 DEF g, new, old, r, RingPutFacts

(* ioq_getchar's advance of tail takes the oldest character off.           *)
LEMMA RingGet ==
  ASSUME NEW C, NEW b \in Nat \ {0, 1}, NEW buf \in [0 .. b - 1 -> C],
         NEW h \in 0 .. b - 1, NEW t \in 0 .. b - 1, h # t
  PROVE  /\ (t + 1) % b \in 0 .. b - 1
         /\ RingLen(h, (t + 1) % b, b) = RingLen(h, t, b) - 1
         /\ RingSeq(buf, h, t, b) # <<>>
         /\ RingSeq(buf, h, (t + 1) % b, b) = Tail(RingSeq(buf, h, t, b))
<1> DEFINE g == (t + 1) % b
           old == RingSeq(buf, h, t, b)
           r == RingSeq(buf, h, g, b)
<1>1. g = (IF t + 1 < b THEN t + 1 ELSE 0) /\ g \in 0 .. b - 1
  BY NextPos
<1>2. g \in 0 .. b - 1
  BY <1>1
<1> HIDE DEF g
<1>3. RingLen(h, g, b) = RingLen(h, t, b) - 1
  BY <1>1, <1>2 DEF RingLen
<1>4. /\ old \in Seq(C) /\ Len(old) = RingLen(h, t, b) /\ Len(old) \in Nat
      /\ Len(old) # 0
      /\ \A i \in 1 .. Len(old) : old[i] = buf[RingSlot(t, i, b)]
  <2>1. RingFacts(C, b, buf, h, t)
    BY RingType
  <2>2. QED
    BY <2>1 DEF RingFacts
<1>5. /\ r \in Seq(C) /\ Len(r) = RingLen(h, g, b)
      /\ \A i \in 1 .. Len(r) : r[i] = buf[RingSlot(g, i, b)]
  <2>1. RingFacts(C, b, buf, h, g)
    BY <1>2, RingType
  <2>2. QED
    BY <2>1 DEF RingFacts
<1> HIDE DEF old, r
<1>6. old # <<>>
  BY <1>4
<1>7. /\ Tail(old) \in Seq(C) /\ Len(Tail(old)) = Len(r)
      /\ \A i \in 1 .. Len(r) : Tail(old)[i] = old[i + 1]
  BY <1>3, <1>4, <1>5, <1>6
<1>8. ASSUME NEW i \in 1 .. Len(r)
      PROVE  r[i] = old[i + 1]
  <2>1. /\ i + 1 \in 1 .. Len(old)
        /\ RingSlot(g, i, b) = RingSlot(t, i + 1, b)
    <3> DEFINE m == RingLen(h, t, b)
    <3>1. m \in Nat /\ i \in 1 .. m - 1 /\ Len(old) = m /\ m < b
      BY <1>3, <1>4, <1>5 DEF RingLen
    <3> HIDE DEF m
    <3>2. CASE t + 1 < b
      BY <1>1, <3>1, <3>2 DEF RingSlot
    <3>3. CASE ~(t + 1 < b)
      BY <1>1, <3>1, <3>3 DEF RingSlot
    <3>4. QED
      BY <3>2, <3>3
  <2>2. QED
    BY <1>4, <1>5, <2>1
<1>9. r = Tail(old)
  BY <1>5, <1>7, <1>8, SeqsEqual
<1>10. QED
  BY <1>2, <1>3, <1>6, <1>9 DEF g, old, r

(* Ioqueue's operators in the terms of the lemmas about rings.             *)
LEMMA RingForms ==
  ASSUME NEW q \in Ring
  PROVE  /\ q.buf \in [0 .. bufsize - 1 -> Char]
         /\ q.head \in 0 .. bufsize - 1 /\ q.tail \in 0 .. bufsize - 1
         /\ ioq_length(q) = RingLen(q.head, q.tail, bufsize)
         /\ Contents(q) = RingSeq(q.buf, q.head, q.tail, bufsize)
BY DEF Ring, ioq_length, RingLen, Contents, RingSeq

(* ioqueue_init is an empty ring.                                          *)
LEMMA InitRing == ioqueue_init \in Ring /\ Contents(ioqueue_init) = <<>>
<1>1. PICK c \in Char : TRUE
  BY IoqueueAssumption
<1>2. (CHOOSE x \in Char : TRUE) \in Char
  BY <1>1
<1>3. 0 \in 0 .. bufsize - 1
  BY IoqueueAssumption
<1>4. ioqueue_init \in Ring /\ ioqueue_init.head = 0 /\ ioqueue_init.tail = 0
  BY <1>2, <1>3 DEF ioqueue_init, Ring
<1> DEFINE q == ioqueue_init
<1> HIDE DEF q
<1>5. Contents(q) = RingSeq(q.buf, q.head, q.tail, bufsize) /\ q.head = 0 /\ q.tail = 0
  BY <1>4, RingForms DEF q
<1>6. RingFacts(Char, bufsize, q.buf, q.head, q.tail)
  BY <1>4, RingForms, RingType, IoqueueAssumption DEF q
<1>7. Contents(q) \in Seq(Char) /\ Len(Contents(q)) = 0
  BY <1>5, <1>6 DEF RingFacts
<1>8. QED
  BY <1>4, <1>7 DEF q

(* ioq_putchar on a ring that is not full.                                 *)
LEMMA PutRing ==
  ASSUME NEW q \in Ring, ~ioq_full(q), NEW c \in Char
  PROVE  /\ PutChar(q, c) \in Ring
         /\ Contents(PutChar(q, c)) = Append(Contents(q), c)
         /\ Len(Contents(q)) < bufsize - 1
         /\ ioq_length(PutChar(q, c)) = ioq_length(q) + 1
<1> DEFINE b == bufsize
           r == PutChar(q, c)
<1>1. /\ b \in Nat \ {0, 1} /\ q.buf \in [0 .. b - 1 -> Char]
      /\ q.head \in 0 .. b - 1 /\ q.tail \in 0 .. b - 1
      /\ (q.head + 1) % b # q.tail
  BY IoqueueAssumption, RingForms DEF ioq_full, next_pos
<1>2. /\ (q.head + 1) % b \in 0 .. b - 1
      /\ RingLen(q.head, q.tail, b) < b - 1
      /\ RingLen((q.head + 1) % b, q.tail, b) = RingLen(q.head, q.tail, b) + 1
      /\ RingSeq([q.buf EXCEPT ![q.head] = c], (q.head + 1) % b, q.tail, b)
           = Append(RingSeq(q.buf, q.head, q.tail, b), c)
  <2>1. RingPutFacts(Char, b, q.buf, q.head, q.tail, c)
    BY <1>1, RingPut
  <2>2. QED
    BY <2>1 DEF RingPutFacts
<1>3. /\ r.buf = [q.buf EXCEPT ![q.head] = c] /\ r.head = (q.head + 1) % b
      /\ r.tail = q.tail /\ r \in Ring
  BY <1>1, <1>2 DEF PutChar, next_pos, Ring
<1> HIDE DEF r
<1>4. Contents(r) = Append(Contents(q), c) /\ ioq_length(r) = ioq_length(q) + 1
  BY <1>2, <1>3, RingForms
<1>5. Len(Contents(q)) = RingLen(q.head, q.tail, b)
  <2>1. RingFacts(Char, b, q.buf, q.head, q.tail)
    BY <1>1, RingType
  <2>2. QED
    BY <2>1, RingForms DEF RingFacts
<1>6. QED
  BY <1>2, <1>3, <1>4, <1>5 DEF r

(* ioq_getchar on a ring that is not empty.                                *)
LEMMA GetRing ==
  ASSUME NEW q \in Ring, ~ioq_empty(q)
  PROVE  /\ GetChar(q) \in Ring
         /\ Contents(q) # <<>>
         /\ Contents(GetChar(q)) = Tail(Contents(q))
         /\ ioq_length(GetChar(q)) = ioq_length(q) - 1
<1> DEFINE b == bufsize
           r == GetChar(q)
<1>1. /\ b \in Nat \ {0, 1} /\ q.buf \in [0 .. b - 1 -> Char]
      /\ q.head \in 0 .. b - 1 /\ q.tail \in 0 .. b - 1 /\ q.head # q.tail
  BY IoqueueAssumption, RingForms DEF ioq_empty
<1>2. /\ (q.tail + 1) % b \in 0 .. b - 1
      /\ RingLen(q.head, (q.tail + 1) % b, b) = RingLen(q.head, q.tail, b) - 1
      /\ RingSeq(q.buf, q.head, q.tail, b) # <<>>
      /\ RingSeq(q.buf, q.head, (q.tail + 1) % b, b)
           = Tail(RingSeq(q.buf, q.head, q.tail, b))
  BY <1>1, RingGet
<1>3. /\ r.buf = q.buf /\ r.head = q.head /\ r.tail = (q.tail + 1) % b /\ r \in Ring
  BY <1>1, <1>2 DEF GetChar, next_pos, Ring
<1> HIDE DEF r
<1>4. QED
  BY <1>2, <1>3, RingForms DEF r

(* ioq_length counts from 0 to bufsize - 1, 0 for the empty ring only.     *)
LEMMA LengthRange ==
  ASSUME NEW q \in Ring
  PROVE  /\ ioq_length(q) \in 0 .. bufsize - 1
         /\ ioq_length(q) = 0 <=> ioq_empty(q)
<1>1. RingFacts(Char, bufsize, q.buf, q.head, q.tail)
  BY RingForms, RingType, IoqueueAssumption
<1>2. QED
  BY <1>1, RingForms DEF RingFacts, ioq_empty

-----------------------------------------------------------------------------
(* ioqueue.c: sleeping for a queue.  pc says where each task is (see       *)
(* KbdQueue and Pipe), k is the queue's lock and w its registered sleeper. *)

Queueing(pc) == {t \in Task : pc[t] = "lock"}
Holding(pc) == {t \in Task : pc[t] \in {"wait", "woken"}}

QueueLabels == {"lock", "wait", "woken", "idle", "hlt"}

(* A task other than idle sleeps for the lock or as the registered         *)
(* sleeper, which holds the lock.                                          *)
QueueInv(s, pc, k, w) ==
  /\ s \in SchedType /\ SchedOK(s)
  /\ LockInv(s, k, Queueing(pc), Holding(pc))
  /\ \A t \in Task : t = Idle <=> pc[t] \in {"idle", "hlt"}
  /\ \A t \in Task \ {Idle} :
       \/ s.status[t] \in {"RUNNING", "READY"}
       \/ s.status[t] = "BLOCKED" /\ (pc[t] = "lock" \/ t = w)
  /\ w # NoTask => w \in Task /\ pc[w] = "woken" /\ s.status[w] = "BLOCKED"

(* While tasks sleep for the queue, one is the registered sleeper or one   *)
(* is awake and will test the queue or pass the lock on.                   *)
LEMMA SomeoneToWake ==
  ASSUME NEW s, NEW pc, NEW k, NEW w, QueueInv(s, pc, k, w),
         NEW t \in Task, pc[t] \in {"lock", "woken"}
  PROVE  \/ w # NoTask /\ pc[w] = "woken"
         \/ \E u \in Task : /\ pc[u] \in {"lock", "wait", "woken"}
                            /\ s.status[u] \in {"READY", "RUNNING"}
<1>1. CASE s.status[t] # "BLOCKED" \/ t = w
  BY <1>1, TaskAssumption DEF QueueInv
<1>2. CASE s.status[t] = "BLOCKED" /\ t # w
  <2>1. t # Idle /\ pc[t] = "lock"
    BY <1>2 DEF QueueInv
  <2>2. k.waiters # <<>>
    BY <1>2, <2>1 DEF QueueInv, LockInv, Queueing, elem_find
  <2>3. CASE k.value = 1
    BY <2>2, <2>3 DEF QueueInv, LockInv, Queueing
  <2>4. CASE k.value # 1
    <3>1. k.holder # NoTask /\ k.holder \in Holding(pc)
      BY <2>4 DEF QueueInv, LockInv
    <3>2. k.holder \in Task \ {Idle} /\ pc[k.holder] \in {"wait", "woken"}
      BY <3>1 DEF QueueInv, LockInv, Holding
    <3>3. QED
      BY <3>1, <3>2 DEF QueueInv
  <2>5. QED
    BY <2>3, <2>4
<1>3. QED
  BY <1>1, <1>2

(* A step of a task that neither sleeps nor touches the lock.              *)
LEMMA QueuePlain ==
  ASSUME NEW s, NEW P, NEW pc \in [Task -> P], NEW k, NEW w, QueueInv(s, pc, k, w),
         NEW t \in Task \ {Idle}, pc[t] \notin QueueLabels,
         NEW label \in P, label \notin QueueLabels
  PROVE  QueueInv(s, [pc EXCEPT ![t] = label], k, w)
<1> DEFINE p == [pc EXCEPT ![t] = label]
<1>1. p[t] = label /\ \A u \in Task \ {t} : p[u] = pc[u]
  OBVIOUS
<1> HIDE DEF p
<1>2. Queueing(p) = Queueing(pc) /\ Holding(p) = Holding(pc)
  BY <1>1 DEF Queueing, Holding, QueueLabels
<1>3. QED
  BY <1>1, <1>2, TaskAssumption DEF QueueInv, QueueLabels, p

(* A timer tick, or idle going to sleep.                                   *)
LEMMA QueueSwitch ==
  ASSUME NEW s, NEW pc, NEW k, NEW w, QueueInv(s, pc, k, w),
         NEW n \in SchedType, SchedOK(n), WakesOnlyIdle(s, n),
         NEW p, p[Idle] \in {"idle", "hlt"}, \A t \in Task \ {Idle} : p[t] = pc[t]
  PROVE  QueueInv(n, p, k, w)
<1>1. Queueing(p) = Queueing(pc) /\ Holding(p) = Holding(pc)
  BY TaskAssumption DEF Queueing, Holding, QueueInv
<1>2. \A t \in Task \ {Idle} :
        /\ n.status[t] = "BLOCKED" <=> s.status[t] = "BLOCKED"
        /\ s.status[t] \in {"READY", "RUNNING"} => n.status[t] \in {"READY", "RUNNING"}
  BY DEF QueueInv, WakesOnlyIdle
<1>3. LockInv(s, k, Queueing(pc), Holding(pc)) /\ Queueing(pc) \subseteq Task \ {Idle}
  BY DEF QueueInv, LockInv
<1>4. LockInv(n, k, Queueing(pc), Holding(pc))
  BY <1>2, <1>3, LockUntouched
<1>5. QED
  BY <1>1, <1>2, <1>4, TaskAssumption DEF QueueInv

(* The running task takes the queue's lock ...                             *)
LEMMA QueueAcquired ==
  ASSUME NEW s, NEW P, NEW pc \in [Task -> P], NEW k, NEW w, QueueInv(s, pc, k, w),
         NEW t \in Task \ {Idle}, s.cur = t, pc[t] \notin {"wait", "woken"},
         CanTake(k, t)
  PROVE  QueueInv(s, [pc EXCEPT ![t] = "wait"], Take(k, t), w)
<1> DEFINE p == [pc EXCEPT ![t] = "wait"]
<1>1. p[t] = "wait" /\ \A u \in Task \ {t} : p[u] = pc[u]
  OBVIOUS
<1> HIDE DEF p
<1>2. s \in SchedType /\ s.status[t] = "RUNNING" /\ LockInv(s, k, Queueing(pc), Holding(pc))
  BY DEF QueueInv, SchedOK
<1>3. t \notin Holding(pc)
  BY DEF Holding
<1>4. /\ Holding(pc) = {}
      /\ LockInv(s, Take(k, t), Queueing(pc) \ {t}, {t})
  BY <1>2, <1>3, LockAcquired
<1>5. Queueing(p) = Queueing(pc) \ {t} /\ Holding(p) = {t}
  BY <1>1, <1>4 DEF Queueing, Holding
<1>6. w = NoTask
  BY <1>4 DEF Holding, QueueInv
<1>7. QED
  BY <1>1, <1>2, <1>4, <1>5, <1>6, TaskAssumption DEF QueueInv, p

(* ... or queues for it ...                                                *)
LEMMA QueueQueued ==
  ASSUME NEW s, NEW P, NEW pc \in [Task -> P], NEW k, NEW w, QueueInv(s, pc, k, w),
         NEW t \in Task \ {Idle}, s.cur = t, pc[t] \notin {"wait", "woken"},
         ~CanTake(k, t)
  PROVE  QueueInv(thread_block(s, "BLOCKED"), [pc EXCEPT ![t] = "lock"], Enqueue(k, t), w)
<1> DEFINE p == [pc EXCEPT ![t] = "lock"]
           n == thread_block(s, "BLOCKED")
<1>1. p[t] = "lock" /\ \A u \in Task \ {t} : p[u] = pc[u]
  OBVIOUS
<1> HIDE DEF p
<1>2. /\ s \in SchedType /\ SchedOK(s) /\ s.status[t] = "RUNNING"
      /\ LockInv(s, k, Queueing(pc), Holding(pc))
  BY DEF QueueInv, SchedOK
<1>3. t \notin Holding(pc)
  BY DEF Holding
<1>4. BlockedOnly(s, n, "BLOCKED")
  BY <1>2, BlockChanges DEF Asleep
<1> HIDE DEF n
<1>5. LockInv(n, Enqueue(k, t), Queueing(pc) \cup {t}, Holding(pc))
  BY <1>2, <1>3, <1>4, LockQueued
<1>6. Queueing(p) = Queueing(pc) \cup {t} /\ Holding(p) = Holding(pc)
  BY <1>1, <1>3 DEF Queueing, Holding
<1>7. /\ n \in SchedType /\ SchedOK(n) /\ n.status[t] = "BLOCKED"
      /\ \A u \in Task \ {t, Idle} : \A st \in Asleep \cup {"DIED"} :
           n.status[u] = st <=> s.status[u] = st
  BY <1>4 DEF BlockedOnly
<1>8. w # t
  BY <1>2, TaskAssumption DEF QueueInv
<1>9. ASSUME NEW u \in Task \ {Idle}
      PROVE  \/ n.status[u] \in {"RUNNING", "READY"}
             \/ n.status[u] = "BLOCKED" /\ (p[u] = "lock" \/ u = w)
  <2>1. n.status[u] \in Status
    BY <1>7 DEF SchedType
  <2>2. CASE u = t
    BY <1>1, <1>7, <2>2
  <2>3. CASE u # t
    BY <1>1, <1>7, <2>1, <2>3 DEF QueueInv, Asleep, Status
  <2>4. QED
    BY <2>2, <2>3
<1>10. w # NoTask => w \in Task /\ p[w] = "woken" /\ n.status[w] = "BLOCKED"
  BY <1>1, <1>7, <1>8 DEF QueueInv, Asleep
<1>11. \A u \in Task : u = Idle <=> p[u] \in {"idle", "hlt"}
  BY <1>1 DEF QueueInv
<1>12. QED
  BY <1>5, <1>6, <1>7, <1>9, <1>10, <1>11 DEF QueueInv, p, n

(* ... and finds no other sleeper when it holds it: the ASSERT of ioq_wait *)
(* passes ...                                                              *)
LEMMA NoOtherSleeper ==
  ASSUME NEW s, NEW pc, NEW k, NEW w, QueueInv(s, pc, k, w),
         NEW t \in Task, pc[t] = "wait"
  PROVE  w = NoTask /\ ASSERT(s, w = NoTask) = s
<1>1. s \in SchedType /\ SchedOK(s) /\ LockInv(s, k, Queueing(pc), Holding(pc))
  BY DEF QueueInv
<1>2. t \in Holding(pc) /\ t # NoTask
  BY TaskAssumption DEF Holding
<1>3. Holding(pc) = {t}
  BY <1>1, <1>2 DEF LockInv
<1>4. ASSUME w # NoTask PROVE FALSE
  <2>1. w \in Task /\ pc[w] = "woken"
    BY <1>4 DEF QueueInv
  <2>2. w \in Holding(pc)
    BY <2>1 DEF Holding
  <2>3. QED
    BY <1>3, <2>1, <2>2
<1>5. ASSERT(s, w = NoTask) = s
  BY <1>1, <1>4 DEF ASSERT, SchedType
<1>6. QED
  BY <1>4, <1>5

(* ... and sleeps holding it (ioq_wait).                                   *)
LEMMA QueueSlept ==
  ASSUME NEW s, NEW P, NEW pc \in [Task -> P], NEW k, NEW w, QueueInv(s, pc, k, w),
         NEW t \in Task \ {Idle}, s.cur = t, pc[t] = "wait"
  PROVE  QueueInv(thread_block(s, "BLOCKED"), [pc EXCEPT ![t] = "woken"], k, t)
<1> DEFINE p == [pc EXCEPT ![t] = "woken"]
           n == thread_block(s, "BLOCKED")
<1>1. p[t] = "woken" /\ \A u \in Task \ {t} : p[u] = pc[u]
  OBVIOUS
<1> HIDE DEF p
<1>2. /\ s \in SchedType /\ SchedOK(s) /\ s.status[t] = "RUNNING"
      /\ LockInv(s, k, Queueing(pc), Holding(pc))
  BY DEF QueueInv, SchedOK
<1>3. w = NoTask
  BY NoOtherSleeper
<1>4. BlockedOnly(s, n, "BLOCKED")
  BY <1>2, BlockChanges DEF Asleep
<1> HIDE DEF n
<1>5. /\ n \in SchedType /\ SchedOK(n) /\ n.status[t] = "BLOCKED"
      /\ \A u \in Task \ {t, Idle} : \A st \in Asleep \cup {"DIED"} :
           n.status[u] = st <=> s.status[u] = st
  BY <1>4 DEF BlockedOnly
<1>6. Queueing(p) = Queueing(pc) /\ Holding(p) = Holding(pc)
  BY <1>1 DEF Queueing, Holding
<1>7. ASSUME NEW u \in Task \ {t, Idle}
       PROVE  /\ n.status[u] = "BLOCKED" <=> s.status[u] = "BLOCKED"
              /\ n.status[u] \in {"RUNNING", "READY"} <=> s.status[u] \in {"RUNNING", "READY"}
  <2>1. n.status[u] \in Status /\ s.status[u] \in Status
    BY <1>2, <1>5 DEF SchedType
  <2>2. QED
    BY <1>5, <2>1 DEF Status, Asleep
<1>8. LockInv(n, k, Queueing(p), Holding(p))
  <2>1. \A u \in Queueing(pc) : u \in Task \ {t, Idle}
    BY <1>2 DEF LockInv, Queueing
  <2>2. QED
    BY <1>2, <1>6, <1>7, <2>1, LockUntouched
<1>9. \A u \in Task : u = Idle <=> p[u] \in {"idle", "hlt"}
  BY <1>1 DEF QueueInv
<1>10. \A u \in Task \ {Idle} :
         \/ n.status[u] \in {"RUNNING", "READY"}
         \/ n.status[u] = "BLOCKED" /\ (p[u] = "lock" \/ u = t)
  <2>1. ASSUME NEW u \in Task \ {t, Idle}
        PROVE  \/ s.status[u] \in {"RUNNING", "READY"}
               \/ s.status[u] = "BLOCKED" /\ pc[u] = "lock"
    BY <1>3, TaskAssumption DEF QueueInv
  <2>2. ASSUME NEW u \in Task \ {t, Idle}
        PROVE  \/ n.status[u] \in {"RUNNING", "READY"}
               \/ n.status[u] = "BLOCKED" /\ p[u] = "lock"
    BY <1>1, <1>7, <2>1
  <2>3. QED
    BY <1>5, <2>2
<1>11. QED
  BY <1>1, <1>5, <1>8, <1>9, <1>10 DEF QueueInv, p, n

(* lock_release does not switch tasks.                                     *)
LEMMA ReleaseKeepsCur ==
  ASSUME NEW s, NEW pc, NEW k, NEW w, QueueInv(s, pc, k, w),
         NEW t \in Task, pc[t] = "woken"
  PROVE  ReleaseSched(s, k, t).cur = s.cur
<1>1. /\ s \in SchedType /\ SchedOK(s) /\ LockInv(s, k, Queueing(pc), Holding(pc))
      /\ t \in Holding(pc)
  BY DEF QueueInv, Holding
<1>2. QED
  BY <1>1, LockReleased

(* A task that has been woken gives the lock back.                         *)
LEMMA QueueReleased ==
  ASSUME NEW s, NEW P, NEW pc \in [Task -> P], NEW k, NEW w, QueueInv(s, pc, k, w),
         NEW t \in Task \ {Idle}, s.cur = t, pc[t] = "woken",
         NEW label \in P, label \notin QueueLabels
  PROVE  QueueInv(ReleaseSched(s, k, t), [pc EXCEPT ![t] = label], Release(k), w)
<1> DEFINE p == [pc EXCEPT ![t] = label]
           n == ReleaseSched(s, k, t)
<1>1. p[t] = label /\ \A u \in Task \ {t} : p[u] = pc[u]
  OBVIOUS
<1> HIDE DEF p
<1>2. /\ s \in SchedType /\ SchedOK(s) /\ s.status[t] = "RUNNING"
      /\ LockInv(s, k, Queueing(pc), Holding(pc)) /\ s.status \in [Task -> Status]
  BY DEF QueueInv, SchedOK, SchedType
<1>3. t \in Holding(pc) /\ Holding(pc) = {t}
  BY <1>2, TaskAssumption DEF LockInv, Holding
<1>4. w = NoTask
  BY <1>2, <1>3 DEF QueueInv, Holding
<1>5. /\ n \in SchedType /\ SchedOK(n) /\ n.cur = s.cur
      /\ LockInv(n, Release(k), Queueing(pc), {})
      /\ \/ n = s
         \/ \E x \in Queueing(pc) : /\ s.status[x] = "BLOCKED"
                                    /\ n.status = [s.status EXCEPT ![x] = "READY"]
  BY <1>2, <1>3, LockReleased
<1> HIDE DEF n
<1>6. Queueing(p) = Queueing(pc) /\ Holding(p) = {}
  BY <1>1, <1>3 DEF Queueing, Holding, QueueLabels
<1>7. \A u \in Task \ {Idle} :
        \/ n.status[u] \in {"RUNNING", "READY"}
        \/ n.status[u] = "BLOCKED" /\ (p[u] = "lock" \/ u = w)
  <2>1. ASSUME NEW u \in Task \ {Idle}
        PROVE  \/ n.status[u] \in {"RUNNING", "READY"}
               \/ n.status[u] = s.status[u]
    BY <1>2, <1>5 DEF Queueing
  <2>2. QED
    BY <1>1, <1>2, <2>1 DEF QueueInv
<1>8. \A u \in Task : u = Idle <=> p[u] \in {"idle", "hlt"}
  BY <1>1, TaskAssumption DEF QueueInv, QueueLabels
<1>9. QED
  BY <1>4, <1>5, <1>6, <1>7, <1>8 DEF QueueInv, p, n

(* wakeup of the registered sleeper, if there is one: its ASSERT and those *)
(* of thread_unblock hold.                                                 *)
LEMMA QueueWoken ==
  ASSUME NEW s, NEW pc, NEW k, NEW w, QueueInv(s, pc, k, w)
  PROVE  LET n == IF w = NoTask THEN s ELSE thread_unblock(s, w)
         IN  n.cur = s.cur /\ QueueInv(n, pc, k, NoTask)
<1>1. CASE w = NoTask
  BY <1>1
<1>2. CASE w # NoTask
  <2> DEFINE n == thread_unblock(s, w)
  <2>1. /\ s \in SchedType /\ SchedOK(s) /\ w \in Task /\ pc[w] = "woken"
        /\ s.status[w] = "BLOCKED" /\ s.status \in [Task -> Status]
        /\ LockInv(s, k, Queueing(pc), Holding(pc))
    BY <1>2 DEF QueueInv, SchedType
  <2>2. /\ n \in SchedType /\ SchedOK(n) /\ n.cur = s.cur
        /\ n.status = [s.status EXCEPT ![w] = "READY"]
    BY <2>1, UnblockOK DEF Asleep
  <2> HIDE DEF n
  <2>3. n.status[w] = "READY" /\ \A u \in Task \ {w} : n.status[u] = s.status[u]
    BY <2>1, <2>2
  <2>4. w \notin Queueing(pc) /\ Queueing(pc) \subseteq Task
    BY <2>1 DEF Queueing
  <2>5. LockInv(n, k, Queueing(pc), Holding(pc))
    BY <2>1, <2>3, <2>4, LockUntouched
  <2>6. QueueInv(n, pc, k, NoTask)
    BY <2>2, <2>3, <2>5 DEF QueueInv
  <2>7. QED
    BY <1>2, <2>2, <2>6 DEF n
<1>3. QED
  BY <1>1, <1>2
=============================================================================
