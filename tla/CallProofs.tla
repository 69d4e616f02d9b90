----------------------------- MODULE CallProofs -----------------------------
(***************************************************************************)
(* What each service call of module Kernel does to correct data, for any   *)
(* tasks, priorities, semaphores and mutexes; first, what each operator of *)
(* module WaitQueue does to correct queues.                                *)
(*                                                                         *)
(* QueuesInv(d, live) says that the ready queue and the wait queues agree  *)
(* with the states of the tasks in live.  A function of wait.c or task.c   *)
(* that unlinks a task and changes its state later takes it out of live    *)
(* and puts it back: what holds in between is QueuesInv without the task.  *)
(*                                                                         *)
(* DataInv(I, C, d, live) is the invariant of the data that the CPU lock   *)
(* protects, for the tasks in live: all of them between two calls, all but *)
(* the one that ends while ext_tsk or ter_tsk releases its mutexes. I and C *)
(* are any sets of what tasks wait with and of control blocks: the module  *)
(* holds for every composition of the kernel with other objects.           *)
(***************************************************************************)
EXTENDS Kernel, ReadyQueueProofs

-----------------------------------------------------------------------------
(***************************************************************************)
(* The order of a list.                                                    *)
(***************************************************************************)
\* u is in front of v.
Before(q, u, v) == \E i, j \in DOMAIN q : i < j /\ q[i] = u /\ q[j] = v

\* No entry has a lower priority (a greater number) than one behind it.
Sorted(q, priority) == \A u, v : Before(q, u, v) => priority[u] <= priority[v]

\* The tasks in a list are entries of it.
LEMMA BeforeAreEntries ==
  ASSUME NEW q, NEW u, NEW v, Before(q, u, v)
  PROVE  u \in ToSet(q) /\ v \in ToSet(q)
  BY DEF Before, ToSet

\* The order of the indices is the order of the tasks.
LEMMA PriorityOrderedIsSorted ==
  ASSUME NEW d
  PROVE  PriorityOrdered(d) <=>
           \A o \in TPriObj : Sorted(d.wait_queue[o], d.rq.priority)
  BY DEF PriorityOrdered, Sorted, Before

\* queue_delete keeps the order of the entries that stay.
LEMMA QueueDeleteOrder ==
  ASSUME NEW S, NEW q \in Seq(S), NEW t, t \in ToSet(q), IsInjective(q),
         NEW u, NEW v
  PROVE  Before(queue_delete(q, t), u, v) <=> Before(q, u, v) /\ u # t /\ v # t
<1> DEFINE r == queue_delete(q, t)
<1>1. PICK n \in 1 .. Len(q) :
         /\ q[n] = t
         /\ r \in Seq(S) /\ Len(r) = Len(q) - 1
         /\ \A i \in 1 .. Len(r) : r[i] = IF i < n THEN q[i] ELSE q[i + 1]
  BY QueueDeleteEntries
<1> HIDE DEF r
<1>2. \A i, j \in 1 .. Len(q) : q[i] = q[j] => i = j
  BY DEF IsInjective
<1>3. ASSUME Before(r, u, v) PROVE Before(q, u, v) /\ u # t /\ v # t
  <2>1. PICK i \in 1 .. Len(r), j \in 1 .. Len(r) : i < j /\ r[i] = u /\ r[j] = v
    BY <1>1, <1>3 DEF Before
  <2> DEFINE i1 == IF i < n THEN i ELSE i + 1
             j1 == IF j < n THEN j ELSE j + 1
  <2>2. /\ i1 \in 1 .. Len(q) /\ j1 \in 1 .. Len(q) /\ i1 < j1
        /\ i1 # n /\ j1 # n /\ q[i1] = u /\ q[j1] = v
    BY <1>1, <2>1
  <2> HIDE DEF i1, j1
  <2>3. u # t /\ v # t
    BY <1>1, <1>2, <2>2
  <2>4. Before(q, u, v)
    BY <2>2 DEF Before
  <2>5. QED
    BY <2>3, <2>4
<1>4. ASSUME Before(q, u, v), u # t, v # t PROVE Before(r, u, v)
  <2>1. PICK i \in 1 .. Len(q), j \in 1 .. Len(q) : i < j /\ q[i] = u /\ q[j] = v
    BY <1>4 DEF Before
  <2> DEFINE i1 == IF i < n THEN i ELSE i - 1
             j1 == IF j < n THEN j ELSE j - 1
  <2>2. i # n /\ j # n
    BY <1>1, <1>4, <2>1
  <2>3. /\ i1 \in 1 .. Len(r) /\ j1 \in 1 .. Len(r) /\ i1 < j1
        /\ r[i1] = u /\ r[j1] = v
    BY <1>1, <2>1, <2>2
  <2> HIDE DEF i1, j1
  <2>4. QED
    BY <1>1, <2>3 DEF Before
<1>5. QED
  BY <1>3, <1>4 DEF r

\* Unlinking the first entry is queue_delete of it.
LEMMA TailIsQueueDelete ==
  ASSUME NEW S, NEW q \in Seq(S), q # << >>, IsInjective(q)
  PROVE  Head(q) \in ToSet(q) /\ Tail(q) = queue_delete(q, Head(q))
<1> DEFINE r == queue_delete(q, Head(q))
<1>1. Head(q) \in ToSet(q) /\ Head(q) = q[1] /\ 1 \in 1 .. Len(q)
  BY HeadIsEntry
<1>2. PICK n \in 1 .. Len(q) :
         /\ q[n] = Head(q)
         /\ r \in Seq(S) /\ Len(r) = Len(q) - 1
         /\ \A i \in 1 .. Len(r) : r[i] = IF i < n THEN q[i] ELSE q[i + 1]
  BY SMTT(60), <1>1, QueueDeleteEntries
<1> HIDE DEF r
<1>3. n = 1
  BY <1>1, <1>2 DEF IsInjective
<1>4. /\ Tail(q) \in Seq(S) /\ Len(Tail(q)) = Len(q) - 1
      /\ \A i \in 1 .. Len(Tail(q)) : Tail(q)[i] = q[i + 1]
  BY HeadTailProperties
<1>5. \A i \in 1 .. Len(r) : r[i] = Tail(q)[i]
  BY <1>2, <1>3, <1>4
<1>6. r = Tail(q)
  BY <1>2, <1>4, <1>5, SeqEqual
<1>7. QED
  BY <1>1, <1>6 DEF r

\* What a list with a new entry at n holds, and in what order.
LEMMA InsertedOrder ==
  ASSUME NEW S, NEW q \in Seq(S), NEW n \in 1 .. Len(q) + 1, NEW t \in S,
         t \notin ToSet(q), IsInjective(q),
         NEW r \in Seq(S), Len(r) = Len(q) + 1,
         \A i \in 1 .. Len(r) : r[i] = IF i < n THEN q[i]
                                       ELSE IF i = n THEN t ELSE q[i - 1]
  PROVE  /\ IsInjective(r)
         /\ ToSet(r) = ToSet(q) \cup {t}
         /\ \A u, v : u # t /\ v # t => (Before(r, u, v) <=> Before(q, u, v))
         /\ \A u : Before(r, u, t) => \E i \in 1 .. n - 1 : q[i] = u
         /\ \A u : Before(r, t, u) => \E i \in n .. Len(q) : q[i] = u
<1>1. \A i \in 1 .. Len(q) : q[i] # t
  BY DEF ToSet
<1>2. \A i, j \in 1 .. Len(q) : q[i] = q[j] => i = j
  BY DEF IsInjective
\* Where an entry of r comes from, and where one of q goes.
<1>3. \A i \in 1 .. Len(r) : r[i] # t => IF i < n THEN i \in 1 .. Len(q) /\ r[i] = q[i]
                                         ELSE i > n /\ i - 1 \in 1 .. Len(q) /\ r[i] = q[i - 1]
  OBVIOUS
<1>4. \A i \in 1 .. Len(q) : IF i < n THEN i \in 1 .. Len(r) /\ r[i] = q[i]
                             ELSE i + 1 \in 1 .. Len(r) /\ r[i + 1] = q[i]
  OBVIOUS
<1>5. n \in 1 .. Len(r) /\ \A i \in 1 .. Len(r) : r[i] = t <=> i = n
  <2>1. n \in 1 .. Len(r) /\ r[n] = t
    OBVIOUS
  <2>2. ASSUME NEW i \in 1 .. Len(r), i # n PROVE r[i] # t
    <3>1. IF i < n THEN i \in 1 .. Len(q) /\ r[i] = q[i]
          ELSE i > n /\ i - 1 \in 1 .. Len(q) /\ r[i] = q[i - 1]
      BY <2>2
    <3>2. CASE i < n
      BY <1>1, <3>1, <3>2
    <3>3. CASE ~(i < n)
      BY <1>1, <3>1, <3>3
    <3>4. QED
      BY <3>2, <3>3
  <2>3. QED
    BY <2>1, <2>2
<1>6. IsInjective(r)
  <2>1. ASSUME NEW i \in 1 .. Len(r), NEW j \in 1 .. Len(r), r[i] = r[j]
        PROVE  i = j
    <3>1. CASE r[i] = t
      BY <1>5, <2>1, <3>1
    <3>2. CASE r[i] # t
      <4>1. i # n /\ j # n
        BY <1>5, <2>1, <3>2
      <4>2. CASE i < n /\ j < n
        BY <1>2, <1>3, <2>1, <3>2, <4>2
      <4>3. CASE i < n /\ j > n
        BY <1>2, <1>3, <2>1, <3>2, <4>3
      <4>4. CASE i > n /\ j < n
        BY <1>2, <1>3, <2>1, <3>2, <4>4
      <4>5. CASE i > n /\ j > n
        BY <1>2, <1>3, <2>1, <3>2, <4>5
      <4>6. QED
        BY <4>1, <4>2, <4>3, <4>4, <4>5
    <3>3. QED
      BY <3>1, <3>2
  <2>2. QED
    BY <2>1 DEF IsInjective
<1>7. ToSet(r) \subseteq ToSet(q) \cup {t}
  BY SMTT(60), <1>3 DEF ToSet
<1>8. t \in ToSet(r)
  BY <1>5 DEF ToSet
<1>9. ASSUME NEW u \in ToSet(q) PROVE u \in ToSet(r)
  <2>1. PICK i \in 1 .. Len(q) : q[i] = u
    BY DEF ToSet
  <2>2. \E j \in 1 .. Len(r) : r[j] = u
    BY <1>4, <2>1
  <2>3. QED
    BY <2>2 DEF ToSet
<1>10. ASSUME NEW u, NEW v, u # t, v # t, Before(r, u, v) PROVE Before(q, u, v)
  <2>1. PICK i \in 1 .. Len(r), j \in 1 .. Len(r) : i < j /\ r[i] = u /\ r[j] = v
    BY <1>10 DEF Before
  <2> DEFINE i1 == IF i < n THEN i ELSE i - 1
             j1 == IF j < n THEN j ELSE j - 1
  <2>2. /\ i1 \in 1 .. Len(q) /\ j1 \in 1 .. Len(q) /\ i1 < j1
        /\ q[i1] = u /\ q[j1] = v
    BY <1>3, <1>5, <1>10, <2>1
  <2> HIDE DEF i1, j1
  <2>3. QED
    BY <2>2 DEF Before
<1>11. ASSUME NEW u, NEW v, Before(q, u, v) PROVE Before(r, u, v)
  <2>1. PICK i \in 1 .. Len(q), j \in 1 .. Len(q) : i < j /\ q[i] = u /\ q[j] = v
    BY <1>11 DEF Before
  <2> DEFINE i1 == IF i < n THEN i ELSE i + 1
             j1 == IF j < n THEN j ELSE j + 1
  <2>2. /\ i1 \in 1 .. Len(r) /\ j1 \in 1 .. Len(r) /\ i1 < j1
        /\ r[i1] = u /\ r[j1] = v
    BY <1>4, <2>1
  <2> HIDE DEF i1, j1
  <2>3. QED
    BY <2>2 DEF Before
<1>12. ASSUME NEW u, Before(r, u, t) PROVE \E i \in 1 .. n - 1 : q[i] = u
  <2>1. PICK i \in 1 .. Len(r), j \in 1 .. Len(r) : i < j /\ r[i] = u /\ r[j] = t
    BY <1>12 DEF Before
  <2>2. j = n
    BY <1>5, <2>1
  <2>3. i \in 1 .. n - 1 /\ q[i] = u
    BY <1>5, <2>1, <2>2
  <2>4. QED
    BY <2>3
<1>13. ASSUME NEW u, Before(r, t, u) PROVE \E i \in n .. Len(q) : q[i] = u
  <2>1. PICK i \in 1 .. Len(r), j \in 1 .. Len(r) : i < j /\ r[i] = t /\ r[j] = u
    BY <1>13 DEF Before
  <2>2. i = n
    BY <1>5, <2>1
  <2>3. j - 1 \in n .. Len(q) /\ q[j - 1] = u
    BY <1>5, <2>1, <2>2
  <2>4. QED
    BY <2>3
<1>14. QED
  BY <1>6, <1>7, <1>8, <1>9, <1>10, <1>11, <1>12, <1>13

\* A task that joins the end of a list is behind all others.
LEMMA AppendOrder ==
  ASSUME NEW S, NEW q \in Seq(S), NEW t \in S, t \notin ToSet(q), IsInjective(q)
  PROVE  /\ Append(q, t) \in Seq(S)
         /\ IsInjective(Append(q, t))
         /\ ToSet(Append(q, t)) = ToSet(q) \cup {t}
         /\ \A u, v : u # t /\ v # t => (Before(Append(q, t), u, v) <=> Before(q, u, v))
         /\ \A u : ~Before(Append(q, t), t, u)
<1> DEFINE r == Append(q, t)
<1>1. /\ r \in Seq(S) /\ Len(r) = Len(q) + 1
      /\ \A i \in 1 .. Len(q) : r[i] = q[i]
      /\ r[Len(q) + 1] = t
  BY AppendProperties
<1> DEFINE n == Len(q) + 1
<1> HIDE DEF r
<1>2. /\ n \in 1 .. Len(q) + 1
      /\ \A i \in 1 .. Len(r) : r[i] = IF i < n THEN q[i]
                                        ELSE IF i = n THEN t ELSE q[i - 1]
  BY <1>1
<1>3. /\ IsInjective(r) /\ ToSet(r) = ToSet(q) \cup {t}
      /\ \A u, v : u # t /\ v # t => (Before(r, u, v) <=> Before(q, u, v))
      /\ \A u : Before(r, t, u) => \E i \in n .. Len(q) : q[i] = u
  <2>1. r \in Seq(S) /\ Len(r) = Len(q) + 1
    BY <1>1
  <2> HIDE DEF n
  <2>2. QED
    BY SMTT(60), <1>2, <2>1, InsertedOrder
<1>4. n .. Len(q) = {}
  OBVIOUS
<1>5. QED
  BY <1>1, <1>3, <1>4 DEF r

\* queue_insert_tpri finds a place in the list.
LEMMA InsertTpriPlace ==
  ASSUME NEW q \in Seq(Task), NEW t, NEW priority
  PROVE  \E j \in 1 .. Len(q) + 1 : queue_insert_tpri(q, t, priority) = InsertAt(q, j, t)
<1> DEFINE notBelow == {i \in DOMAIN q : priority[t] < priority[q[i]]}
           n == IF notBelow = {} THEN Len(q) + 1 ELSE primap_search(notBelow)
<1>1. queue_insert_tpri(q, t, priority) = InsertAt(q, n, t)
  BY DEF queue_insert_tpri, primap_search
<1>2. n \in 1 .. Len(q) + 1
  <2>1. notBelow \in SUBSET (1 .. Len(q)) /\ Len(q) \in Nat
    OBVIOUS
  <2> HIDE DEF notBelow
  <2>2. CASE notBelow = {}
    BY <2>1, <2>2
  <2>3. CASE notBelow # {}
    <3>1. notBelow \in SUBSET Nat
      BY <2>1
    <3>2. primap_search(notBelow) \in notBelow
      BY <2>3, <3>1, SearchFindsMinimum
    <3>3. n = primap_search(notBelow)
      BY <2>3
    <3> HIDE DEF n
    <3>4. n \in 1 .. Len(q)
      BY <2>1, <3>2, <3>3
    <3>5. QED
      BY <2>1, <3>4
  <2>4. QED
    BY <2>2, <2>3
<1>3. QED
  BY <1>1, <1>2

\* queue_insert_tpri keeps a list in the order of the priorities.
LEMMA QueueInsertTpri ==
  ASSUME NEW q \in Seq(Task), NEW t \in Task, t \notin ToSet(q), IsInjective(q),
         NEW priority \in [Task -> Pri], Sorted(q, priority)
  PROVE  LET r == queue_insert_tpri(q, t, priority)
         IN  /\ r \in Seq(Task)
             /\ IsInjective(r)
             /\ ToSet(r) = ToSet(q) \cup {t}
             /\ Sorted(r, priority)
<1> DEFINE notBelow == {i \in DOMAIN q : priority[t] < priority[q[i]]}
           n == IF notBelow = {} THEN Len(q) + 1 ELSE primap_search(notBelow)
           r == InsertAt(q, n, t)
<1>1. queue_insert_tpri(q, t, priority) = r
  BY DEF queue_insert_tpri, primap_search
<1>2. /\ DOMAIN q = 1 .. Len(q) /\ Len(q) \in Nat
      /\ \A i \in 1 .. Len(q) : q[i] \in Task /\ priority[q[i]] \in Nat
      /\ priority[t] \in Nat
  BY DEF Pri
<1>3. /\ n \in 1 .. Len(q) + 1
      /\ \A i \in 1 .. n - 1 : priority[q[i]] <= priority[t]
      /\ n <= Len(q) => priority[t] < priority[q[n]]
  <2>1. CASE notBelow = {}
    <3>1. n = Len(q) + 1
      BY <2>1
    <3>2. QED
      BY <1>2, <2>1, <3>1
  <2>2. CASE notBelow # {}
    <3>1. notBelow \in SUBSET Nat
      BY <1>2
    <3>2. n \in notBelow /\ \A i \in notBelow : n <= i
      <4> HIDE DEF notBelow
      <4>1. QED
        BY <2>2, <3>1, SearchFindsMinimum
    <3> HIDE DEF n
    <3>3. QED
      BY SMTT(60), <1>2, <3>2
  <2>3. QED
    BY <2>1, <2>2
<1> HIDE DEF n
<1>4. /\ r \in Seq(Task) /\ Len(r) = Len(q) + 1
      /\ \A i \in 1 .. Len(r) : r[i] = IF i < n THEN q[i]
                                        ELSE IF i = n THEN t ELSE q[i - 1]
  BY <1>3, InsertAtEntries
<1> HIDE DEF r
<1>5. /\ IsInjective(r) /\ ToSet(r) = ToSet(q) \cup {t}
      /\ \A u, v : u # t /\ v # t => (Before(r, u, v) <=> Before(q, u, v))
      /\ \A u : Before(r, u, t) => \E i \in 1 .. n - 1 : q[i] = u
      /\ \A u : Before(r, t, u) => \E i \in n .. Len(q) : q[i] = u
  BY <1>3, <1>4, InsertedOrder
\* Whoever is behind n has a lower priority than q[n] or the same.
<1>6. \A i \in n .. Len(q) : priority[t] < priority[q[i]]
  <2> SUFFICES ASSUME NEW i \in n .. Len(q) PROVE priority[t] < priority[q[i]]
    OBVIOUS
  <2>1. i \in 1 .. Len(q) /\ n \in 1 .. Len(q) /\ n <= Len(q)
    BY <1>3
  <2>2. CASE i = n
    BY <1>3, <2>1, <2>2
  <2>3. CASE i # n
    <3>1. Before(q, q[n], q[i])
      BY <1>2, <2>1, <2>3 DEF Before
    <3>2. priority[q[n]] <= priority[q[i]]
      BY <3>1 DEF Sorted
    <3>3. QED
      BY <1>2, <1>3, <2>1, <3>2
  <2>4. QED
    BY <2>2, <2>3
<1>7. ~Before(r, t, t)
  <2>1. \A i \in 1 .. Len(q) : q[i] # t
    BY <1>2 DEF ToSet
  <2>2. QED
    BY <1>3, <1>5, <2>1
<1>8. ASSUME NEW u, NEW v, Before(r, u, v) PROVE priority[u] <= priority[v]
  <2>1. CASE u # t /\ v # t
    BY <1>5, <1>8, <2>1 DEF Sorted
  <2>2. CASE u # t /\ v = t
    BY <1>3, <1>5, <1>8, <2>2
  <2>3. CASE u = t /\ v # t
    <3>1. PICK i \in n .. Len(q) : q[i] = v
      BY <1>5, <1>8, <2>3
    <3>2. i \in 1 .. Len(q)
      BY <1>3
    <3>3. QED
      BY <1>2, <1>6, <2>3, <3>1, <3>2
  <2>4. QED
    BY <1>7, <1>8, <2>1, <2>2, <2>3
<1>9. QED
  BY <1>1, <1>4, <1>5, <1>8 DEF Sorted

\* The priority of a task that is not in a list plays no part in its order.
LEMMA SortedWithout ==
  ASSUME NEW q \in Seq(Task), NEW priority \in [Task -> Pri], Sorted(q, priority),
         NEW t, t \notin ToSet(q), NEW newpri
  PROVE  Sorted(q, [priority EXCEPT ![t] = newpri])
<1> SUFFICES ASSUME NEW u, NEW v, Before(q, u, v)
             PROVE  [priority EXCEPT ![t] = newpri][u] <= [priority EXCEPT ![t] = newpri][v]
  BY DEF Sorted
<1>1. u \in Task /\ v \in Task
  BY DEF Before
<1>2. u # t /\ v # t /\ priority[u] <= priority[v]
  BY BeforeAreEntries DEF Sorted
<1>3. QED
  BY <1>1, <1>2

-----------------------------------------------------------------------------
(***************************************************************************)
(* The record of the kernel's data, for WINFOs in I and control blocks C.  *)
(***************************************************************************)
KernelData(I, C) ==
  [rq : ReadyQueueType,
   tstat : [Task -> TStat], wobj : [Task -> WaitKind],
   tmevtb : [Task -> BOOLEAN], wercd : [Task -> ErCd],
   bpriority : [Task -> Pri],
   actque : [Task -> BOOLEAN], wupque : [Task -> BOOLEAN],
   waifbd : [Task -> BOOLEAN],
   wait_queue : [Obj -> Seq(Task)],
   semcnt : [Sem -> Nat],
   loctsk : [Mtx -> Task \cup {NoTask}],
   mutex_queue : [Task -> Seq(Mtx)],
   winfo : [Task -> I], cb : C]

\* The queues are right for the tasks in live.
QueuesInv(d, live) ==
  ReadyQueueInv(d.rq, RunnableTasks(d) \cap live) /\ WaitQueueInv(d, live)

\* What a function leaves alone.
SameStates(k2, d) ==
  k2.tstat = d.tstat /\ k2.wobj = d.wobj /\ k2.tmevtb = d.tmevtb
SameWINFO(k2, d) == k2.wercd = d.wercd /\ k2.winfo = d.winfo
SameRequests(k2, d) ==
  /\ k2.bpriority = d.bpriority /\ k2.actque = d.actque
  /\ k2.wupque = d.wupque /\ k2.waifbd = d.waifbd
SameObjects(k2, d) ==
  /\ k2.semcnt = d.semcnt /\ k2.loctsk = d.loctsk
  /\ k2.mutex_queue = d.mutex_queue /\ k2.cb = d.cb

\* The types of the fields.
LEMMA DataFields ==
  ASSUME NEW I, NEW C, NEW d \in KernelData(I, C)
  PROVE  /\ d.rq \in ReadyQueueType /\ d.rq.priority \in [Task -> Pri]
         /\ d.tstat \in [Task -> TStat] /\ d.wobj \in [Task -> WaitKind]
         /\ d.tmevtb \in [Task -> BOOLEAN] /\ d.wercd \in [Task -> ErCd]
         /\ d.bpriority \in [Task -> Pri]
         /\ d.actque \in [Task -> BOOLEAN] /\ d.wupque \in [Task -> BOOLEAN]
         /\ d.waifbd \in [Task -> BOOLEAN]
         /\ d.wait_queue \in [Obj -> Seq(Task)]
         /\ d.semcnt \in [Sem -> Nat] /\ d.loctsk \in [Mtx -> Task \cup {NoTask}]
         /\ d.mutex_queue \in [Task -> Seq(Mtx)]
         /\ d.winfo \in [Task -> I] /\ d.cb \in C
  BY DEF KernelData, ReadyQueueType

\* The queues depend on nothing else.
LEMMA QueuesDependOn ==
  ASSUME NEW d, NEW k2, NEW L, QueuesInv(d, L),
         k2.rq = d.rq, SameStates(k2, d), k2.wait_queue = d.wait_queue
  PROVE  QueuesInv(k2, L)
<1>1. RunnableTasks(k2) = RunnableTasks(d)
  BY DEF RunnableTasks, IsRunnable, SameStates
<1>2. QED
  BY <1>1 DEF QueuesInv, SameStates, WaitQueueInv, QueuedWhereWaiting, PriorityOrdered,
              TimeoutOnlyWhileWaiting, IsWaiting

\* The same of the five fields that the queues depend on.
QueuesOf(rq, tstat, wobj, tmevtb, wait_queue, L) ==
  /\ \A t \in Task, o \in Obj : t \in ToSet(wait_queue[o]) <=> t \in L /\ wobj[t] = o
  /\ \A t \in L : tstat[t] \in {"WAITING", "WAITING-SUSPENDED"} <=> wobj[t] # NoObj
  /\ \A o \in Obj : IsInjective(wait_queue[o])
  /\ \A o \in TPriObj : Sorted(wait_queue[o], rq.priority)
  /\ \A t \in Task : tmevtb[t] => tstat[t] \in {"WAITING", "WAITING-SUSPENDED"}
  /\ ReadyQueueInv(rq, {t \in L : tstat[t] = "RUNNABLE"})

\* The invariant says nothing else.
LEMMA QueuesAre ==
  ASSUME NEW d, NEW L \in SUBSET Task
  PROVE  QueuesInv(d, L) <=>
           QueuesOf(d.rq, d.tstat, d.wobj, d.tmevtb, d.wait_queue, L)
<1>1. RunnableTasks(d) \cap L = {t \in L : d.tstat[t] = "RUNNABLE"}
  BY DEF RunnableTasks, IsRunnable
<1>2. QED
  BY <1>1, PriorityOrderedIsSorted
     DEF QueuesInv, WaitQueueInv, QueuedWhereWaiting, TimeoutOnlyWhileWaiting, IsWaiting,
         QueuesOf

\* What the names of the objects are not.
LEMMA ObjNames ==
  /\ NoObj \notin Obj /\ "SLP" \notin Obj /\ "DLY" \notin Obj
  /\ NoObj # "SLP" /\ NoObj # "DLY"
  /\ Sem \subseteq Obj /\ Mtx \subseteq Obj /\ ComObj \subseteq Obj /\ TPriObj \subseteq Obj
  /\ Sem \cap Mtx = {} /\ Obj \subseteq WaitKind /\ NoObj \in WaitKind
  BY ObjAssumption DEF Obj, WaitKind

-----------------------------------------------------------------------------
(***************************************************************************)
(* Leaving a queue.                                                        *)
(***************************************************************************)
\* wait_dequeue_wobj takes a task out of its wait queue, if it is in one.
LEMMA Dequeue ==
  ASSUME NEW I, NEW C, NEW d \in KernelData(I, C), NEW L \in SUBSET Task, QueuesInv(d, L),
         NEW t \in L, IsWaiting(d, t)
  PROVE  LET k2 == wait_dequeue_wobj(d, t)
         IN  /\ k2 \in KernelData(I, C) /\ QueuesInv(k2, L \ {t})
             /\ k2.rq = d.rq /\ SameStates(k2, d) /\ SameWINFO(k2, d)
             /\ SameRequests(k2, d) /\ SameObjects(k2, d)
             /\ \A o \in Obj : k2.wait_queue[o] = IF d.wobj[t] = o
                                                 THEN queue_delete(d.wait_queue[o], t)
                                                 ELSE d.wait_queue[o]
<1> DEFINE k2 == wait_dequeue_wobj(d, t)
           obj == d.wobj[t]
           wq == [d.wait_queue EXCEPT ![obj] = queue_delete(@, t)]
           Q(w, M) == QueuesOf(d.rq, d.tstat, d.wobj, d.tmevtb, w, M)
<1>1. t \in Task /\ d.tstat[t] # "RUNNABLE" /\ d.wait_queue \in [Obj -> Seq(Task)]
  BY DataFields DEF IsWaiting
<1>2. Q(d.wait_queue, L)
  BY QueuesAre
<1>3. {u \in L \ {t} : d.tstat[u] = "RUNNABLE"} = {u \in L : d.tstat[u] = "RUNNABLE"}
  BY <1>1
<1>4. CASE obj \in Obj
  <2>1. k2 = [d EXCEPT !.wait_queue = wq]
    BY <1>4 DEF wait_dequeue_wobj
  <2> DEFINE q == d.wait_queue[obj]
             r == queue_delete(q, t)
  <2>2. q \in Seq(Task) /\ t \in ToSet(q) /\ IsInjective(q)
    BY <1>1, <1>2, <1>4 DEF QueuesOf
  <2>3. r \in Seq(Task) /\ IsInjective(r) /\ ToSet(r) = ToSet(q) \ {t}
    BY <2>2, QueueDelete
  <2>4. \A u, v : Before(r, u, v) => Before(q, u, v)
    <3> HIDE DEF q
    <3>1. QED
      BY <2>2, QueueDeleteOrder
  <2>5. /\ wq \in [Obj -> Seq(Task)] /\ wq[obj] = r
        /\ \A o \in Obj : o # obj => wq[o] = d.wait_queue[o]
    BY <1>1, <1>4, <2>3
  <2> HIDE DEF wq, r
  <2>6. /\ k2 \in KernelData(I, C) /\ k2.wait_queue = wq /\ k2.rq = d.rq
        /\ SameStates(k2, d) /\ SameWINFO(k2, d) /\ SameRequests(k2, d) /\ SameObjects(k2, d)
    BY <2>1, <2>5 DEF KernelData, SameStates, SameWINFO, SameRequests, SameObjects
  <2> HIDE DEF k2
  <2>7. Q(wq, L \ {t})
    <3>1. \A u \in Task, o \in Obj :
            u \in ToSet(wq[o]) <=> u \in L \ {t} /\ d.wobj[u] = o
      BY <1>2, <2>3, <2>5 DEF QueuesOf
    <3>2. \A o \in Obj : IsInjective(wq[o])
      BY <1>2, <2>3, <2>5 DEF QueuesOf
    <3>3. \A o \in TPriObj : Sorted(wq[o], d.rq.priority)
      <4>1. Sorted(q, d.rq.priority) => Sorted(r, d.rq.priority)
        BY <2>4 DEF Sorted
      <4>2. QED
        BY <1>2, <2>5, <4>1, ObjNames DEF QueuesOf
    <3>4. QED
      BY <1>2, <1>3, <3>1, <3>2, <3>3 DEF QueuesOf
  <2>8. QueuesInv(k2, L \ {t})
    BY <2>6, <2>7, QueuesAre DEF SameStates
  <2>9. QED
    BY <2>5, <2>6, <2>8 DEF k2, r
<1>5. CASE obj \notin Obj
  <2>1. k2 = d
    BY <1>5 DEF wait_dequeue_wobj
  <2>2. Q(d.wait_queue, L \ {t})
    <3>1. \A u \in Task, o \in Obj :
            u \in ToSet(d.wait_queue[o]) <=> u \in L \ {t} /\ d.wobj[u] = o
      BY <1>2, <1>5 DEF QueuesOf
    <3>2. QED
      BY <1>2, <1>3, <3>1 DEF QueuesOf
  <2>3. QueuesInv(d, L \ {t})
    BY <2>2, QueuesAre
  <2>4. QED
    BY <1>5, <2>1, <2>3 DEF SameStates, SameWINFO, SameRequests, SameObjects
<1>6. QED
  BY <1>4, <1>5

\* Unlinking the first waiter of an object is wait_dequeue_wobj of it.
LEMMA DequeueNext ==
  ASSUME NEW I, NEW C, NEW d \in KernelData(I, C), NEW L \in SUBSET Task, QueuesInv(d, L),
         NEW o \in Obj, d.wait_queue[o] # << >>
  PROVE  LET t == Head(d.wait_queue[o])
         IN  /\ t \in L /\ IsWaiting(d, t) /\ d.wobj[t] = o
             /\ queue_delete_next(d, o) = wait_dequeue_wobj(d, t)
<1> DEFINE q == d.wait_queue[o]
           t == Head(q)
<1>1. QueuesOf(d.rq, d.tstat, d.wobj, d.tmevtb, d.wait_queue, L)
  BY QueuesAre
<1>2. IsInjective(q) /\ q \in Seq(Task) /\ q # << >>
  BY <1>1, DataFields DEF QueuesOf
<1>3. t \in ToSet(q) /\ Tail(q) = queue_delete(q, t) /\ t \in Task
  <2> HIDE DEF q
  <2>1. QED
    BY <1>2, TailIsQueueDelete, HeadIsEntry
<1>4. t \in L /\ d.wobj[t] = o
  BY <1>1, <1>3 DEF QueuesOf
<1>5. IsWaiting(d, t)
  BY <1>1, <1>4, ObjNames DEF IsWaiting, QueuesOf
<1>6. QED
  BY <1>3, <1>4, <1>5 DEF queue_delete_next, wait_dequeue_wobj

\* make_non_runnable takes a task out of the ready queue.
LEMMA MakeNonRunnable ==
  ASSUME NEW I, NEW C, NEW d \in KernelData(I, C), NEW L \in SUBSET Task, QueuesInv(d, L),
         NEW t \in L, IsRunnable(d, t)
  PROVE  LET rq2 == make_non_runnable(d.rq, t)
             k2 == [d EXCEPT !.rq = rq2]
         IN  /\ k2 \in KernelData(I, C) /\ QueuesInv(k2, L \ {t})
             /\ rq2 \in ReadyQueueType /\ rq2.priority = d.rq.priority
             /\ d.rq.schedtsk # t => rq2.schedtsk = d.rq.schedtsk
             /\ k2.rq = rq2 /\ k2.wait_queue = d.wait_queue
             /\ SameStates(k2, d) /\ SameWINFO(k2, d)
             /\ SameRequests(k2, d) /\ SameObjects(k2, d)
             /\ d.wobj[t] = NoObj /\ ~d.tmevtb[t]
<1> DEFINE rq2 == make_non_runnable(d.rq, t)
           k2 == [d EXCEPT !.rq = rq2]
           R == {u \in L : d.tstat[u] = "RUNNABLE"}
<1>1. /\ t \in Task /\ t \in R /\ R \in SUBSET Task /\ d.rq \in ReadyQueueType
      /\ d.tstat[t] = "RUNNABLE"
  BY DataFields DEF IsRunnable
<1>2. QueuesOf(d.rq, d.tstat, d.wobj, d.tmevtb, d.wait_queue, L)
  BY QueuesAre
<1>3. ReadyQueueInv(d.rq, R)
  BY <1>2 DEF QueuesOf
<1>4. rq2 \in ReadyQueueType /\ ReadyQueueInv(rq2, R \ {t})
  <2> HIDE DEF R
  <2>1. QED
    BY <1>1, <1>3, MakeNonRunnable_Correct
<1>5. rq2.priority = d.rq.priority /\ (d.rq.schedtsk # t => rq2.schedtsk = d.rq.schedtsk)
  BY <1>1 DEF make_non_runnable, ReadyQueueType
<1> HIDE DEF rq2
<1>6. /\ k2 \in KernelData(I, C) /\ k2.rq = rq2 /\ k2.wait_queue = d.wait_queue
      /\ SameStates(k2, d) /\ SameWINFO(k2, d) /\ SameRequests(k2, d) /\ SameObjects(k2, d)
  BY <1>4 DEF KernelData, SameStates, SameWINFO, SameRequests, SameObjects
<1> HIDE DEF k2
<1>7. d.wobj[t] = NoObj /\ ~d.tmevtb[t]
  BY <1>1, <1>2 DEF QueuesOf
<1>8. R \ {t} = {u \in L \ {t} : d.tstat[u] = "RUNNABLE"}
  OBVIOUS
<1>9. QueuesOf(rq2, d.tstat, d.wobj, d.tmevtb, d.wait_queue, L \ {t})
  <2>1. \A u \in Task, o \in Obj :
          u \in ToSet(d.wait_queue[o]) <=> u \in L \ {t} /\ d.wobj[u] = o
    BY <1>2, <1>7, ObjNames DEF QueuesOf
  <2> HIDE DEF R
  <2>2. QED
    BY <1>2, <1>4, <1>5, <1>8, <2>1 DEF QueuesOf
<1>10. QueuesInv(k2, L \ {t})
  BY <1>6, <1>9, QueuesAre DEF SameStates
<1>11. QED
  BY <1>4, <1>5, <1>6, <1>7, <1>10 DEF k2, rq2
-----------------------------------------------------------------------------
(***************************************************************************)
(* Joining a queue.                                                        *)
(***************************************************************************)
\* A task outside live that is neither waiting nor runnable belongs to no queue.
LEMMA LeaveNoQueue ==
  ASSUME NEW I, NEW C, NEW d \in KernelData(I, C), NEW L \in SUBSET Task, QueuesInv(d, L),
         NEW t \in L, d.tstat[t] \in {"DORMANT", "SUSPENDED"}
  PROVE  QueuesInv(d, L \ {t}) /\ d.wobj[t] = NoObj /\ ~d.tmevtb[t]
<1>1. QueuesOf(d.rq, d.tstat, d.wobj, d.tmevtb, d.wait_queue, L)
  BY QueuesAre
<1>2. d.wobj[t] = NoObj /\ ~d.tmevtb[t] /\ t \in Task /\ d.tstat[t] # "RUNNABLE"
  BY <1>1 DEF QueuesOf
<1>3. {u \in L \ {t} : d.tstat[u] = "RUNNABLE"} = {u \in L : d.tstat[u] = "RUNNABLE"}
  BY <1>2
<1>4. \A u \in Task, o \in Obj :
        u \in ToSet(d.wait_queue[o]) <=> u \in L \ {t} /\ d.wobj[u] = o
  BY <1>1, <1>2, ObjNames DEF QueuesOf
<1>5. QueuesOf(d.rq, d.tstat, d.wobj, d.tmevtb, d.wait_queue, L \ {t})
  BY <1>1, <1>3, <1>4 DEF QueuesOf
<1>6. QED
  BY <1>2, <1>5, QueuesAre

\* From d to k2, a task t gets the state s, with what goes with it.
NewState(d, k2, t, s, kind, timed) ==
  /\ s \in TStat /\ kind \in WaitKind /\ timed \in BOOLEAN
  /\ s \in {"WAITING", "WAITING-SUSPENDED"} <=> kind # NoObj
  /\ timed => kind # NoObj
  /\ k2.tstat = [d.tstat EXCEPT ![t] = s]
  /\ k2.wobj = [d.wobj EXCEPT ![t] = kind]
  /\ k2.tmevtb = [d.tmevtb EXCEPT ![t] = timed]

\* Only the wait queue of kind has t as a new entry, and all are in order.
JoinsWaitQueue(d, k2, t, kind) ==
  /\ \A o \in Obj : /\ ToSet(k2.wait_queue[o]) = ToSet(d.wait_queue[o]) \cup
                                                  (IF o = kind THEN {t} ELSE {})
                    /\ IsInjective(k2.wait_queue[o])
  /\ \A o \in TPriObj : Sorted(k2.wait_queue[o], k2.rq.priority)

\* The ready queue holds the runnable tasks of L, and t if it is runnable.
JoinsReadyQueue(d, k2, L, t, s) ==
  ReadyQueueInv(k2.rq, {u \in L : d.tstat[u] = "RUNNABLE"} \cup
                       (IF s = "RUNNABLE" THEN {t} ELSE {}))

\* A task outside live joins the queue of its new state and of no other.
LEMMA Join ==
  ASSUME NEW I, NEW C, NEW d \in KernelData(I, C), NEW L \in SUBSET Task, QueuesInv(d, L),
         NEW t \in Task, t \notin L, NEW s, NEW kind, NEW timed, NEW k2,
         NewState(d, k2, t, s, kind, timed),
         JoinsWaitQueue(d, k2, t, kind),
         JoinsReadyQueue(d, k2, L, t, s)
  PROVE  QueuesInv(k2, L \cup {t})
<1> DEFINE tstat == d.tstat
           wobj == d.wobj
           tmevtb == d.tmevtb
           wq == d.wait_queue
           rq2 == k2.rq
           wq2 == k2.wait_queue
           tstat2 == [tstat EXCEPT ![t] = s]
           wobj2 == [wobj EXCEPT ![t] = kind]
           tmevtb2 == [tmevtb EXCEPT ![t] = timed]
<1>1. /\ tstat \in [Task -> TStat] /\ wobj \in [Task -> WaitKind]
      /\ tmevtb \in [Task -> BOOLEAN]
      /\ QueuesOf(d.rq, tstat, wobj, tmevtb, wq, L)
  BY DataFields, QueuesAre
<1>2. /\ tstat2[t] = s /\ \A u \in Task \ {t} : tstat2[u] = tstat[u]
      /\ wobj2[t] = kind /\ \A u \in Task \ {t} : wobj2[u] = wobj[u]
      /\ (tmevtb2[t] <=> timed) /\ \A u \in Task \ {t} : tmevtb2[u] <=> tmevtb[u]
  BY <1>1 DEF NewState
<1>3. /\ tstat2 = k2.tstat /\ wobj2 = k2.wobj /\ tmevtb2 = k2.tmevtb
      /\ \A o \in Obj : /\ ToSet(wq2[o]) = ToSet(wq[o]) \cup (IF o = kind THEN {t} ELSE {})
                         /\ IsInjective(wq2[o])
      /\ \A o \in TPriObj : Sorted(wq2[o], rq2.priority)
      /\ ReadyQueueInv(rq2, {u \in L : tstat[u] = "RUNNABLE"} \cup
                            (IF s = "RUNNABLE" THEN {t} ELSE {}))
      /\ s \in {"WAITING", "WAITING-SUSPENDED"} <=> kind # NoObj
      /\ timed => kind # NoObj
  BY DEF NewState, JoinsWaitQueue, JoinsReadyQueue
<1> HIDE DEF tstat2, wobj2, tmevtb2, tstat, wobj, tmevtb, wq, rq2, wq2
<1>4. \A u \in Task, o \in Obj : u \in ToSet(wq2[o]) <=> u \in L \cup {t} /\ wobj2[u] = o
  <2> SUFFICES ASSUME NEW u \in Task, NEW o \in Obj
               PROVE  u \in ToSet(wq2[o]) <=> u \in L \cup {t} /\ wobj2[u] = o
    OBVIOUS
  <2>1. u \in ToSet(wq2[o]) <=> u \in ToSet(wq[o]) \/ (o = kind /\ u = t)
    BY <1>3
  <2>2. u \in ToSet(wq[o]) <=> u \in L /\ wobj[u] = o
    BY <1>1 DEF QueuesOf
  <2>3. CASE u = t
    BY <1>2, <2>1, <2>2, <2>3
  <2>4. CASE u # t
    BY <1>2, <2>1, <2>2, <2>4
  <2>5. QED
    BY <2>3, <2>4
<1>5. \A u \in L \cup {t} :
        tstat2[u] \in {"WAITING", "WAITING-SUSPENDED"} <=> wobj2[u] # NoObj
  BY <1>1, <1>2, <1>3 DEF QueuesOf
<1>6. \A u \in Task : tmevtb2[u] => tstat2[u] \in {"WAITING", "WAITING-SUSPENDED"}
  BY <1>1, <1>2, <1>3 DEF QueuesOf
<1>7. {u \in L \cup {t} : tstat2[u] = "RUNNABLE"} =
      {u \in L : tstat[u] = "RUNNABLE"} \cup (IF s = "RUNNABLE" THEN {t} ELSE {})
  <2>1. CASE s = "RUNNABLE"
    BY <1>2, <2>1
  <2>2. CASE s # "RUNNABLE"
    BY <1>2, <2>2
  <2>3. QED
    BY <2>1, <2>2
<1>8. QueuesOf(rq2, tstat2, wobj2, tmevtb2, wq2, L \cup {t})
  BY <1>4, <1>5, <1>6, <1>7, <1>3 DEF QueuesOf
<1>9. QED
  BY <1>8, <1>3, QueuesAre DEF rq2, wq2

\* The same when the task joins no wait queue.
LEMMA JoinNoWaitQueue ==
  ASSUME NEW I, NEW C, NEW d \in KernelData(I, C), NEW L \in SUBSET Task, QueuesInv(d, L),
         NEW t \in Task, t \notin L, NEW s, NEW kind, NEW timed, NEW k2,
         NewState(d, k2, t, s, kind, timed),
         kind \notin Obj, k2.wait_queue = d.wait_queue, k2.rq.priority = d.rq.priority,
         JoinsReadyQueue(d, k2, L, t, s)
  PROVE  QueuesInv(k2, L \cup {t})
<1>1. QueuesOf(d.rq, d.tstat, d.wobj, d.tmevtb, d.wait_queue, L)
  BY QueuesAre
<1>2. JoinsWaitQueue(d, k2, t, kind)
  BY <1>1, ObjNames DEF QueuesOf, JoinsWaitQueue
<1>3. QED
  BY <1>2, Join
\* make_runnable queues t with the runnable tasks of L.
Joined(d, L, t, rq2) ==
  /\ rq2 \in ReadyQueueType /\ rq2.priority = d.rq.priority
  /\ ReadyQueueInv(rq2, {u \in L : d.tstat[u] = "RUNNABLE"} \cup {t})

LEMMA RunnableJoins ==
  ASSUME NEW I, NEW C, NEW d \in KernelData(I, C), NEW L \in SUBSET Task, QueuesInv(d, L),
         NEW t \in Task, t \notin L
  PROVE  Joined(d, L, t, make_runnable(d.rq, t))
<1> DEFINE R == {u \in L : d.tstat[u] = "RUNNABLE"}
<1>1. d.rq \in ReadyQueueType /\ R \in SUBSET Task /\ t \notin R
  BY DataFields
<1>2. ReadyQueueInv(d.rq, R)
  BY QueuesAre DEF QueuesOf
<1> HIDE DEF R
<1>3. /\ make_runnable(d.rq, t) \in ReadyQueueType
      /\ ReadyQueueInv(make_runnable(d.rq, t), R \cup {t})
  BY <1>1, <1>2, MakeRunnable_Correct
<1>4. make_runnable(d.rq, t).priority = d.rq.priority
  BY <1>1 DEF make_runnable, ReadyQueueType
<1>5. QED
  BY <1>3, <1>4 DEF R, Joined

\* The state of a task whose wait has ended.
AfterWait(d, t) == IF IsSuspended(d, t) THEN "SUSPENDED" ELSE "RUNNABLE"

\* From d to k2, the wait of t has ended.
WaitEnded(d, k2, t, ercd) ==
  /\ k2.tstat = [d.tstat EXCEPT ![t] = AfterWait(d, t)]
  /\ k2.wobj = [d.wobj EXCEPT ![t] = NoObj]
  /\ k2.tmevtb = [d.tmevtb EXCEPT ![t] = FALSE]
  /\ k2.wercd = [d.wercd EXCEPT ![t] = ercd] /\ k2.winfo = d.winfo
  /\ k2.rq.priority = d.rq.priority /\ k2.wait_queue = d.wait_queue
  /\ SameRequests(k2, d) /\ SameObjects(k2, d)

\* end_wait puts a task that the caller unlinked where its new state belongs.
LEMMA EndWait ==
  ASSUME NEW I, NEW C, NEW d \in KernelData(I, C), NEW L \in SUBSET Task, QueuesInv(d, L),
         NEW t \in Task, t \notin L, NEW ercd \in ErCd
  PROVE  LET k2 == end_wait(d, t, ercd)
         IN  /\ k2 \in KernelData(I, C) /\ QueuesInv(k2, L \cup {t})
             /\ WaitEnded(d, k2, t, ercd)
<1> DEFINE rq2 == make_runnable(d.rq, t)
           R == {u \in L : d.tstat[u] = "RUNNABLE"}
           tstat2 == [d.tstat EXCEPT ![t] = AfterWait(d, t)]
           wobj2 == [d.wobj EXCEPT ![t] = NoObj]
           tmevtb2 == [d.tmevtb EXCEPT ![t] = FALSE]
           wercd2 == [d.wercd EXCEPT ![t] = ercd]
           k2 == end_wait(d, t, ercd)
<1>1. /\ d.tstat \in [Task -> TStat] /\ d.wobj \in [Task -> WaitKind]
      /\ d.tmevtb \in [Task -> BOOLEAN] /\ d.wercd \in [Task -> ErCd]
      /\ d.rq \in ReadyQueueType
  BY DataFields
<1>2. rq2 \in ReadyQueueType /\ rq2.priority = d.rq.priority /\ ReadyQueueInv(rq2, R \cup {t})
  <2>1. Joined(d, L, t, rq2)
    BY RunnableJoins
  <2>2. QED
    BY <2>1 DEF Joined
<1>3. ReadyQueueInv(d.rq, R)
  BY QueuesAre DEF QueuesOf
<1>4. /\ tstat2 \in [Task -> TStat] /\ wobj2 \in [Task -> WaitKind]
      /\ tmevtb2 \in [Task -> BOOLEAN] /\ wercd2 \in [Task -> ErCd]
  BY <1>1, ObjNames DEF AfterWait, TStat
<1>5. CASE IsSuspended(d, t)
  <2>1. AfterWait(d, t) = "SUSPENDED"
    BY <1>5 DEF AfterWait
  <2>2. k2 = [d EXCEPT !.tmevtb = tmevtb2, !.wercd = wercd2, !.tstat = tstat2, !.wobj = wobj2]
    BY <1>5, <2>1 DEF end_wait, make_non_wait, wait_dequeue_tmevtb, IsSuspended, KernelData
  <2> HIDE DEF tstat2, wobj2, tmevtb2, wercd2
  <2>3. /\ k2 \in KernelData(I, C)
        /\ k2.tstat = tstat2 /\ k2.wobj = wobj2 /\ k2.tmevtb = tmevtb2
        /\ k2.wercd = wercd2 /\ k2.winfo = d.winfo
        /\ k2.rq = d.rq /\ k2.wait_queue = d.wait_queue
        /\ SameRequests(k2, d) /\ SameObjects(k2, d)
    BY ZenonT(60), <1>4, <2>2 DEF KernelData, SameRequests, SameObjects
  <2> HIDE DEF k2
  <2>4. NewState(d, k2, t, AfterWait(d, t), NoObj, FALSE)
    BY <2>1, <2>3, ObjNames DEF NewState, TStat, tstat2, wobj2, tmevtb2
  <2>5. JoinsReadyQueue(d, k2, L, t, AfterWait(d, t))
    BY <1>3, <2>1, <2>3 DEF JoinsReadyQueue
  <2>6. QueuesInv(k2, L \cup {t})
    BY <2>3, <2>4, <2>5, ObjNames, JoinNoWaitQueue
  <2>7. QED
    BY <2>3, <2>6 DEF WaitEnded, tstat2, wobj2, tmevtb2, wercd2, k2
<1>6. CASE ~IsSuspended(d, t)
  <2>1. AfterWait(d, t) = "RUNNABLE"
    BY <1>6 DEF AfterWait
  <2>2. k2 = [d EXCEPT !.tmevtb = tmevtb2, !.wercd = wercd2, !.tstat = tstat2, !.wobj = wobj2,
                       !.rq = rq2]
    BY <1>6, <2>1 DEF end_wait, make_non_wait, wait_dequeue_tmevtb, IsSuspended, KernelData
  <2> HIDE DEF tstat2, wobj2, tmevtb2, wercd2, rq2
  <2>3. /\ k2 \in KernelData(I, C)
        /\ k2.tstat = tstat2 /\ k2.wobj = wobj2 /\ k2.tmevtb = tmevtb2
        /\ k2.wercd = wercd2 /\ k2.winfo = d.winfo
        /\ k2.rq = rq2 /\ k2.wait_queue = d.wait_queue
        /\ SameRequests(k2, d) /\ SameObjects(k2, d)
    BY ZenonT(60), <1>2, <1>4, <2>2 DEF KernelData, SameRequests, SameObjects
  <2> HIDE DEF k2
  <2>4. NewState(d, k2, t, AfterWait(d, t), NoObj, FALSE)
    BY <2>1, <2>3, ObjNames DEF NewState, TStat, tstat2, wobj2, tmevtb2
  <2>5. JoinsReadyQueue(d, k2, L, t, AfterWait(d, t))
    BY <1>2, <2>1, <2>3 DEF JoinsReadyQueue
  <2>6. QueuesInv(k2, L \cup {t})
    BY <1>2, <2>3, <2>4, <2>5, ObjNames, JoinNoWaitQueue
  <2>7. QED
    BY <1>2, <2>3, <2>6 DEF WaitEnded, tstat2, wobj2, tmevtb2, wercd2, k2
<1>7. QED
  BY <1>5, <1>6

\* A task that was neither runnable nor waiting becomes runnable.
LEMMA BecomesRunnable ==
  ASSUME NEW I, NEW C, NEW d \in KernelData(I, C), NEW L \in SUBSET Task, QueuesInv(d, L),
         NEW t \in L, d.tstat[t] \in {"DORMANT", "SUSPENDED"}
  PROVE  LET k2 == make_active(d, t)
         IN  /\ k2 \in KernelData(I, C) /\ QueuesInv(k2, L)
             /\ k2.tstat = [d.tstat EXCEPT ![t] = "RUNNABLE"]
             /\ k2.wobj = d.wobj /\ k2.tmevtb = d.tmevtb
             /\ k2.rq.priority = d.rq.priority /\ k2.wait_queue = d.wait_queue
             /\ SameWINFO(k2, d) /\ SameRequests(k2, d) /\ SameObjects(k2, d)
             /\ d.wobj[t] = NoObj /\ ~d.tmevtb[t]
<1> DEFINE rq2 == make_runnable(d.rq, t)
           tstat2 == [d.tstat EXCEPT ![t] = "RUNNABLE"]
           k2 == [d EXCEPT !.tstat = tstat2, !.rq = rq2]
           M == L \ {t}
<1>1. /\ d.tstat \in [Task -> TStat] /\ d.wobj \in [Task -> WaitKind]
      /\ d.tmevtb \in [Task -> BOOLEAN] /\ t \in Task
  BY DataFields
<1>2. QueuesInv(d, M) /\ d.wobj[t] = NoObj /\ ~d.tmevtb[t] /\ M \in SUBSET Task /\ t \notin M
  BY LeaveNoQueue
<1> HIDE DEF M
<1>3. /\ rq2 \in ReadyQueueType /\ rq2.priority = d.rq.priority
      /\ ReadyQueueInv(rq2, {u \in M : d.tstat[u] = "RUNNABLE"} \cup {t})
  <2>1. Joined(d, M, t, rq2)
    BY <1>1, <1>2, RunnableJoins
  <2>2. QED
    BY <2>1 DEF Joined
<1>4. tstat2 \in [Task -> TStat]
  BY <1>1 DEF TStat
<1> HIDE DEF tstat2, rq2
<1>5. /\ k2 \in KernelData(I, C)
      /\ k2.tstat = tstat2 /\ k2.wobj = d.wobj /\ k2.tmevtb = d.tmevtb
      /\ k2.rq = rq2 /\ k2.wait_queue = d.wait_queue
      /\ SameWINFO(k2, d) /\ SameRequests(k2, d) /\ SameObjects(k2, d)
  BY <1>3, <1>4 DEF KernelData, SameWINFO, SameRequests, SameObjects
<1>6. k2 = [d EXCEPT !.tstat[t] = "RUNNABLE", !.rq = make_runnable(@, t)]
  BY DEF tstat2, rq2
<1> HIDE DEF k2
<1>7. NewState(d, k2, t, "RUNNABLE", NoObj, FALSE)
  <2>1. d.wobj = [d.wobj EXCEPT ![t] = NoObj] /\ d.tmevtb = [d.tmevtb EXCEPT ![t] = FALSE]
    BY <1>1, <1>2
  <2>2. QED
    BY <1>5, <2>1, ObjNames DEF NewState, TStat, tstat2
<1>8. JoinsReadyQueue(d, k2, M, t, "RUNNABLE")
  BY <1>3, <1>5 DEF JoinsReadyQueue
<1>9. QueuesInv(k2, M \cup {t})
  BY <1>1, <1>2, <1>3, <1>5, <1>7, <1>8, ObjNames, JoinNoWaitQueue
<1>10. M \cup {t} = L
  BY DEF M
<1>11. QED
  BY <1>2, <1>3, <1>5, <1>6, <1>9, <1>10 DEF tstat2, make_active

\* sus_tsk of a runnable task, which leaves the ready queue.
suspend(d, t) == [d EXCEPT !.tstat[t] = "SUSPENDED", !.rq = make_non_runnable(@, t)]

\* The queues are correct without it.
LEMMA SuspendRunnable ==
  ASSUME NEW I, NEW C, NEW d \in KernelData(I, C), NEW L \in SUBSET Task, QueuesInv(d, L),
         NEW t \in L, IsRunnable(d, t)
  PROVE  LET k2 == suspend(d, t)
         IN  /\ k2 \in KernelData(I, C) /\ QueuesInv(k2, L)
             /\ k2.tstat = [d.tstat EXCEPT ![t] = "SUSPENDED"]
             /\ k2.wobj = d.wobj /\ k2.tmevtb = d.tmevtb
             /\ k2.rq.priority = d.rq.priority /\ k2.wait_queue = d.wait_queue
             /\ SameWINFO(k2, d) /\ SameRequests(k2, d) /\ SameObjects(k2, d)
<1> DEFINE rq2 == make_non_runnable(d.rq, t)
           k1 == [d EXCEPT !.rq = rq2]
           tstat2 == [d.tstat EXCEPT ![t] = "SUSPENDED"]
           k2 == [d EXCEPT !.tstat = tstat2, !.rq = rq2]
           M == L \ {t}
<1>1. /\ d.tstat \in [Task -> TStat] /\ d.wobj \in [Task -> WaitKind]
      /\ d.tmevtb \in [Task -> BOOLEAN] /\ t \in Task
  BY DataFields
<1>2. /\ k1 \in KernelData(I, C) /\ QueuesInv(k1, M)
      /\ rq2 \in ReadyQueueType /\ rq2.priority = d.rq.priority
      /\ k1.rq = rq2 /\ k1.wait_queue = d.wait_queue /\ SameStates(k1, d)
      /\ d.wobj[t] = NoObj /\ ~d.tmevtb[t] /\ M \in SUBSET Task /\ t \notin M
  <2>1. LET r  == make_non_runnable(d.rq, t)
            k3 == [d EXCEPT !.rq = r]
        IN  /\ k3 \in KernelData(I, C) /\ QueuesInv(k3, L \ {t})
            /\ r \in ReadyQueueType /\ r.priority = d.rq.priority
            /\ k3.rq = r /\ k3.wait_queue = d.wait_queue /\ SameStates(k3, d)
            /\ d.wobj[t] = NoObj /\ ~d.tmevtb[t]
    <3> HIDE DEF rq2, k1, k2, tstat2, M
    <3>1. QED
      BY SMTT(60), MakeNonRunnable
  <2>2. QED
    BY <2>1
<1>3. tstat2 \in [Task -> TStat]
  BY <1>1 DEF TStat
<1> HIDE DEF k1, M, tstat2, rq2
<1>4. /\ k2 \in KernelData(I, C)
      /\ k2.tstat = tstat2 /\ k2.wobj = d.wobj /\ k2.tmevtb = d.tmevtb
      /\ k2.rq = rq2 /\ k2.wait_queue = d.wait_queue
      /\ SameWINFO(k2, d) /\ SameRequests(k2, d) /\ SameObjects(k2, d)
  BY <1>2, <1>3 DEF KernelData, SameWINFO, SameRequests, SameObjects
<1>5. k2 = [d EXCEPT !.tstat[t] = "SUSPENDED", !.rq = make_non_runnable(@, t)]
  BY DEF tstat2, rq2
<1> HIDE DEF k2
<1>6. NewState(k1, k2, t, "SUSPENDED", NoObj, FALSE)
  <2>1. d.wobj = [d.wobj EXCEPT ![t] = NoObj] /\ d.tmevtb = [d.tmevtb EXCEPT ![t] = FALSE]
    BY <1>1, <1>2
  <2>2. QED
    BY <1>2, <1>4, <2>1, ObjNames DEF NewState, TStat, tstat2, SameStates
<1>7. JoinsReadyQueue(k1, k2, M, t, "SUSPENDED")
  <2>1. ReadyQueueInv(k1.rq, {u \in M : k1.tstat[u] = "RUNNABLE"})
    BY <1>2, QueuesAre DEF QueuesOf
  <2>2. QED
    BY <1>2, <1>4, <2>1 DEF JoinsReadyQueue
<1>8. QueuesInv(k2, M \cup {t})
  BY <1>1, <1>2, <1>4, <1>6, <1>7, ObjNames, JoinNoWaitQueue
<1>9. M \cup {t} = L
  BY DEF M
<1>10. QED
  BY <1>2, <1>4, <1>5, <1>8, <1>9 DEF tstat2, suspend

\* sus_tsk and rsm_tsk of a waiting task, which stays in its queue.
set_tstat(d, t, s) == [d EXCEPT !.tstat[t] = s]

StateSet(d, k2, t, s) ==
  /\ k2.tstat = [d.tstat EXCEPT ![t] = s]
  /\ k2.wobj = d.wobj /\ k2.tmevtb = d.tmevtb
  /\ k2.rq = d.rq /\ k2.wait_queue = d.wait_queue
  /\ SameWINFO(k2, d) /\ SameRequests(k2, d) /\ SameObjects(k2, d)

\* The queues do not depend on whether a waiting task is suspended.
LEMMA SuspendWaiting ==
  ASSUME NEW I, NEW C, NEW d \in KernelData(I, C), NEW L \in SUBSET Task, QueuesInv(d, L),
         NEW t \in Task, IsWaiting(d, t), NEW s \in {"WAITING", "WAITING-SUSPENDED"}
  PROVE  LET k2 == set_tstat(d, t, s)
         IN  k2 \in KernelData(I, C) /\ QueuesInv(k2, L) /\ StateSet(d, k2, t, s)
<1> DEFINE tstat2 == [d.tstat EXCEPT ![t] = s]
           k2 == [d EXCEPT !.tstat = tstat2]
<1>1. d.tstat \in [Task -> TStat] /\ d.tstat[t] \in {"WAITING", "WAITING-SUSPENDED"}
  BY DataFields DEF IsWaiting
<1>2. /\ tstat2 \in [Task -> TStat] /\ tstat2[t] = s
      /\ \A u \in Task \ {t} : tstat2[u] = d.tstat[u]
  BY <1>1 DEF TStat
<1>3. QueuesOf(d.rq, d.tstat, d.wobj, d.tmevtb, d.wait_queue, L)
  BY QueuesAre
<1> HIDE DEF tstat2
<1>4. /\ k2 \in KernelData(I, C)
      /\ k2.tstat = tstat2 /\ k2.wobj = d.wobj /\ k2.tmevtb = d.tmevtb
      /\ k2.rq = d.rq /\ k2.wait_queue = d.wait_queue
      /\ SameWINFO(k2, d) /\ SameRequests(k2, d) /\ SameObjects(k2, d)
  BY <1>2 DEF KernelData, SameWINFO, SameRequests, SameObjects
<1>5. {u \in L : tstat2[u] = "RUNNABLE"} = {u \in L : d.tstat[u] = "RUNNABLE"}
  BY <1>1, <1>2
<1>6. /\ \A u \in L : tstat2[u] \in {"WAITING", "WAITING-SUSPENDED"} <=> d.wobj[u] # NoObj
      /\ \A u \in Task : d.tmevtb[u] => tstat2[u] \in {"WAITING", "WAITING-SUSPENDED"}
  BY <1>1, <1>2, <1>3 DEF QueuesOf
<1>7. QueuesOf(d.rq, tstat2, d.wobj, d.tmevtb, d.wait_queue, L)
  BY <1>3, <1>5, <1>6 DEF QueuesOf
<1> HIDE DEF k2
<1>8. QueuesInv(k2, L)
  BY <1>4, <1>7, QueuesAre
<1>9. QED
  BY <1>4, <1>8 DEF tstat2, k2, set_tstat, StateSet

\* make_wait takes a task out of the ready queue to sleep or to delay.
LEMMA MakeWait ==
  ASSUME NEW I, NEW C, NEW d \in KernelData(I, C), NEW L \in SUBSET Task, QueuesInv(d, L),
         NEW t \in L, IsRunnable(d, t), NEW kind \in {"SLP", "DLY"}, NEW timed \in BOOLEAN
  PROVE  LET k2 == make_wait(d, t, kind, timed)
         IN  /\ k2 \in KernelData(I, C) /\ QueuesInv(k2, L)
             /\ NewState(d, k2, t, "WAITING", kind, timed)
             /\ k2.rq.priority = d.rq.priority /\ k2.wait_queue = d.wait_queue
             /\ SameWINFO(k2, d) /\ SameRequests(k2, d) /\ SameObjects(k2, d)
<1> DEFINE rq2 == make_non_runnable(d.rq, t)
           k1 == [d EXCEPT !.rq = rq2]
           tstat2 == [d.tstat EXCEPT ![t] = "WAITING"]
           wobj2 == [d.wobj EXCEPT ![t] = kind]
           tmevtb2 == [d.tmevtb EXCEPT ![t] = timed]
           k2 == [d EXCEPT !.rq = rq2, !.tstat = tstat2, !.wobj = wobj2, !.tmevtb = tmevtb2]
           M == L \ {t}
<1>1. /\ d.tstat \in [Task -> TStat] /\ d.wobj \in [Task -> WaitKind]
      /\ d.tmevtb \in [Task -> BOOLEAN] /\ t \in Task
  BY DataFields
<1>2. /\ k1 \in KernelData(I, C) /\ QueuesInv(k1, M)
      /\ rq2 \in ReadyQueueType /\ rq2.priority = d.rq.priority
      /\ k1.rq = rq2 /\ k1.wait_queue = d.wait_queue /\ SameStates(k1, d)
      /\ M \in SUBSET Task /\ t \notin M
  BY MakeNonRunnable
<1>3. /\ tstat2 \in [Task -> TStat] /\ wobj2 \in [Task -> WaitKind]
      /\ tmevtb2 \in [Task -> BOOLEAN]
  BY <1>1 DEF TStat, WaitKind
<1> HIDE DEF k1, M, tstat2, wobj2, tmevtb2, rq2
<1>4. /\ k2 \in KernelData(I, C)
      /\ k2.tstat = tstat2 /\ k2.wobj = wobj2 /\ k2.tmevtb = tmevtb2
      /\ k2.rq = rq2 /\ k2.wait_queue = d.wait_queue
      /\ SameWINFO(k2, d) /\ SameRequests(k2, d) /\ SameObjects(k2, d)
  BY <1>2, <1>3 DEF KernelData, SameWINFO, SameRequests, SameObjects
<1>5. k2 = make_wait(d, t, kind, timed)
  BY DEF tstat2, wobj2, tmevtb2, rq2, make_wait
<1> HIDE DEF k2
<1>6. NewState(k1, k2, t, "WAITING", kind, timed)
  BY <1>2, <1>4, ObjNames DEF NewState, TStat, WaitKind, tstat2, wobj2, tmevtb2, SameStates
<1>7. JoinsReadyQueue(k1, k2, M, t, "WAITING")
  <2>1. ReadyQueueInv(k1.rq, {u \in M : k1.tstat[u] = "RUNNABLE"})
    BY <1>2, QueuesAre DEF QueuesOf
  <2>2. QED
    BY <1>2, <1>4, <2>1 DEF JoinsReadyQueue
<1>8. QueuesInv(k2, M \cup {t})
  BY <1>1, <1>2, <1>4, <1>6, <1>7, ObjNames, JoinNoWaitQueue
<1>9. M \cup {t} = L
  BY DEF M
<1>10. QED
  BY <1>2, <1>4, <1>5, <1>6, <1>8, <1>9 DEF NewState, SameStates

\* wobj_make_wait takes it to the queue of an object as well.
LEMMA WobjMakeWait ==
  ASSUME NEW I, NEW C, NEW d \in KernelData(I, C), NEW L \in SUBSET Task, QueuesInv(d, L),
         NEW t \in L, IsRunnable(d, t), NEW obj \in Obj, NEW timed \in BOOLEAN
  PROVE  LET k2 == wobj_make_wait(d, t, obj, timed)
         IN  /\ k2 \in KernelData(I, C) /\ QueuesInv(k2, L)
             /\ NewState(d, k2, t, "WAITING", obj, timed)
             /\ k2.rq.priority = d.rq.priority
             /\ SameWINFO(k2, d) /\ SameRequests(k2, d) /\ SameObjects(k2, d)
<1> DEFINE rq2 == make_non_runnable(d.rq, t)
           k1 == [d EXCEPT !.rq = rq2]
           tstat2 == [d.tstat EXCEPT ![t] = "WAITING"]
           wobj2 == [d.wobj EXCEPT ![t] = obj]
           tmevtb2 == [d.tmevtb EXCEPT ![t] = timed]
           q == d.wait_queue[obj]
           r == IF obj \in TPriObj THEN queue_insert_tpri(q, t, rq2.priority) ELSE Append(q, t)
           wq2 == [d.wait_queue EXCEPT ![obj] = r]
           k2 == [d EXCEPT !.rq = rq2, !.tstat = tstat2, !.wobj = wobj2, !.tmevtb = tmevtb2,
                           !.wait_queue = wq2]
           M == L \ {t}
<1>1. /\ d.tstat \in [Task -> TStat] /\ d.wobj \in [Task -> WaitKind]
      /\ d.tmevtb \in [Task -> BOOLEAN] /\ t \in Task
      /\ d.wait_queue \in [Obj -> Seq(Task)] /\ d.rq.priority \in [Task -> Pri]
  BY DataFields
<1>2. /\ k1 \in KernelData(I, C) /\ QueuesInv(k1, M)
      /\ rq2 \in ReadyQueueType /\ rq2.priority = d.rq.priority
      /\ k1.rq = rq2 /\ k1.wait_queue = d.wait_queue /\ SameStates(k1, d)
      /\ M \in SUBSET Task /\ t \notin M
  BY MakeNonRunnable
<1> HIDE DEF k1, M, rq2
<1>3. QueuesOf(k1.rq, k1.tstat, k1.wobj, k1.tmevtb, k1.wait_queue, M)
  BY <1>2, QueuesAre
<1>4. /\ tstat2 \in [Task -> TStat] /\ wobj2 \in [Task -> WaitKind]
      /\ tmevtb2 \in [Task -> BOOLEAN]
  BY <1>1 DEF TStat, WaitKind
<1>5. /\ q \in Seq(Task) /\ t \notin ToSet(q) /\ IsInjective(q)
      /\ obj \in TPriObj => Sorted(q, d.rq.priority)
  BY <1>1, <1>2, <1>3 DEF QueuesOf
<1> HIDE DEF q
<1>6. /\ r \in Seq(Task) /\ IsInjective(r) /\ ToSet(r) = ToSet(q) \cup {t}
      /\ obj \in TPriObj => Sorted(r, d.rq.priority)
  <2>1. CASE obj \in TPriObj
    <3>1. Sorted(q, d.rq.priority)
      BY <1>5, <2>1
    <3>2. r = queue_insert_tpri(q, t, d.rq.priority)
      BY <1>2, <2>1
    <3> HIDE DEF r
    <3>3. QED
      BY <1>1, <1>5, <3>1, <3>2, QueueInsertTpri
  <2>2. CASE obj \notin TPriObj
    <3>1. r = Append(q, t)
      BY <2>2
    <3> HIDE DEF r
    <3>2. QED
      BY <1>1, <1>5, <2>2, <3>1, AppendOrder
  <2>3. QED
    BY <2>1, <2>2
<1> HIDE DEF r
<1>7. /\ wq2 \in [Obj -> Seq(Task)] /\ wq2[obj] = r
      /\ \A o \in Obj : o # obj => wq2[o] = d.wait_queue[o]
  BY <1>1, <1>6
<1> HIDE DEF tstat2, wobj2, tmevtb2, wq2
<1>8. /\ k2 \in KernelData(I, C)
      /\ k2.tstat = tstat2 /\ k2.wobj = wobj2 /\ k2.tmevtb = tmevtb2
      /\ k2.rq = rq2 /\ k2.wait_queue = wq2
      /\ SameWINFO(k2, d) /\ SameRequests(k2, d) /\ SameObjects(k2, d)
  BY <1>2, <1>4, <1>7 DEF KernelData, SameWINFO, SameRequests, SameObjects
<1>9. k2 = wobj_make_wait(d, t, obj, timed)
  <2> DEFINE w == make_wait(d, t, obj, timed)
  <2>1. w = [d EXCEPT !.rq = rq2, !.tstat = tstat2, !.wobj = wobj2, !.tmevtb = tmevtb2]
    BY DEF make_wait, rq2, tstat2, wobj2, tmevtb2
  <2>2. w.wait_queue = d.wait_queue /\ w.rq = rq2
    BY <2>1 DEF KernelData
  <2>3. wobj_make_wait(d, t, obj, timed) = [w EXCEPT !.wait_queue = wq2]
    BY <2>2 DEF wobj_make_wait, wobj_queue_insert, wq2, r, q
  <2>4. QED
    BY <2>1, <2>3 DEF KernelData
<1> HIDE DEF k2
<1>10. NewState(k1, k2, t, "WAITING", obj, timed)
  BY <1>2, <1>8, ObjNames DEF NewState, TStat, WaitKind, tstat2, wobj2, tmevtb2, SameStates
<1>11. JoinsReadyQueue(k1, k2, M, t, "WAITING")
  BY <1>2, <1>3, <1>8 DEF JoinsReadyQueue, QueuesOf
<1>12. JoinsWaitQueue(k1, k2, t, obj)
  <2>1. ASSUME NEW o \in Obj
        PROVE  /\ ToSet(k2.wait_queue[o]) = ToSet(k1.wait_queue[o]) \cup
                                            (IF o = obj THEN {t} ELSE {})
               /\ IsInjective(k2.wait_queue[o])
               /\ o \in TPriObj => Sorted(k2.wait_queue[o], k2.rq.priority)
    <3>1. CASE o = obj
      BY <1>2, <1>6, <1>7, <1>8, <3>1 DEF q
    <3>2. CASE o # obj
      BY <1>2, <1>3, <1>7, <1>8, <3>2 DEF QueuesOf
    <3>3. QED
      BY <3>1, <3>2
  <2>2. QED
    BY <2>1, ObjNames DEF JoinsWaitQueue
<1>13. QueuesInv(k2, M \cup {t})
  BY <1>1, <1>2, <1>10, <1>11, <1>12, Join
<1>14. M \cup {t} = L
  BY DEF M
<1>15. QED
  BY <1>2, <1>8, <1>9, <1>10, <1>13, <1>14 DEF NewState, SameStates

-----------------------------------------------------------------------------
(***************************************************************************)
(* Priorities.                                                             *)
(***************************************************************************)
\* The priority of a task that is in no queue may be set at will.
LEMMA SetPriority ==
  ASSUME NEW I, NEW C, NEW d \in KernelData(I, C), NEW L \in SUBSET Task, QueuesInv(d, L),
         NEW t \in Task, t \notin L, NEW newpri \in Pri
  PROVE  LET k2 == [d EXCEPT !.rq.priority[t] = newpri]
         IN  /\ k2 \in KernelData(I, C) /\ QueuesInv(k2, L)
             /\ k2.rq.priority = [d.rq.priority EXCEPT ![t] = newpri]
             /\ k2.rq.schedtsk = d.rq.schedtsk
             /\ k2.wait_queue = d.wait_queue /\ SameStates(k2, d)
             /\ SameWINFO(k2, d) /\ SameRequests(k2, d) /\ SameObjects(k2, d)
<1> DEFINE rq2 == [d.rq EXCEPT !.priority[t] = newpri]
           R == {u \in L : d.tstat[u] = "RUNNABLE"}
           k2 == [d EXCEPT !.rq = rq2]
<1>1. /\ d.rq \in ReadyQueueType /\ d.rq.priority \in [Task -> Pri]
      /\ d.wait_queue \in [Obj -> Seq(Task)]
      /\ R \in SUBSET Task /\ t \notin R
  BY DataFields
<1>2. QueuesOf(d.rq, d.tstat, d.wobj, d.tmevtb, d.wait_queue, L)
  BY QueuesAre
<1>3. ReadyQueueInv(d.rq, R)
  BY <1>2 DEF QueuesOf
<1>4. rq2 \in ReadyQueueType /\ ReadyQueueInv(rq2, R)
  <2> HIDE DEF R
  <2>1. QED
    BY <1>1, <1>3, SetPriority_Correct
<1>5. /\ rq2.priority = [d.rq.priority EXCEPT ![t] = newpri]
      /\ rq2.schedtsk = d.rq.schedtsk
  BY <1>1 DEF ReadyQueueType
<1> HIDE DEF rq2
<1>6. /\ k2 \in KernelData(I, C) /\ k2.rq = rq2 /\ k2.wait_queue = d.wait_queue
      /\ SameStates(k2, d) /\ SameWINFO(k2, d) /\ SameRequests(k2, d) /\ SameObjects(k2, d)
  BY <1>4 DEF KernelData, SameStates, SameWINFO, SameRequests, SameObjects
<1>7. k2 = [d EXCEPT !.rq.priority[t] = newpri]
  BY DEF rq2
<1> HIDE DEF k2
<1>8. \A o \in TPriObj : Sorted(d.wait_queue[o], rq2.priority)
  <2> SUFFICES ASSUME NEW o \in TPriObj PROVE Sorted(d.wait_queue[o], rq2.priority)
    OBVIOUS
  <2> DEFINE q == d.wait_queue[o]
  <2>1. q \in Seq(Task) /\ t \notin ToSet(q) /\ Sorted(q, d.rq.priority)
    BY <1>1, <1>2, ObjNames DEF QueuesOf
  <2> HIDE DEF q
  <2>2. Sorted(q, [d.rq.priority EXCEPT ![t] = newpri])
    BY <1>1, <2>1, SortedWithout
  <2>3. QED
    BY <1>5, <2>2 DEF q
<1>9. QueuesOf(rq2, d.tstat, d.wobj, d.tmevtb, d.wait_queue, L)
  BY <1>2, <1>4, <1>8 DEF QueuesOf
<1>10. QueuesInv(k2, L)
  BY <1>6, <1>9, QueuesAre DEF SameStates
<1>11. QED
  BY <1>5, <1>6, <1>7, <1>10

\* change_priority moves the task in the queue where it is.
LEMMA ChangePriority ==
  ASSUME NEW I, NEW C, NEW d \in KernelData(I, C), NEW L \in SUBSET Task, QueuesInv(d, L),
         NEW t \in L, NEW newpri \in Pri, NEW mtxmode \in BOOLEAN
  PROVE  LET k2 == change_priority(d, t, newpri, mtxmode)
         IN  /\ k2 \in KernelData(I, C) /\ QueuesInv(k2, L)
             /\ k2.rq.priority = [d.rq.priority EXCEPT ![t] = newpri]
             /\ SameStates(k2, d)
             /\ SameWINFO(k2, d) /\ SameRequests(k2, d) /\ SameObjects(k2, d)
             /\ mtxmode /\ newpri < d.rq.priority[t] /\ d.rq.schedtsk = t
                  => k2.rq.schedtsk = t
<1> DEFINE k2 == change_priority(d, t, newpri, mtxmode)
           R == {u \in L : d.tstat[u] = "RUNNABLE"}
           priority2 == [d.rq.priority EXCEPT ![t] = newpri]
<1>1. /\ d.rq \in ReadyQueueType /\ d.rq.priority \in [Task -> Pri]
      /\ d.wait_queue \in [Obj -> Seq(Task)] /\ d.tstat \in [Task -> TStat]
      /\ R \in SUBSET Task /\ t \in Task
  BY DataFields
<1>2. QueuesOf(d.rq, d.tstat, d.wobj, d.tmevtb, d.wait_queue, L)
  BY QueuesAre
<1>3. ReadyQueueInv(d.rq, R)
  BY <1>2 DEF QueuesOf
\* The queues in which t is not stay sorted.
<1>4. ASSUME NEW o \in TPriObj, o # d.wobj[t]
      PROVE  Sorted(d.wait_queue[o], priority2)
  <2> DEFINE q == d.wait_queue[o]
  <2>1. q \in Seq(Task) /\ t \notin ToSet(q) /\ Sorted(q, d.rq.priority)
    BY <1>1, <1>2, <1>4, ObjNames DEF QueuesOf
  <2> HIDE DEF q
  <2>2. Sorted(q, [d.rq.priority EXCEPT ![t] = newpri])
    BY <1>1, <2>1, SortedWithout
  <2>3. QED
    BY <2>2 DEF q
<1>5. priority2 \in [Task -> Pri]
  BY <1>1
<1>6. CASE IsRunnable(d, t)
  <2> DEFINE rq2 == requeue(d.rq, t, newpri, mtxmode)
  <2>1. k2 = [d EXCEPT !.rq = rq2]
    BY <1>6 DEF change_priority
  <2>2. t \in R /\ d.wobj[t] = NoObj
    BY <1>2, <1>6 DEF IsRunnable, QueuesOf
  <2>3. rq2 \in ReadyQueueType /\ ReadyQueueInv(rq2, R)
    <3> HIDE DEF R
    <3>1. QED
      BY <1>1, <1>3, <2>2, Requeue_Correct
  <2>4. rq2.priority = priority2
    BY <1>1, RequeuePriority
  <2>5. mtxmode /\ newpri < d.rq.priority[t] /\ d.rq.schedtsk = t => rq2.schedtsk = t
    <3>1. ASSUME mtxmode, newpri < d.rq.priority[t], d.rq.schedtsk = t
          PROVE  requeue(d.rq, t, newpri, TRUE).schedtsk = t
      BY <1>1, <3>1, RaiseKeepsSchedtsk
    <3>2. QED
      BY <3>1
  <2> HIDE DEF rq2, priority2
  <2>6. /\ k2 \in KernelData(I, C) /\ k2.rq = rq2 /\ k2.wait_queue = d.wait_queue
        /\ SameStates(k2, d) /\ SameWINFO(k2, d) /\ SameRequests(k2, d) /\ SameObjects(k2, d)
    BY <2>1, <2>3 DEF KernelData, SameStates, SameWINFO, SameRequests, SameObjects
  <2> HIDE DEF k2
  <2>7. \A o \in TPriObj : Sorted(d.wait_queue[o], rq2.priority)
    BY <1>4, <2>2, <2>4, ObjNames
  <2>8. QueuesOf(rq2, d.tstat, d.wobj, d.tmevtb, d.wait_queue, L)
    BY <1>2, <2>3, <2>7 DEF QueuesOf
  <2>9. QueuesInv(k2, L)
    BY <2>6, <2>8, QueuesAre DEF SameStates
  <2>10. QED
    BY <2>4, <2>5, <2>6, <2>9 DEF priority2, k2
<1>7. CASE ~IsRunnable(d, t)
  <2> DEFINE rq2 == [d.rq EXCEPT !.priority[t] = newpri]
             k1 == [d EXCEPT !.rq = rq2]
             obj == d.wobj[t]
             q == d.wait_queue[obj]
             r == queue_insert_tpri(queue_delete(q, t), t, priority2)
             wq2 == IF obj \in TPriObj THEN [d.wait_queue EXCEPT ![obj] = r] ELSE d.wait_queue
  <2>1. t \notin R
    BY <1>7 DEF IsRunnable
  <2>2. rq2 \in ReadyQueueType /\ ReadyQueueInv(rq2, R)
    <3> HIDE DEF R
    <3>1. QED
      BY <1>1, <1>3, <2>1, SetPriority_Correct
  <2>3. rq2.priority = priority2 /\ rq2.schedtsk = d.rq.schedtsk
    BY <1>1 DEF ReadyQueueType
  <2>4. k2 = [d EXCEPT !.rq = rq2, !.wait_queue = wq2]
    <3>1. k1.wait_queue = d.wait_queue /\ k1.rq = rq2 /\ k1.wobj = d.wobj
      BY DEF KernelData
    <3>2. k2 = IF obj \in Obj THEN wobj_change_priority(k1, t, obj) ELSE k1
      BY <1>7, <3>1 DEF change_priority
    <3> HIDE DEF rq2
    <3>3. CASE obj \in TPriObj
      <4>1. k2 = [k1 EXCEPT !.wait_queue[obj] = r]
        BY <2>3, <3>1, <3>2, <3>3, ObjNames DEF wobj_change_priority
      <4>2. QED
        BY <3>1, <3>3, <4>1 DEF KernelData
    <3>4. CASE obj \notin TPriObj
      <4>1. k2 = k1
        BY <3>2, <3>4 DEF wobj_change_priority
      <4>2. QED
        BY <3>4, <4>1 DEF KernelData
    <3>5. QED
      BY <3>3, <3>4
  <2> HIDE DEF rq2, k1, k2
  <2>5. CASE obj \in TPriObj
    <3>1. q \in Seq(Task) /\ t \in ToSet(q) /\ IsInjective(q) /\ Sorted(q, d.rq.priority)
      BY <1>1, <1>2, <2>5, ObjNames DEF QueuesOf
    <3> DEFINE left == queue_delete(q, t)
    <3>2. left \in Seq(Task) /\ IsInjective(left) /\ ToSet(left) = ToSet(q) \ {t}
      <4> HIDE DEF q
      <4>1. QED
        BY <3>1, QueueDelete
    <3>3. Sorted(left, d.rq.priority)
      <4> HIDE DEF q
      <4>1. \A u, v : Before(left, u, v) => Before(q, u, v)
        BY <3>1, QueueDeleteOrder
      <4>2. QED
        BY <3>1, <4>1 DEF Sorted
    <3>4. Sorted(left, priority2)
      <4> HIDE DEF left
      <4>1. t \notin ToSet(left)
        BY <3>2
      <4>2. QED
        BY <1>1, <3>2, <3>3, <4>1, SortedWithout
    <3>5. r \in Seq(Task) /\ IsInjective(r) /\ ToSet(r) = ToSet(q) /\ Sorted(r, priority2)
      <4>1. t \notin ToSet(left)
        BY <3>2
      <4> HIDE DEF left, priority2, q
      <4>2. /\ queue_insert_tpri(left, t, priority2) \in Seq(Task)
            /\ IsInjective(queue_insert_tpri(left, t, priority2))
            /\ ToSet(queue_insert_tpri(left, t, priority2)) = ToSet(left) \cup {t}
            /\ Sorted(queue_insert_tpri(left, t, priority2), priority2)
        BY <1>1, <1>5, <3>2, <3>4, <4>1, QueueInsertTpri
      <4>3. ToSet(left) \cup {t} = ToSet(q)
        BY <3>1, <3>2
      <4>4. QED
        BY <4>2, <4>3 DEF left
    <3> HIDE DEF r
    <3>6. /\ wq2 \in [Obj -> Seq(Task)] /\ wq2[obj] = r
          /\ \A o \in Obj : o # obj => wq2[o] = d.wait_queue[o]
      BY <1>1, <2>5, <3>5, ObjNames
    <3> HIDE DEF wq2
    <3>7. /\ k2 \in KernelData(I, C) /\ k2.rq = rq2 /\ k2.wait_queue = wq2
          /\ SameStates(k2, d) /\ SameWINFO(k2, d) /\ SameRequests(k2, d) /\ SameObjects(k2, d)
      BY <2>2, <2>4, <3>6 DEF KernelData, SameStates, SameWINFO, SameRequests, SameObjects
    <3>8. ASSUME NEW o \in Obj
          PROVE  /\ ToSet(wq2[o]) = ToSet(d.wait_queue[o]) /\ IsInjective(wq2[o])
                 /\ o \in TPriObj => Sorted(wq2[o], rq2.priority)
      <4>1. CASE o = obj
        BY <2>3, <3>5, <3>6, <4>1
      <4>2. CASE o # obj
        <5> HIDE DEF priority2
        <5>1. wq2[o] = d.wait_queue[o] /\ IsInjective(d.wait_queue[o])
          BY <1>2, <3>6, <4>2 DEF QueuesOf
        <5>2. o \in TPriObj => Sorted(d.wait_queue[o], priority2)
          BY <1>4, <4>2
        <5>3. QED
          BY <2>3, <5>1, <5>2
      <4>3. QED
        BY <4>1, <4>2
    <3>9. QueuesOf(rq2, d.tstat, d.wobj, d.tmevtb, wq2, L)
      BY <1>2, <2>2, <3>8, ObjNames DEF QueuesOf
    <3>10. QueuesInv(k2, L)
      BY <3>7, <3>9, QueuesAre DEF SameStates
    <3>11. QED
      BY <2>3, <3>7, <3>10 DEF k2
  <2>6. CASE obj \notin TPriObj
    <3>1. wq2 = d.wait_queue
      BY <2>6
    <3> HIDE DEF wq2
    <3>2. /\ k2 \in KernelData(I, C) /\ k2.rq = rq2 /\ k2.wait_queue = d.wait_queue
          /\ SameStates(k2, d) /\ SameWINFO(k2, d) /\ SameRequests(k2, d) /\ SameObjects(k2, d)
      BY <1>1, <2>2, <2>4, <3>1 DEF KernelData, SameStates, SameWINFO, SameRequests, SameObjects
    <3>3. \A o \in TPriObj : Sorted(d.wait_queue[o], rq2.priority)
      BY <1>4, <2>3, <2>6
    <3>4. QueuesOf(rq2, d.tstat, d.wobj, d.tmevtb, d.wait_queue, L)
      BY <1>2, <2>2, <3>3 DEF QueuesOf
    <3>5. QueuesInv(k2, L)
      BY <3>2, <3>4, QueuesAre DEF SameStates
    <3>6. QED
      BY <2>3, <3>2, <3>5 DEF k2
  <2>7. QED
    BY <2>5, <2>6
<1>8. QED
  BY <1>6, <1>7

\* From d to k2, t has become dormant.
MadeDormant(d, k2, t) ==
  /\ k2.tstat = [d.tstat EXCEPT ![t] = "DORMANT"]
  /\ k2.wobj = [d.wobj EXCEPT ![t] = NoObj] /\ k2.tmevtb = d.tmevtb
  /\ k2.rq.priority = [d.rq.priority EXCEPT ![t] = ipriority[t]]
  /\ k2.rq.schedtsk = d.rq.schedtsk
  /\ k2.bpriority = [d.bpriority EXCEPT ![t] = ipriority[t]]
  /\ k2.actque = d.actque
  /\ k2.wupque = [d.wupque EXCEPT ![t] = FALSE]
  /\ k2.waifbd = [d.waifbd EXCEPT ![t] = FALSE]
  /\ SameObjects(k2, d)

\* make_dormant, for a task that is in no queue and has no timeout.
LEMMA MakeDormant ==
  ASSUME NEW I, NEW C, NoInfo \in I,
         NEW d \in KernelData(I, C), NEW L \in SUBSET Task, QueuesInv(d, L),
         NEW t \in Task, t \notin L, ~d.tmevtb[t]
  PROVE  LET k2 == make_dormant(d, t)
         IN  /\ k2 \in KernelData(I, C) /\ QueuesInv(k2, L \cup {t})
             /\ MadeDormant(d, k2, t)
<1> DEFINE k1 == [d EXCEPT !.rq.priority[t] = ipriority[t]]
           tstat2 == [d.tstat EXCEPT ![t] = "DORMANT"]
           wobj2 == [d.wobj EXCEPT ![t] = NoObj]
           bpriority2 == [d.bpriority EXCEPT ![t] = ipriority[t]]
           wupque2 == [d.wupque EXCEPT ![t] = FALSE]
           waifbd2 == [d.waifbd EXCEPT ![t] = FALSE]
           winfo2 == [d.winfo EXCEPT ![t] = NoInfo]
           k2 == make_dormant(d, t)
<1>1. /\ d.tstat \in [Task -> TStat] /\ d.wobj \in [Task -> WaitKind]
      /\ d.tmevtb \in [Task -> BOOLEAN] /\ d.bpriority \in [Task -> Pri]
      /\ d.wupque \in [Task -> BOOLEAN] /\ d.waifbd \in [Task -> BOOLEAN]
      /\ d.winfo \in [Task -> I] /\ ipriority[t] \in Pri
  BY DataFields, PriorityAssumption
<1>2. /\ k1 \in KernelData(I, C) /\ QueuesInv(k1, L)
      /\ k1.rq.priority = [d.rq.priority EXCEPT ![t] = ipriority[t]]
      /\ k1.rq.schedtsk = d.rq.schedtsk
      /\ k1.wait_queue = d.wait_queue /\ SameStates(k1, d)
      /\ SameWINFO(k1, d) /\ SameRequests(k1, d) /\ SameObjects(k1, d)
  BY <1>1, SetPriority
<1>3. /\ tstat2 \in [Task -> TStat] /\ wobj2 \in [Task -> WaitKind]
      /\ bpriority2 \in [Task -> Pri] /\ wupque2 \in [Task -> BOOLEAN]
      /\ waifbd2 \in [Task -> BOOLEAN] /\ winfo2 \in [Task -> I]
  BY <1>1, ObjNames DEF TStat
<1>4. k2 = [k1 EXCEPT !.tstat = tstat2, !.wobj = wobj2, !.winfo = winfo2,
                      !.bpriority = bpriority2, !.wupque = wupque2, !.waifbd = waifbd2]
  BY ZenonT(60) DEF make_dormant, KernelData
<1> HIDE DEF k1, tstat2, wobj2, bpriority2, wupque2, waifbd2, winfo2, k2
<1>5. /\ k2 \in KernelData(I, C) /\ k2.rq = k1.rq
      /\ k2.tstat = tstat2 /\ k2.wobj = wobj2 /\ k2.tmevtb = d.tmevtb
      /\ k2.bpriority = bpriority2 /\ k2.actque = d.actque
      /\ k2.wupque = wupque2 /\ k2.waifbd = waifbd2
      /\ k2.wait_queue = k1.wait_queue /\ SameObjects(k2, d)
  <2>1. /\ k2 \in KernelData(I, C) /\ k2.rq = k1.rq
        /\ k2.tstat = tstat2 /\ k2.wobj = wobj2 /\ k2.tmevtb = k1.tmevtb
        /\ k2.bpriority = bpriority2 /\ k2.actque = k1.actque
        /\ k2.wupque = wupque2 /\ k2.waifbd = waifbd2
        /\ k2.wait_queue = k1.wait_queue /\ SameObjects(k2, k1)
    <3>1. k1 \in KernelData(I, C)
      BY <1>2
    <3>2. k2 \in KernelData(I, C)
      BY <1>3, <1>4, <3>1 DEF KernelData
    <3>3. QED
      BY <1>4, <3>1, <3>2 DEF KernelData, SameObjects
  <2>2. QED
    BY <1>2, <2>1 DEF SameObjects, SameStates, SameRequests
<1>6. NewState(k1, k2, t, "DORMANT", NoObj, FALSE)
  <2>1. d.tmevtb = [d.tmevtb EXCEPT ![t] = FALSE]
    BY <1>1
  <2>2. QED
    BY <1>2, <1>5, <2>1, ObjNames DEF NewState, TStat, tstat2, wobj2, SameStates
<1>7. JoinsReadyQueue(k1, k2, L, t, "DORMANT")
  <2>1. ReadyQueueInv(k1.rq, {u \in L : k1.tstat[u] = "RUNNABLE"})
    BY <1>2, QueuesAre DEF QueuesOf
  <2>2. QED
    BY <1>5, <2>1 DEF JoinsReadyQueue
<1>8. QueuesInv(k2, L \cup {t})
  BY <1>1, <1>2, <1>5, <1>6, <1>7, ObjNames, JoinNoWaitQueue
<1>9. QED
  BY <1>2, <1>5, <1>8 DEF MadeDormant, tstat2, wobj2, bpriority2, wupque2, waifbd2, k2

\* rot_rdq moves the first task of a priority behind the others.
LEMMA Rotate ==
  ASSUME NEW I, NEW C, NEW d \in KernelData(I, C), NEW L \in SUBSET Task, QueuesInv(d, L),
         NEW pri \in Pri
  PROVE  LET k2 == [d EXCEPT !.rq = rotate_ready_queue(@, pri)]
         IN  /\ k2 \in KernelData(I, C) /\ QueuesInv(k2, L)
             /\ k2.rq.priority = d.rq.priority
             /\ k2.wait_queue = d.wait_queue /\ SameStates(k2, d)
             /\ SameWINFO(k2, d) /\ SameRequests(k2, d) /\ SameObjects(k2, d)
<1> DEFINE rq2 == rotate_ready_queue(d.rq, pri)
           R == {u \in L : d.tstat[u] = "RUNNABLE"}
           k2 == [d EXCEPT !.rq = rq2]
<1>1. d.rq \in ReadyQueueType /\ R \in SUBSET Task
  BY DataFields
<1>2. QueuesOf(d.rq, d.tstat, d.wobj, d.tmevtb, d.wait_queue, L)
  BY QueuesAre
<1>3. ReadyQueueInv(d.rq, R)
  BY <1>2 DEF QueuesOf
<1>4. rq2 \in ReadyQueueType /\ ReadyQueueInv(rq2, R)
  <2> HIDE DEF R
  <2>1. QED
    BY <1>1, <1>3, Rotate_Correct
<1>5. rq2.priority = d.rq.priority
  BY <1>1 DEF rotate_ready_queue, ReadyQueueType
<1> HIDE DEF rq2
<1>6. /\ k2 \in KernelData(I, C) /\ k2.rq = rq2 /\ k2.wait_queue = d.wait_queue
      /\ SameStates(k2, d) /\ SameWINFO(k2, d) /\ SameRequests(k2, d) /\ SameObjects(k2, d)
  BY <1>4 DEF KernelData, SameStates, SameWINFO, SameRequests, SameObjects
<1>7. k2 = [d EXCEPT !.rq = rotate_ready_queue(@, pri)]
  BY DEF rq2
<1> HIDE DEF k2
<1>8. QueuesOf(rq2, d.tstat, d.wobj, d.tmevtb, d.wait_queue, L)
  BY <1>2, <1>4, <1>5 DEF QueuesOf
<1>9. QueuesInv(k2, L)
  BY <1>6, <1>8, QueuesAre DEF SameStates
<1>10. QED
  BY <1>5, <1>6, <1>7, <1>9

-----------------------------------------------------------------------------
(***************************************************************************)
(* The data that the CPU lock protects.                                    *)
(***************************************************************************)
\* Nobody waits for a semaphore with a unit left.
UnitsInv(d, live) ==
  \A s \in Sem : /\ d.semcnt[s] <= maxsem[s]
                 /\ d.semcnt[s] > 0 => \A t \in live : d.wobj[t] # s

\* The mutexes but those in unlinked are in the lists of their owners.
OwnersInv(d, unlinked) ==
  /\ \A m \in Mtx, t \in Task : m \in HeldBy(d, t) <=> d.loctsk[m] = t /\ m \notin unlinked
  /\ \A t \in Task : IsInjective(d.mutex_queue[t])

\* Whoever waits for a mutex waits for another task.
WaitersInv(d, live) ==
  \A m \in Mtx, t \in live : d.wobj[t] = m => d.loctsk[m] \notin {NoTask, t}

\* No ceiling is below the base priority of an owner or of a waiter.
CeilingsInv(d, live) ==
  \A m \in CeilMtx, t \in live :
     d.loctsk[m] = t \/ d.wobj[t] = m => ceilpri[m] <= d.bpriority[t]

\* Current priorities follow from base priorities and ceilings.
PrioritiesInv(d, tasks) == \A t \in tasks : d.rq.priority[t] = mutex_calc_priority(d, t)

\* A dormant task is as it was after the start of the kernel.
DormantInv(d) ==
  \A t \in Task : IsDormant(d, t) =>
    /\ ~d.actque[t] /\ ~d.wupque[t] /\ ~d.waifbd[t]
    /\ \A m \in Mtx : d.loctsk[m] # t
    /\ d.bpriority[t] = ipriority[t] /\ d.rq.priority[t] = ipriority[t]

\* Nobody sleeps over a wakeup request.
SleepersInv(d, live) == \A t \in live : d.wobj[t] = "SLP" => ~d.wupque[t]

ObjectsInv(d, live) ==
  /\ UnitsInv(d, live)
  /\ OwnersInv(d, {})
  /\ WaitersInv(d, live)
  /\ CeilingsInv(d, live)
  /\ PrioritiesInv(d, live)
  /\ DormantInv(d)
  /\ SleepersInv(d, live)

DataInv(I, C, d, live) ==
  NoInfo \in I /\ d \in KernelData(I, C) /\ QueuesInv(d, live) /\ ObjectsInv(d, live)

-----------------------------------------------------------------------------
(***************************************************************************)
(* Lemmas about the parts.                                                 *)
(***************************************************************************)
\* The types of the fields that the objects depend on.
LEMMA DataTypes ==
  ASSUME NEW I, NEW C,
         NEW d \in KernelData(I, C)
  PROVE  /\ d.rq \in ReadyQueueType /\ d.rq.priority \in [Task -> Pri]
         /\ d.tstat \in [Task -> TStat] /\ d.wobj \in [Task -> WaitKind]
         /\ d.tmevtb \in [Task -> BOOLEAN] /\ d.wercd \in [Task -> ErCd]
         /\ d.bpriority \in [Task -> Pri]
         /\ d.actque \in [Task -> BOOLEAN] /\ d.wupque \in [Task -> BOOLEAN]
         /\ d.waifbd \in [Task -> BOOLEAN]
         /\ d.wait_queue \in [Obj -> Seq(Task)]
         /\ d.semcnt \in [Sem -> Nat] /\ d.loctsk \in [Mtx -> Task \cup {NoTask}]
         /\ d.mutex_queue \in [Task -> Seq(Mtx)]
  BY DataFields

\* The base priority of a task and the ceilings of the mutexes in its list.
Claims(d, t) == {d.bpriority[t]} \cup {ceilpri[m] : m \in HeldBy(d, t) \cap CeilMtx}

\* mutex_calc_priority is the highest of the claims.
LEMMA CalcPriority ==
  ASSUME NEW I, NEW C,
         NEW d \in KernelData(I, C), NEW t \in Task
  PROVE  /\ mutex_calc_priority(d, t) \in Pri
         /\ mutex_calc_priority(d, t) \in Claims(d, t)
         /\ \A c \in Claims(d, t) : mutex_calc_priority(d, t) <= c
         /\ \A p \in Claims(d, t) :
              (\A c \in Claims(d, t) : p <= c) => p = mutex_calc_priority(d, t)
<1> DEFINE S == Claims(d, t)
<1>1. S \in SUBSET Pri /\ S # {}
  <2>1. d.bpriority[t] \in Pri
    BY DataTypes
  <2>2. \A m \in HeldBy(d, t) \cap CeilMtx : ceilpri[m] \in Pri
    BY CeilingAssumption
  <2>3. QED
    BY <2>1, <2>2 DEF Claims
<1>2. Pri \subseteq Nat
  BY DEF Pri
<1>3. mutex_calc_priority(d, t) = primap_search(S)
  BY DEF mutex_calc_priority, primap_search, Min, Claims
<1> HIDE DEF S
<1>4. primap_search(S) \in S /\ \A c \in S : primap_search(S) <= c
  BY <1>1, <1>2, SearchFindsMinimum
<1>5. ASSUME NEW p \in S, \A c \in S : p <= c PROVE p = primap_search(S)
  <2>1. p \in Nat /\ primap_search(S) \in Nat
    BY <1>1, <1>2, <1>4
  <2>2. QED
    BY <1>4, <1>5, <2>1
<1>6. QED
  BY <1>1, <1>3, <1>4, <1>5 DEF S

\* It depends on the base priority and on the list of the task.
LEMMA SamePriority ==
  ASSUME NEW d, NEW d2, NEW t,
         d2.bpriority[t] = d.bpriority[t],
         HeldBy(d2, t) \cap CeilMtx = HeldBy(d, t) \cap CeilMtx
  PROVE  mutex_calc_priority(d2, t) = mutex_calc_priority(d, t)
  BY DEF mutex_calc_priority

\* From d to d2, tasks of live stop waiting or start to sleep, and a task that
\* is dormant was so before.
Eases(d, d2, live) ==
  /\ \A t \in live : /\ d2.wobj[t] \in {d.wobj[t], NoObj, "SLP", "DLY"}
                     /\ d2.wobj[t] = "SLP" => ~d2.wupque[t]
  /\ \A t \in Task : IsDormant(d2, t) =>
        IsDormant(d, t) /\ ~d2.actque[t] /\ ~d2.wupque[t] /\ ~d2.waifbd[t]

\* Such a change keeps the objects correct.
LEMMA ObjectsKept ==
  ASSUME NEW I, NEW C,
         NEW d \in KernelData(I, C), NEW d2 \in KernelData(I, C), NEW L \in SUBSET Task,
         NEW L2 \in SUBSET L,
         ObjectsInv(d, L), SameObjects(d2, d), d2.bpriority = d.bpriority,
         d2.rq.priority = d.rq.priority, Eases(d, d2, L2)
  PROVE  ObjectsInv(d2, L2)
<1>1. d2.semcnt = d.semcnt /\ d2.loctsk = d.loctsk /\ d2.mutex_queue = d.mutex_queue
  BY DEF SameObjects
<1>2. UnitsInv(d2, L2)
  BY <1>1, ObjNames DEF ObjectsInv, UnitsInv, Eases
<1>3. OwnersInv(d2, {})
  BY <1>1 DEF ObjectsInv, OwnersInv, HeldBy
<1>4. WaitersInv(d2, L2)
  BY <1>1, ObjNames DEF ObjectsInv, WaitersInv, Eases
<1>5. CeilingsInv(d2, L2)
  BY <1>1, ObjNames, CeilingAssumption DEF ObjectsInv, CeilingsInv, Eases
<1>6. PrioritiesInv(d2, L2)
  <2>1. ASSUME NEW t \in L2 PROVE d2.rq.priority[t] = mutex_calc_priority(d2, t)
    <3>1. mutex_calc_priority(d2, t) = mutex_calc_priority(d, t)
      BY <1>1, SamePriority DEF HeldBy
    <3>2. QED
      BY <3>1 DEF ObjectsInv, PrioritiesInv
  <2>2. QED
    BY <2>1 DEF PrioritiesInv
<1>7. DormantInv(d2)
  BY <1>1 DEF ObjectsInv, DormantInv, Eases
<1>8. SleepersInv(d2, L2)
  BY DEF SleepersInv, Eases
<1>9. QED
  BY <1>2, <1>3, <1>4, <1>5, <1>6, <1>7, <1>8 DEF ObjectsInv

-----------------------------------------------------------------------------
(***************************************************************************)
(* Waits that end.                                                         *)
(***************************************************************************)
\* From d to d2 no task stops being runnable or becomes dormant, and no
\* timeout is registered.
Keeps(d, d2) ==
  \A u \in Task : /\ IsRunnable(d, u) => IsRunnable(d2, u)
                  /\ IsDormant(d2, u) => IsDormant(d, u)
                  /\ d2.tmevtb[u] => d.tmevtb[u]

\* A waiting task is unlinked and its wait ends with some result.
LEMMA WaitEnds ==
  ASSUME NEW I, NEW C,
         NEW d, NEW L \in SUBSET Task, DataInv(I, C, d, L),
         NEW t \in L, IsWaiting(d, t), NEW ercd \in ErCd
  PROVE  LET d2 == end_wait(wait_dequeue_wobj(d, t), t, ercd)
         IN  DataInv(I, C, d2, L) /\ Keeps(d, d2)
<1> DEFINE d1 == wait_dequeue_wobj(d, t)
           d2 == end_wait(d1, t, ercd)
           M == L \ {t}
<1>1. /\ d \in KernelData(I, C) /\ QueuesInv(d, L) /\ ObjectsInv(d, L) /\ NoInfo \in I
      /\ L \in SUBSET Task /\ t \in Task
  BY DEF DataInv
<1>2. /\ d1 \in KernelData(I, C) /\ QueuesInv(d1, M) /\ d1.rq = d.rq /\ SameStates(d1, d)
      /\ SameRequests(d1, d) /\ SameObjects(d1, d)
  BY <1>1, Dequeue
<1>3. t \notin M /\ M \in SUBSET Task /\ M \cup {t} = L
  OBVIOUS
<1> HIDE DEF d1, M
<1>4. d2 \in KernelData(I, C) /\ QueuesInv(d2, M \cup {t}) /\ WaitEnded(d1, d2, t, ercd)
  BY <1>1, <1>2, <1>3, EndWait
<1> HIDE DEF d2
<1>5. /\ d.tstat \in [Task -> TStat] /\ d.wobj \in [Task -> WaitKind]
      /\ d.tmevtb \in [Task -> BOOLEAN] /\ d.wupque \in [Task -> BOOLEAN]
  BY <1>1, DataTypes
<1>6. AfterWait(d1, t) \in {"SUSPENDED", "RUNNABLE"} /\ d1.tstat = d.tstat
  BY <1>2 DEF AfterWait, SameStates
<1>7. /\ d2.wobj[t] = NoObj /\ \A u \in Task \ {t} : d2.wobj[u] = d.wobj[u]
      /\ d2.tstat[t] \in {"SUSPENDED", "RUNNABLE"}
      /\ \A u \in Task \ {t} : d2.tstat[u] = d.tstat[u]
      /\ d2.tmevtb[t] = FALSE /\ \A u \in Task \ {t} : d2.tmevtb[u] = d.tmevtb[u]
  BY <1>2, <1>4, <1>5, <1>6 DEF SameStates, WaitEnded
<1>8. Keeps(d, d2)
  BY <1>1, <1>7 DEF Keeps, IsRunnable, IsDormant, IsWaiting
<1>9. /\ SameObjects(d2, d) /\ d2.bpriority = d.bpriority /\ d2.rq.priority = d.rq.priority
      /\ d2.actque = d.actque /\ d2.wupque = d.wupque /\ d2.waifbd = d.waifbd
  BY <1>2, <1>4 DEF SameObjects, SameRequests, WaitEnded
<1>10. Eases(d, d2, L)
  <2>1. \A u \in L : d2.wobj[u] \in {d.wobj[u], NoObj}
    BY <1>7
  <2>2. \A u \in L : d2.wobj[u] = "SLP" => ~d2.wupque[u]
    BY <1>1, <1>7, <1>9, ObjNames DEF ObjectsInv, SleepersInv
  <2>3. \A u \in Task : IsDormant(d2, u) =>
          IsDormant(d, u) /\ ~d2.actque[u] /\ ~d2.wupque[u] /\ ~d2.waifbd[u]
    BY <1>1, <1>7, <1>9 DEF ObjectsInv, DormantInv, IsDormant
  <2>4. QED
    BY <2>1, <2>2, <2>3 DEF Eases
<1>11. ObjectsInv(d2, L)
  BY <1>1, <1>4, <1>9, <1>10, ObjectsKept
<1>12. QED
  BY <1>3, <1>4, <1>8, <1>11 DEF DataInv, d1, d2

\* A waiting task is in live and waits for something.
LEMMA WaitersFacts ==
  ASSUME NEW I, NEW C,
         NEW d, NEW L \in SUBSET Task, DataInv(I, C, d, L)
  PROVE  /\ \A t \in L : IsWaiting(d, t) <=> d.wobj[t] # NoObj
         /\ \A t \in Task : d.tmevtb[t] => IsWaiting(d, t)
         /\ \A t \in Task, o \in Obj : t \in ToSet(d.wait_queue[o]) <=> t \in L /\ d.wobj[t] = o
  BY QueuesAre DEF DataInv, QueuesOf, IsWaiting

\* rel_wai.
LEMMA WaitRelease ==
  ASSUME NEW I, NEW C,
         NEW d, NEW L \in SUBSET Task, DataInv(I, C, d, L), NEW t \in L, IsWaiting(d, t)
  PROVE  DataInv(I, C, wait_release(d, t), L) /\ Keeps(d, wait_release(d, t))
<1>1. "E_RLWAI" \in ErCd
  BY DEF ErCd
<1>2. QED
  BY <1>1, WaitEnds DEF wait_release

\* The expiry of a timeout.
LEMMA WaitExpire ==
  ASSUME NEW I, NEW C,
         NEW d, NEW L \in SUBSET Task, DataInv(I, C, d, L), NEW t \in L, IsWaiting(d, t)
  PROVE  DataInv(I, C, wait_expire(d, t), L) /\ Keeps(d, wait_expire(d, t))
<1> DEFINE ercd == IF d.wobj[t] = "DLY" THEN "E_OK" ELSE "E_TMOUT"
<1>1. ercd \in ErCd
  BY DEF ErCd
<1> HIDE DEF ercd
<1>2. DataInv(I, C, end_wait(wait_dequeue_wobj(d, t), t, ercd), L) /\
      Keeps(d, end_wait(wait_dequeue_wobj(d, t), t, ercd))
  BY <1>1, WaitEnds
<1>3. QED
  BY <1>2 DEF wait_expire, ercd

\* A turn of init_wait_queue.
LEMMA InitWaitQueue ==
  ASSUME NEW I, NEW C,
         NEW d, NEW L \in SUBSET Task, DataInv(I, C, d, L),
         NEW o \in Obj, d.wait_queue[o] # << >>, NEW ercd \in ErCd
  PROVE  LET d2 == end_wait(queue_delete_next(d, o), Head(d.wait_queue[o]), ercd)
         IN  DataInv(I, C, d2, L) /\ Keeps(d, d2)
<1> DEFINE t == Head(d.wait_queue[o])
<1>1. t \in L /\ IsWaiting(d, t) /\ queue_delete_next(d, o) = wait_dequeue_wobj(d, t)
  BY DequeueNext DEF DataInv
<1> HIDE DEF t
<1>2. DataInv(I, C, end_wait(wait_dequeue_wobj(d, t), t, ercd), L) /\
      Keeps(d, end_wait(wait_dequeue_wobj(d, t), t, ercd))
  BY <1>1, WaitEnds
<1>3. QED
  BY <1>1, <1>2 DEF t

\* wup_tsk.
LEMMA Wakeup ==
  ASSUME NEW I, NEW C,
         NEW d, DataInv(I, C, d, Task), NEW t \in Task, ~IsDormant(d, t)
  PROVE  DataInv(I, C, wakeup(d, t), Task) /\ Keeps(d, wakeup(d, t))
<1>1. CASE d.wobj[t] = "SLP"
  <2>1. IsWaiting(d, t) /\ wait_dequeue_wobj(d, t) = d
    BY <1>1, WaitersFacts, ObjNames DEF wait_dequeue_wobj
  <2>2. "E_OK" \in ErCd /\ Task \in SUBSET Task
    BY DEF ErCd
  <2>3. DataInv(I, C, end_wait(wait_dequeue_wobj(d, t), t, "E_OK"), Task) /\
        Keeps(d, end_wait(wait_dequeue_wobj(d, t), t, "E_OK"))
    BY <2>1, <2>2, WaitEnds
  <2>4. QED
    BY <1>1, <2>1, <2>3 DEF wakeup, wait_complete
<1>2. CASE d.wobj[t] # "SLP"
  <2> DEFINE wupque2 == [d.wupque EXCEPT ![t] = TRUE]
             d2 == [d EXCEPT !.wupque = wupque2]
  <2>1. d \in KernelData(I, C) /\ QueuesInv(d, Task) /\ ObjectsInv(d, Task)
    BY DEF DataInv
  <2>2. d.wupque \in [Task -> BOOLEAN]
    BY <2>1, DataTypes
  <2>3. wupque2 \in [Task -> BOOLEAN] /\ \A u \in Task \ {t} : wupque2[u] <=> d.wupque[u]
    BY <2>2
  <2> HIDE DEF wupque2
  <2>4. /\ d2 \in KernelData(I, C) /\ d2.rq = d.rq /\ SameStates(d2, d)
        /\ d2.wait_queue = d.wait_queue
        /\ SameObjects(d2, d) /\ d2.bpriority = d.bpriority
        /\ d2.actque = d.actque /\ d2.waifbd = d.waifbd /\ d2.wupque = wupque2
    BY <2>1, <2>3 DEF KernelData, SameStates, SameObjects
  <2> HIDE DEF d2
  <2>5. Eases(d, d2, Task)
    BY <1>2, <2>1, <2>3, <2>4
       DEF Eases, SameStates, IsDormant, ObjectsInv, DormantInv, SleepersInv
  <2>6. ObjectsInv(d2, Task)
    BY <2>1, <2>4, <2>5, ObjectsKept
  <2>7. QueuesInv(d2, Task)
    BY <2>1, <2>4, QueuesDependOn
  <2>8. wakeup(d, t) = d2
    BY <1>2 DEF wakeup, d2, wupque2
  <2>9. Keeps(d, d2)
    BY <2>4 DEF Keeps, SameStates, IsRunnable, IsDormant
  <2>10. QED
    BY <2>4, <2>6, <2>7, <2>8, <2>9 DEF DataInv
<1>3. QED
  BY <1>1, <1>2

-----------------------------------------------------------------------------
(***************************************************************************)
(* Semaphores.                                                             *)
(***************************************************************************)
\* A count may change as long as it respects its maximum and the waiters.
LEMMA SetCount ==
  ASSUME NEW I, NEW C,
         NEW d, NEW L \in SUBSET Task, DataInv(I, C, d, L), NEW s \in Sem, NEW n \in Nat,
         n <= maxsem[s], n > 0 => \A t \in L : d.wobj[t] # s
  PROVE  LET d2 == [d EXCEPT !.semcnt[s] = n]
         IN  DataInv(I, C, d2, L) /\ Keeps(d, d2) /\ d2.rq = d.rq
<1> DEFINE semcnt2 == [d.semcnt EXCEPT ![s] = n]
           d2 == [d EXCEPT !.semcnt = semcnt2]
<1>1. d \in KernelData(I, C) /\ QueuesInv(d, L) /\ ObjectsInv(d, L)
  BY DEF DataInv
<1>2. d.semcnt \in [Sem -> Nat]
  BY <1>1, DataTypes
<1>3. /\ semcnt2 \in [Sem -> Nat] /\ semcnt2[s] = n
      /\ \A x \in Sem \ {s} : semcnt2[x] = d.semcnt[x]
  BY <1>2
<1> HIDE DEF semcnt2
<1>4. /\ d2 \in KernelData(I, C) /\ d2.rq = d.rq /\ SameStates(d2, d)
      /\ d2.wait_queue = d.wait_queue
      /\ SameRequests(d2, d) /\ d2.semcnt = semcnt2
      /\ d2.loctsk = d.loctsk /\ d2.mutex_queue = d.mutex_queue
  BY <1>1, <1>3 DEF KernelData, SameStates, SameRequests
<1>5. d2 = [d EXCEPT !.semcnt[s] = n]
  BY DEF semcnt2
<1> HIDE DEF d2
<1>6. /\ d2.tstat = d.tstat /\ d2.wobj = d.wobj /\ d2.tmevtb = d.tmevtb
      /\ d2.bpriority = d.bpriority /\ d2.actque = d.actque
      /\ d2.wupque = d.wupque /\ d2.waifbd = d.waifbd
  BY <1>4 DEF SameStates, SameRequests
<1>7. QueuesInv(d2, L)
  BY <1>1, <1>4, QueuesDependOn
<1>8. UnitsInv(d2, L)
  BY <1>1, <1>3, <1>4, <1>6 DEF ObjectsInv, UnitsInv
<1>9. PrioritiesInv(d2, L)
  <2>1. ASSUME NEW t \in L PROVE d2.rq.priority[t] = mutex_calc_priority(d2, t)
    <3>1. mutex_calc_priority(d2, t) = mutex_calc_priority(d, t)
      BY <1>4, <1>6, SamePriority DEF HeldBy
    <3>2. QED
      BY <1>1, <1>4, <3>1 DEF ObjectsInv, PrioritiesInv
  <2>2. QED
    BY <2>1 DEF PrioritiesInv
<1>10. OwnersInv(d2, {}) /\ WaitersInv(d2, L) /\ CeilingsInv(d2, L)
  BY <1>1, <1>4, <1>6 DEF ObjectsInv, OwnersInv, HeldBy, WaitersInv, CeilingsInv
<1>11. DormantInv(d2) /\ SleepersInv(d2, L)
  BY <1>1, <1>4, <1>6 DEF ObjectsInv, DormantInv, SleepersInv, IsDormant
<1>12. Keeps(d, d2)
  BY <1>6 DEF Keeps, IsRunnable, IsDormant
<1>13. QED
  BY <1>4, <1>5, <1>7, <1>8, <1>9, <1>10, <1>11, <1>12 DEF DataInv, ObjectsInv

\* An empty wait queue has no waiter.
LEMMA NobodyWaits ==
  ASSUME NEW I, NEW C,
         NEW d, NEW L \in SUBSET Task, DataInv(I, C, d, L), NEW o \in Obj
  PROVE  d.wait_queue[o] = << >> <=> \A t \in L : d.wobj[t] # o
<1> DEFINE q == d.wait_queue[o]
<1>1. q \in Seq(Task)
  BY DataTypes DEF DataInv
<1>2. \A t \in Task : t \in ToSet(q) <=> t \in L /\ d.wobj[t] = o
  BY WaitersFacts
<1> HIDE DEF q
<1>3. q = << >> => ToSet(q) = {}
  BY DEF ToSet
<1>4. q # << >> => Head(q) \in Task /\ Head(q) \in ToSet(q)
  BY <1>1, HeadIsEntry
<1>5. QED
  BY <1>2, <1>3, <1>4 DEF q

\* sig_sem.
LEMMA Signal ==
  ASSUME NEW I, NEW C,
         NEW d, NEW L \in SUBSET Task, DataInv(I, C, d, L), NEW s \in Sem,
         d.wait_queue[s] # << >> \/ d.semcnt[s] < maxsem[s]
  PROVE  DataInv(I, C, signal(d, s), L) /\ Keeps(d, signal(d, s))
<1>1. s \in Obj /\ "E_OK" \in ErCd
  BY ObjNames DEF ErCd
<1>2. CASE d.wait_queue[s] # << >>
  <2> DEFINE d2 == end_wait(queue_delete_next(d, s), Head(d.wait_queue[s]), "E_OK")
  <2>1. DataInv(I, C, d2, L) /\ Keeps(d, d2)
    BY <1>1, <1>2, InitWaitQueue
  <2>2. QED
    BY <1>2, <2>1 DEF signal, wait_complete
<1>3. CASE d.wait_queue[s] = << >>
  <2> DEFINE n == d.semcnt[s] + 1
  <2>1. n \in Nat /\ n <= maxsem[s]
    <3>1. d.semcnt[s] \in Nat /\ maxsem[s] \in Nat
      BY DataTypes, SemaphoreAssumption DEF DataInv
    <3>2. QED
      BY <1>3, <3>1
  <2>2. \A t \in L : d.wobj[t] # s
    BY <1>1, <1>3, NobodyWaits
  <2>3. signal(d, s) = [d EXCEPT !.semcnt[s] = n]
    BY <1>3 DEF signal
  <2> HIDE DEF n
  <2>4. QED
    BY <2>1, <2>2, <2>3, SetCount
<1>4. QED
  BY <1>2, <1>3

\* wai_sem when the count is not zero.
LEMMA TakeUnit ==
  ASSUME NEW I, NEW C,
         NEW d, NEW L \in SUBSET Task, DataInv(I, C, d, L), NEW s \in Sem, d.semcnt[s] >= 1
  PROVE  LET d2 == [d EXCEPT !.semcnt[s] = @ - 1]
         IN  DataInv(I, C, d2, L) /\ Keeps(d, d2) /\ d2.rq = d.rq
<1> DEFINE n == d.semcnt[s] - 1
<1>1. d.semcnt[s] \in Nat /\ maxsem[s] \in Nat
  BY DataTypes, SemaphoreAssumption DEF DataInv
<1>2. d.semcnt[s] <= maxsem[s] /\ \A t \in L : d.wobj[t] # s
  BY <1>1 DEF DataInv, ObjectsInv, UnitsInv
<1>3. n \in Nat /\ n <= maxsem[s]
  BY <1>1, <1>2
<1>4. [d EXCEPT !.semcnt[s] = @ - 1] = [d EXCEPT !.semcnt[s] = n]
  OBVIOUS
<1> HIDE DEF n
<1>5. QED
  BY <1>2, <1>3, <1>4, SetCount

\* The end of ini_sem.
LEMMA IniSemEnd ==
  ASSUME NEW I, NEW C,
         NEW d, NEW L \in SUBSET Task, DataInv(I, C, d, L), NEW s \in Sem,
         d.wait_queue[s] = << >>
  PROVE  LET d2 == [d EXCEPT !.semcnt[s] = isemcnt[s]]
         IN  DataInv(I, C, d2, L) /\ Keeps(d, d2) /\ d2.rq = d.rq
<1>1. isemcnt[s] \in Nat /\ isemcnt[s] <= maxsem[s] /\ L \in SUBSET Task
  BY SemaphoreAssumption
<1>2. \A t \in L : d.wobj[t] # s
  BY <1>1, NobodyWaits, ObjNames
<1>3. QED
  BY <1>1, <1>2, SetCount

-----------------------------------------------------------------------------
(***************************************************************************)
(* Waits that begin.                                                       *)
(***************************************************************************)
\* slp_tsk and dly_tsk.
LEMMA Sleep ==
  ASSUME NEW I, NEW C,
         NEW d, DataInv(I, C, d, Task), NEW t \in Task, IsRunnable(d, t),
         NEW kind \in {"SLP", "DLY"}, NEW timed \in BOOLEAN, kind = "SLP" => ~d.wupque[t]
  PROVE  DataInv(I, C, make_wait(d, t, kind, timed), Task)
<1> DEFINE d2 == make_wait(d, t, kind, timed)
<1>1. /\ d \in KernelData(I, C) /\ QueuesInv(d, Task) /\ ObjectsInv(d, Task)
      /\ Task \in SUBSET Task
  BY DEF DataInv
<1>2. /\ d2 \in KernelData(I, C) /\ QueuesInv(d2, Task)
      /\ NewState(d, d2, t, "WAITING", kind, timed)
      /\ d2.rq.priority = d.rq.priority /\ SameRequests(d2, d) /\ SameObjects(d2, d)
  BY <1>1, MakeWait
<1> HIDE DEF d2
<1>3. d.tstat \in [Task -> TStat] /\ d.wobj \in [Task -> WaitKind]
  BY <1>1, DataTypes
<1>4. /\ d2.wobj[t] = kind /\ \A u \in Task \ {t} : d2.wobj[u] = d.wobj[u]
      /\ d2.tstat[t] = "WAITING" /\ \A u \in Task \ {t} : d2.tstat[u] = d.tstat[u]
  BY <1>2, <1>3 DEF NewState
<1>5. Eases(d, d2, Task)
  BY <1>1, <1>2, <1>4
     DEF Eases, SameRequests, IsDormant, ObjectsInv, DormantInv, SleepersInv
<1>6. d2.bpriority = d.bpriority
  BY <1>2 DEF SameRequests
<1>7. ObjectsInv(d2, Task)
  BY <1>1, <1>2, <1>5, <1>6, ObjectsKept
<1>8. QED
  BY <1>2, <1>7 DEF DataInv, d2

\* wai_sem and loc_mtx, when there is reason to wait, and the calls that wait for
\* other objects.
LEMMA WaitFor ==
  ASSUME NEW I, NEW C,
         NEW d, DataInv(I, C, d, Task), NEW t \in Task, IsRunnable(d, t),
         NEW o \in Obj, NEW timed \in BOOLEAN,
         o \in Sem => d.semcnt[o] = 0,
         o \in Mtx => d.loctsk[o] \notin {NoTask, t},
         o \in CeilMtx => ceilpri[o] <= d.bpriority[t]
  PROVE  DataInv(I, C, wobj_make_wait(d, t, o, timed), Task)
<1> DEFINE d2 == wobj_make_wait(d, t, o, timed)
<1>1. /\ d \in KernelData(I, C) /\ QueuesInv(d, Task) /\ ObjectsInv(d, Task)
      /\ Task \in SUBSET Task
      /\ o \in Obj
  BY ObjNames DEF DataInv
<1>2. /\ d2 \in KernelData(I, C) /\ QueuesInv(d2, Task)
      /\ NewState(d, d2, t, "WAITING", o, timed)
      /\ d2.rq.priority = d.rq.priority /\ SameRequests(d2, d) /\ SameObjects(d2, d)
  BY <1>1, WobjMakeWait
<1> HIDE DEF d2
<1>3. d.tstat \in [Task -> TStat] /\ d.wobj \in [Task -> WaitKind]
  BY <1>1, DataTypes
<1>4. /\ d2.wobj[t] = o /\ \A u \in Task \ {t} : d2.wobj[u] = d.wobj[u]
      /\ d2.tstat[t] = "WAITING" /\ \A u \in Task \ {t} : d2.tstat[u] = d.tstat[u]
  BY <1>2, <1>3 DEF NewState
<1>5. /\ d2.semcnt = d.semcnt /\ d2.loctsk = d.loctsk /\ d2.mutex_queue = d.mutex_queue
      /\ d2.bpriority = d.bpriority /\ d2.actque = d.actque /\ d2.wupque = d.wupque
      /\ d2.waifbd = d.waifbd
  BY <1>2 DEF SameRequests, SameObjects
<1>6. UnitsInv(d2, Task)
  <2>1. \A s \in Sem : d.semcnt[s] > 0 => s # o
    BY DEF UnitsInv
  <2>2. QED
    BY <1>1, <1>4, <1>5, <2>1 DEF ObjectsInv, UnitsInv
<1>7. OwnersInv(d2, {})
  BY <1>1, <1>5 DEF ObjectsInv, OwnersInv, HeldBy
<1>8. WaitersInv(d2, Task)
  BY <1>1, <1>4, <1>5 DEF ObjectsInv, WaitersInv
<1>9. CeilingsInv(d2, Task)
  BY <1>1, <1>4, <1>5 DEF ObjectsInv, CeilingsInv
<1>10. PrioritiesInv(d2, Task)
  <2>1. ASSUME NEW u \in Task PROVE d2.rq.priority[u] = mutex_calc_priority(d2, u)
    <3>1. mutex_calc_priority(d2, u) = mutex_calc_priority(d, u)
      BY <1>5, SamePriority DEF HeldBy
    <3>2. QED
      BY <1>1, <1>2, <3>1 DEF ObjectsInv, PrioritiesInv
  <2>2. QED
    BY <2>1 DEF PrioritiesInv
<1>11. DormantInv(d2)
  BY <1>1, <1>2, <1>4, <1>5 DEF ObjectsInv, DormantInv, IsDormant
<1>12. SleepersInv(d2, Task)
  BY <1>1, <1>4, <1>5, ObjNames DEF ObjectsInv, SleepersInv
<1>13. QED
  BY <1>2, <1>6, <1>7, <1>8, <1>9, <1>10, <1>11, <1>12 DEF DataInv, ObjectsInv, d2

-----------------------------------------------------------------------------
(***************************************************************************)
(* Requests, activation, suspension and rotation.                          *)
(***************************************************************************)
\* From d to d2 nothing changes but requests and results.
OnlyRequests(I, C, d, d2) ==
  /\ d2 \in KernelData(I, C) /\ d2.rq = d.rq /\ SameStates(d2, d)
  /\ d2.wait_queue = d.wait_queue
  /\ SameObjects(d2, d) /\ d2.bpriority = d.bpriority

\* Such a change keeps the data correct.
LEMMA RequestsKept ==
  ASSUME NEW I, NEW C,
         NEW d, NEW L \in SUBSET Task, DataInv(I, C, d, L), NEW d2,
         OnlyRequests(I, C, d, d2), Eases(d, d2, L)
  PROVE  DataInv(I, C, d2, L) /\ Keeps(d, d2)
<1>1. d \in KernelData(I, C) /\ QueuesInv(d, L) /\ ObjectsInv(d, L)
  BY DEF DataInv
<1>2. /\ d2 \in KernelData(I, C) /\ d2.rq = d.rq /\ SameStates(d2, d)
      /\ d2.wait_queue = d.wait_queue
      /\ SameObjects(d2, d) /\ d2.bpriority = d.bpriority
      /\ d2.rq.priority = d.rq.priority /\ L \in SUBSET L
  BY DEF OnlyRequests
<1>3. ObjectsInv(d2, L)
  BY <1>1, <1>2, ObjectsKept
<1>4. QueuesInv(d2, L)
  BY <1>1, <1>2, QueuesDependOn
<1>5. Keeps(d, d2)
  BY <1>2 DEF Keeps, SameStates, IsRunnable, IsDormant
<1>6. QED
  BY <1>2, <1>3, <1>4, <1>5 DEF DataInv

\* can_act, and act_tsk of a task that is active.
LEMMA SetActque ==
  ASSUME NEW I, NEW C,
         NEW d, DataInv(I, C, d, Task), NEW t \in Task, NEW b \in BOOLEAN,
         b => ~IsDormant(d, t)
  PROVE  LET d2 == [d EXCEPT !.actque[t] = b]
         IN  DataInv(I, C, d2, Task) /\ Keeps(d, d2) /\ d2.rq = d.rq
<1> DEFINE actque2 == [d.actque EXCEPT ![t] = b]
           d2 == [d EXCEPT !.actque = actque2]
<1>1. d \in KernelData(I, C) /\ ObjectsInv(d, Task) /\ Task \in SUBSET Task
  BY DEF DataInv
<1>2. d.actque \in [Task -> BOOLEAN]
  BY <1>1, DataTypes
<1>3. /\ actque2 \in [Task -> BOOLEAN] /\ (actque2[t] <=> b)
      /\ \A u \in Task \ {t} : actque2[u] <=> d.actque[u]
  BY <1>2
<1> HIDE DEF actque2
<1>4. /\ OnlyRequests(I, C, d, d2)
      /\ d2.actque = actque2 /\ d2.wupque = d.wupque /\ d2.waifbd = d.waifbd
  BY <1>1, <1>3 DEF OnlyRequests, KernelData, SameStates, SameObjects
<1>5. d2 = [d EXCEPT !.actque[t] = b]
  BY DEF actque2
<1> HIDE DEF d2
<1>6. Eases(d, d2, Task)
  BY <1>1, <1>3, <1>4
     DEF Eases, OnlyRequests, SameStates, IsDormant, ObjectsInv, DormantInv, SleepersInv
<1>7. DataInv(I, C, d2, Task) /\ Keeps(d, d2)
  BY <1>1, <1>4, <1>6, RequestsKept
<1>8. QED
  BY <1>4, <1>5, <1>7 DEF OnlyRequests

\* slp_tsk with a request, and can_wup.
LEMMA TakeWakeup ==
  ASSUME NEW I, NEW C,
         NEW d, DataInv(I, C, d, Task), NEW t \in Task
  PROVE  LET d2 == [d EXCEPT !.wupque[t] = FALSE]
         IN  DataInv(I, C, d2, Task) /\ Keeps(d, d2) /\ d2.rq = d.rq
<1> DEFINE wupque2 == [d.wupque EXCEPT ![t] = FALSE]
           d2 == [d EXCEPT !.wupque = wupque2]
<1>1. d \in KernelData(I, C) /\ ObjectsInv(d, Task) /\ Task \in SUBSET Task
  BY DEF DataInv
<1>2. d.wupque \in [Task -> BOOLEAN]
  BY <1>1, DataTypes
<1>3. /\ wupque2 \in [Task -> BOOLEAN] /\ ~wupque2[t]
      /\ \A u \in Task \ {t} : wupque2[u] <=> d.wupque[u]
  BY <1>2
<1> HIDE DEF wupque2
<1>4. /\ OnlyRequests(I, C, d, d2)
      /\ d2.actque = d.actque /\ d2.wupque = wupque2 /\ d2.waifbd = d.waifbd
  BY <1>1, <1>3 DEF OnlyRequests, KernelData, SameStates, SameObjects
<1>5. d2 = [d EXCEPT !.wupque[t] = FALSE]
  BY DEF wupque2
<1> HIDE DEF d2
<1>6. Eases(d, d2, Task)
  BY <1>1, <1>3, <1>4
     DEF Eases, OnlyRequests, SameStates, IsDormant, ObjectsInv, DormantInv, SleepersInv
<1>7. DataInv(I, C, d2, Task) /\ Keeps(d, d2)
  BY <1>1, <1>4, <1>6, RequestsKept
<1>8. QED
  BY <1>4, <1>5, <1>7 DEF OnlyRequests

\* dis_wai and ena_wai.
LEMMA SetWaifbd ==
  ASSUME NEW I, NEW C,
         NEW d, DataInv(I, C, d, Task), NEW t \in Task, NEW b \in BOOLEAN, ~IsDormant(d, t)
  PROVE  LET d2 == [d EXCEPT !.waifbd[t] = b]
         IN  DataInv(I, C, d2, Task) /\ Keeps(d, d2) /\ d2.rq = d.rq
<1> DEFINE waifbd2 == [d.waifbd EXCEPT ![t] = b]
           d2 == [d EXCEPT !.waifbd = waifbd2]
<1>1. d \in KernelData(I, C) /\ ObjectsInv(d, Task) /\ Task \in SUBSET Task
  BY DEF DataInv
<1>2. d.waifbd \in [Task -> BOOLEAN]
  BY <1>1, DataTypes
<1>3. /\ waifbd2 \in [Task -> BOOLEAN]
      /\ \A u \in Task \ {t} : waifbd2[u] <=> d.waifbd[u]
  BY <1>2
<1> HIDE DEF waifbd2
<1>4. /\ OnlyRequests(I, C, d, d2)
      /\ d2.actque = d.actque /\ d2.wupque = d.wupque /\ d2.waifbd = waifbd2
  BY <1>1, <1>3 DEF OnlyRequests, KernelData, SameStates, SameObjects
<1>5. d2 = [d EXCEPT !.waifbd[t] = b]
  BY DEF waifbd2
<1> HIDE DEF d2
<1>6. Eases(d, d2, Task)
  BY <1>1, <1>3, <1>4
     DEF Eases, OnlyRequests, SameStates, IsDormant, ObjectsInv, DormantInv, SleepersInv
<1>7. DataInv(I, C, d2, Task) /\ Keeps(d, d2)
  BY <1>1, <1>4, <1>6, RequestsKept
<1>8. QED
  BY <1>4, <1>5, <1>7 DEF OnlyRequests

\* The dispatcher resumes a task, whose WINFO is gone.
LEMMA Dispatched ==
  ASSUME NEW I, NEW C,
         NEW d, DataInv(I, C, d, Task), NEW t \in Task
  PROVE  LET d2 == [d EXCEPT !.wercd[t] = "E_OK", !.winfo[t] = NoInfo]
         IN  DataInv(I, C, d2, Task) /\ Keeps(d, d2) /\ d2.rq = d.rq
<1> DEFINE wercd2 == [d.wercd EXCEPT ![t] = "E_OK"]
           winfo2 == [d.winfo EXCEPT ![t] = NoInfo]
           d2 == [d EXCEPT !.wercd = wercd2, !.winfo = winfo2]
<1>1. d \in KernelData(I, C) /\ ObjectsInv(d, Task) /\ NoInfo \in I /\ Task \in SUBSET Task
  BY DEF DataInv
<1>2. d.wercd \in [Task -> ErCd] /\ d.winfo \in [Task -> I] /\ NoInfo \in I
  BY <1>1, DataFields
<1>3. wercd2 \in [Task -> ErCd] /\ winfo2 \in [Task -> I]
  BY <1>2 DEF ErCd
<1> HIDE DEF wercd2, winfo2
<1>4. /\ OnlyRequests(I, C, d, d2)
      /\ d2.actque = d.actque /\ d2.wupque = d.wupque /\ d2.waifbd = d.waifbd
  BY <1>1, <1>3 DEF OnlyRequests, KernelData, SameStates, SameObjects
<1>5. d2 = [d EXCEPT !.wercd[t] = "E_OK", !.winfo[t] = NoInfo]
  BY DEF wercd2, winfo2
<1> HIDE DEF d2
<1>6. Eases(d, d2, Task)
  BY <1>1, <1>4
     DEF Eases, OnlyRequests, SameStates, IsDormant, ObjectsInv, DormantInv, SleepersInv
<1>7. DataInv(I, C, d2, Task) /\ Keeps(d, d2)
  BY <1>1, <1>4, <1>6, RequestsKept
<1>8. QED
  BY <1>4, <1>5, <1>7 DEF OnlyRequests

\* A task becomes runnable that was dormant or suspended.
LEMMA MakeActive ==
  ASSUME NEW I, NEW C,
         NEW d, DataInv(I, C, d, Task), NEW t \in Task, d.tstat[t] \in {"DORMANT", "SUSPENDED"}
  PROVE  LET d2 == make_active(d, t)
         IN  DataInv(I, C, d2, Task) /\ Keeps(d, d2)
<1> DEFINE d2 == make_active(d, t)
<1>1. /\ d \in KernelData(I, C) /\ QueuesInv(d, Task) /\ ObjectsInv(d, Task)
      /\ Task \in SUBSET Task
  BY DEF DataInv
<1>2. /\ d2 \in KernelData(I, C) /\ QueuesInv(d2, Task)
      /\ d2.tstat = [d.tstat EXCEPT ![t] = "RUNNABLE"]
      /\ d2.wobj = d.wobj /\ d2.tmevtb = d.tmevtb /\ d2.rq.priority = d.rq.priority
      /\ SameRequests(d2, d) /\ SameObjects(d2, d)
  BY <1>1, BecomesRunnable
<1> HIDE DEF d2
<1>3. d.tstat \in [Task -> TStat]
  BY <1>1, DataTypes
<1>4. d2.tstat[t] = "RUNNABLE" /\ \A u \in Task \ {t} : d2.tstat[u] = d.tstat[u]
  BY <1>2, <1>3
<1>5. Eases(d, d2, Task)
  BY <1>1, <1>2, <1>4
     DEF Eases, SameRequests, IsDormant, ObjectsInv, DormantInv, SleepersInv
<1>6. d2.bpriority = d.bpriority /\ d2.rq.priority = d.rq.priority
  BY <1>2 DEF SameRequests
<1>7. ObjectsInv(d2, Task)
  BY <1>1, <1>2, <1>5, <1>6, ObjectsKept
<1>8. Keeps(d, d2)
  BY <1>2, <1>4 DEF Keeps, IsRunnable, IsDormant
<1>9. QED
  BY <1>2, <1>7, <1>8 DEF DataInv, d2

\* act_tsk.
LEMMA Activate ==
  ASSUME NEW I, NEW C,
         NEW d, DataInv(I, C, d, Task), NEW t \in Task
  PROVE  DataInv(I, C, activate(d, t), Task) /\ Keeps(d, activate(d, t))
<1>1. CASE IsDormant(d, t)
  BY <1>1, MakeActive DEF activate, IsDormant
<1>2. CASE ~IsDormant(d, t)
  <2>1. TRUE \in BOOLEAN
    OBVIOUS
  <2>2. /\ DataInv(I, C, [d EXCEPT !.actque[t] = TRUE], Task)
        /\ Keeps(d, [d EXCEPT !.actque[t] = TRUE])
    BY <1>2, <2>1, SetActque
  <2>3. QED
    BY <1>2, <2>2 DEF activate
<1>3. QED
  BY <1>1, <1>2

\* rsm_tsk.
LEMMA ResumesTask ==
  ASSUME NEW I, NEW C,
         NEW d, DataInv(I, C, d, Task), NEW t \in Task, d.tstat[t] = "WAITING-SUSPENDED"
  PROVE  LET d2 == set_tstat(d, t, "WAITING") IN DataInv(I, C, d2, Task) /\ Keeps(d, d2)
<1> DEFINE d2 == set_tstat(d, t, "WAITING")
<1>1. /\ d \in KernelData(I, C) /\ QueuesInv(d, Task) /\ ObjectsInv(d, Task)
      /\ Task \in SUBSET Task
      /\ IsWaiting(d, t) /\ "WAITING" \in {"WAITING", "WAITING-SUSPENDED"}
  BY DEF DataInv, IsWaiting
<1>2. d2 \in KernelData(I, C) /\ QueuesInv(d2, Task) /\ StateSet(d, d2, t, "WAITING")
  BY <1>1, SuspendWaiting
<1> HIDE DEF d2
<1>3. d.tstat \in [Task -> TStat]
  BY <1>1, DataTypes
<1>4. d2.tstat[t] = "WAITING" /\ \A u \in Task \ {t} : d2.tstat[u] = d.tstat[u]
  BY <1>2, <1>3 DEF StateSet
<1>5. Eases(d, d2, Task)
  BY <1>1, <1>2, <1>4
     DEF Eases, StateSet, SameRequests, IsDormant, ObjectsInv, DormantInv, SleepersInv
<1>6. d2.bpriority = d.bpriority /\ d2.rq.priority = d.rq.priority
  BY <1>2 DEF StateSet, SameRequests
<1>7. ObjectsInv(d2, Task)
  BY <1>1, <1>2, <1>5, <1>6, ObjectsKept DEF StateSet
<1>8. Keeps(d, d2)
  BY <1>2, <1>4 DEF Keeps, StateSet, IsRunnable, IsDormant
<1>9. QED
  BY <1>2, <1>7, <1>8 DEF DataInv, d2

\* sus_tsk of a waiting task.
LEMMA SuspendsWaiting ==
  ASSUME NEW I, NEW C,
         NEW d, DataInv(I, C, d, Task), NEW t \in Task, d.tstat[t] = "WAITING"
  PROVE  LET d2 == set_tstat(d, t, "WAITING-SUSPENDED")
         IN  DataInv(I, C, d2, Task) /\ Keeps(d, d2)
<1> DEFINE d2 == set_tstat(d, t, "WAITING-SUSPENDED")
<1>1. /\ d \in KernelData(I, C) /\ QueuesInv(d, Task) /\ ObjectsInv(d, Task)
      /\ Task \in SUBSET Task
      /\ IsWaiting(d, t) /\ "WAITING-SUSPENDED" \in {"WAITING", "WAITING-SUSPENDED"}
  BY DEF DataInv, IsWaiting
<1>2. d2 \in KernelData(I, C) /\ QueuesInv(d2, Task) /\ StateSet(d, d2, t, "WAITING-SUSPENDED")
  BY <1>1, SuspendWaiting
<1> HIDE DEF d2
<1>3. d.tstat \in [Task -> TStat]
  BY <1>1, DataTypes
<1>4. d2.tstat[t] = "WAITING-SUSPENDED" /\ \A u \in Task \ {t} : d2.tstat[u] = d.tstat[u]
  BY <1>2, <1>3 DEF StateSet
<1>5. Eases(d, d2, Task)
  BY <1>1, <1>2, <1>4
     DEF Eases, StateSet, SameRequests, IsDormant, ObjectsInv, DormantInv, SleepersInv
<1>6. d2.bpriority = d.bpriority /\ d2.rq.priority = d.rq.priority
  BY <1>2 DEF StateSet, SameRequests
<1>7. ObjectsInv(d2, Task)
  BY <1>1, <1>2, <1>5, <1>6, ObjectsKept DEF StateSet
<1>8. Keeps(d, d2)
  BY <1>2, <1>4 DEF Keeps, StateSet, IsRunnable, IsDormant
<1>9. QED
  BY <1>2, <1>7, <1>8 DEF DataInv, d2

\* sus_tsk of a runnable task: no other stops being runnable.
LEMMA SuspendsRunnable ==
  ASSUME NEW I, NEW C,
         NEW d, DataInv(I, C, d, Task), NEW t \in Task, IsRunnable(d, t)
  PROVE  LET d2 == suspend(d, t)
         IN  /\ DataInv(I, C, d2, Task)
             /\ \A u \in Task \ {t} : IsRunnable(d, u) => IsRunnable(d2, u)
<1> DEFINE d2 == suspend(d, t)
<1>1. /\ d \in KernelData(I, C) /\ QueuesInv(d, Task) /\ ObjectsInv(d, Task)
      /\ Task \in SUBSET Task
  BY DEF DataInv
<1>2. /\ d2 \in KernelData(I, C) /\ QueuesInv(d2, Task)
      /\ d2.tstat = [d.tstat EXCEPT ![t] = "SUSPENDED"]
      /\ d2.wobj = d.wobj /\ d2.rq.priority = d.rq.priority
      /\ SameRequests(d2, d) /\ SameObjects(d2, d)
  BY <1>1, SuspendRunnable
<1> HIDE DEF d2
<1>3. d.tstat \in [Task -> TStat]
  BY <1>1, DataTypes
<1>4. d2.tstat[t] = "SUSPENDED" /\ \A u \in Task \ {t} : d2.tstat[u] = d.tstat[u]
  BY <1>2, <1>3
<1>5. Eases(d, d2, Task)
  BY <1>1, <1>2, <1>4
     DEF Eases, SameRequests, IsDormant, ObjectsInv, DormantInv, SleepersInv
<1>6. d2.bpriority = d.bpriority /\ d2.rq.priority = d.rq.priority
  BY <1>2 DEF SameRequests
<1>7. ObjectsInv(d2, Task)
  BY <1>1, <1>2, <1>5, <1>6, ObjectsKept
<1>8. \A u \in Task \ {t} : IsRunnable(d, u) => IsRunnable(d2, u)
  BY <1>4 DEF IsRunnable
<1>9. QED
  BY <1>2, <1>7, <1>8 DEF DataInv, d2

\* rot_rdq.
LEMMA Rotated ==
  ASSUME NEW I, NEW C,
         NEW d, DataInv(I, C, d, Task), NEW pri \in Pri
  PROVE  LET d2 == [d EXCEPT !.rq = rotate_ready_queue(@, pri)]
         IN  DataInv(I, C, d2, Task) /\ Keeps(d, d2)
<1> DEFINE d2 == [d EXCEPT !.rq = rotate_ready_queue(@, pri)]
<1>1. /\ d \in KernelData(I, C) /\ QueuesInv(d, Task) /\ ObjectsInv(d, Task)
      /\ Task \in SUBSET Task
  BY DEF DataInv
<1>2. /\ d2 \in KernelData(I, C) /\ QueuesInv(d2, Task) /\ d2.rq.priority = d.rq.priority
      /\ SameStates(d2, d) /\ SameRequests(d2, d) /\ SameObjects(d2, d)
  BY <1>1, Rotate
<1> HIDE DEF d2
<1>3. Eases(d, d2, Task)
  BY <1>1, <1>2
     DEF Eases, SameStates, SameRequests, IsDormant, ObjectsInv, DormantInv, SleepersInv
<1>4. d2.bpriority = d.bpriority
  BY <1>2 DEF SameRequests
<1>5. ObjectsInv(d2, Task)
  BY <1>1, <1>2, <1>3, <1>4, ObjectsKept
<1>6. Keeps(d, d2)
  BY <1>2 DEF Keeps, SameStates, IsRunnable, IsDormant
<1>7. QED
  BY <1>2, <1>5, <1>6 DEF DataInv, d2

-----------------------------------------------------------------------------
(***************************************************************************)
(* Mutexes.                                                                *)
(***************************************************************************)
\* The objects are correct but for the mutexes in X, which were taken out of
\* their owner's list, and for the priorities of the tasks outside P.
ObjectsBut(d, live, X, P) ==
  /\ UnitsInv(d, live)
  /\ OwnersInv(d, X)
  /\ WaitersInv(d, live)
  /\ CeilingsInv(d, live)
  /\ PrioritiesInv(d, P)
  /\ DormantInv(d)
  /\ SleepersInv(d, live)

\* With nothing left out that is the invariant of the objects.
LEMMA ObjectsButNothing ==
  ASSUME NEW d, NEW L
  PROVE  ObjectsInv(d, L) <=> ObjectsBut(d, L, {}, L)
  BY DEF ObjectsInv, ObjectsBut

\* From d to d2 nothing changes but owners and the lists of mutexes.
OnlyOwners(I, C, d, d2) ==
  /\ d2 \in KernelData(I, C) /\ d2.rq = d.rq /\ SameStates(d2, d) /\ SameRequests(d2, d)
  /\ d2.wait_queue = d.wait_queue /\ d2.semcnt = d.semcnt

\* What that leaves correct.
LEMMA OnlyOwnersKeeps ==
  ASSUME NEW I, NEW C,
         NEW d, NEW d2, NEW L \in SUBSET Task, OnlyOwners(I, C, d, d2), QueuesInv(d, L)
  PROVE  /\ QueuesInv(d2, L) /\ Keeps(d, d2)
         /\ d2.rq = d.rq /\ d2.rq.priority = d.rq.priority /\ d2.bpriority = d.bpriority
         /\ d2.tstat = d.tstat /\ d2.wobj = d.wobj /\ d2.tmevtb = d.tmevtb
         /\ d2.actque = d.actque /\ d2.wupque = d.wupque /\ d2.waifbd = d.waifbd
         /\ UnitsInv(d, L) => UnitsInv(d2, L)
         /\ SleepersInv(d, L) => SleepersInv(d2, L)
<1>1. QueuesInv(d2, L)
  BY QueuesDependOn DEF OnlyOwners
<1>2. QED
  BY <1>1 DEF OnlyOwners, SameStates, SameRequests, Keeps, IsRunnable, IsDormant, UnitsInv,
              SleepersInv

\* The ceilings of the mutexes in a list.
LEMMA ClaimsAre ==
  ASSUME NEW d, NEW t, NEW p
  PROVE  p \in Claims(d, t) <=> \/ p = d.bpriority[t]
                                \/ \E m \in HeldBy(d, t) \cap CeilMtx : p = ceilpri[m]
  BY DEF Claims

\* Base priorities and ceilings are priorities.
LEMMA ClaimsArePri ==
  ASSUME NEW I, NEW C,
         NEW d \in KernelData(I, C), NEW t \in Task
  PROVE  Claims(d, t) \subseteq Pri
<1>1. d.bpriority[t] \in Pri
  BY DataTypes
<1>2. \A m \in CeilMtx : ceilpri[m] \in Pri
  BY CeilingAssumption
<1>3. QED
  BY <1>1, <1>2, ClaimsAre

\* A task that runs goes on to when its priority is raised to newpri.
StaysFirst(d, d2, t, newpri) ==
  newpri < d.rq.priority[t] /\ d.rq.schedtsk = t => d2.rq.schedtsk = t

\* The priority of a task that is not dormant becomes right.
LEMMA PriorityChanged ==
  ASSUME NEW I, NEW C,
         NEW d \in KernelData(I, C), QueuesInv(d, Task), NEW t \in Task, ~IsDormant(d, t),
         NEW X, NEW P, P = Task \ {t}, ObjectsBut(d, Task, X, P),
         NEW newpri, newpri = mutex_calc_priority(d, t), NEW mtxmode \in BOOLEAN
  PROVE  LET d2 == change_priority(d, t, newpri, mtxmode)
         IN  /\ d2 \in KernelData(I, C) /\ QueuesInv(d2, Task) /\ ObjectsBut(d2, Task, X, Task)
             /\ Keeps(d, d2) /\ SameObjects(d2, d)
             /\ mtxmode => StaysFirst(d, d2, t, newpri)
<1> DEFINE d2 == change_priority(d, t, newpri, mtxmode)
<1>1. newpri \in Pri /\ Task \in SUBSET Task
  BY CalcPriority
<1>2. /\ d2 \in KernelData(I, C) /\ QueuesInv(d2, Task)
      /\ d2.rq.priority = [d.rq.priority EXCEPT ![t] = newpri]
      /\ SameStates(d2, d) /\ SameRequests(d2, d) /\ SameObjects(d2, d)
      /\ mtxmode /\ newpri < d.rq.priority[t] /\ d.rq.schedtsk = t
           => d2.rq.schedtsk = t
  BY <1>1, ChangePriority
<1> HIDE DEF d2
<1>3. d.rq.priority \in [Task -> Pri]
  BY DataTypes
<1>4. d2.rq.priority[t] = newpri /\ \A u \in Task \ {t} : d2.rq.priority[u] = d.rq.priority[u]
  BY <1>2, <1>3
<1>5. /\ d2.tstat = d.tstat /\ d2.wobj = d.wobj /\ d2.tmevtb = d.tmevtb
      /\ d2.bpriority = d.bpriority /\ d2.actque = d.actque /\ d2.wupque = d.wupque
      /\ d2.waifbd = d.waifbd
      /\ d2.semcnt = d.semcnt /\ d2.loctsk = d.loctsk /\ d2.mutex_queue = d.mutex_queue
  BY <1>2 DEF SameStates, SameRequests, SameObjects
<1>6. PrioritiesInv(d2, Task)
  <2>1. ASSUME NEW u \in Task PROVE d2.rq.priority[u] = mutex_calc_priority(d2, u)
    <3>1. mutex_calc_priority(d2, u) = mutex_calc_priority(d, u)
      BY <1>5, SamePriority DEF HeldBy
    <3>2. QED
      BY <1>4, <3>1 DEF ObjectsBut, PrioritiesInv
  <2>2. QED
    BY <2>1 DEF PrioritiesInv
<1>7. UnitsInv(d2, Task) /\ OwnersInv(d2, X) /\ WaitersInv(d2, Task) /\ CeilingsInv(d2, Task)
  BY <1>5 DEF ObjectsBut, UnitsInv, OwnersInv, HeldBy, WaitersInv, CeilingsInv
<1>8. DormantInv(d2) /\ SleepersInv(d2, Task)
  BY <1>4, <1>5 DEF ObjectsBut, DormantInv, SleepersInv, IsDormant
<1>9. Keeps(d, d2)
  BY <1>5 DEF Keeps, IsRunnable, IsDormant
<1>10. QED
  BY <1>2, <1>6, <1>7, <1>8, <1>9 DEF d2, ObjectsBut, StaysFirst

\* The priority of a task is right already.
LEMMA PriorityRight ==
  ASSUME NEW d, NEW X, NEW t \in Task, ObjectsBut(d, Task, X, Task \ {t}),
         d.rq.priority[t] = mutex_calc_priority(d, t)
  PROVE  ObjectsBut(d, Task, X, Task)
  BY DEF ObjectsBut, PrioritiesInv

\* mutex_drop_priority is right though it looks at one ceiling only: the
\* priority was the highest of the claims that are left and of that ceiling.
LEMMA DropCeiling ==
  ASSUME NEW I, NEW C,
         NEW d \in KernelData(I, C), QueuesInv(d, Task), NEW X, NEW t \in Task,
         ~IsDormant(d, t),
         ObjectsBut(d, Task, X, Task \ {t}), NEW m \in Mtx,
         NEW claims, claims = IF m \in CeilMtx THEN Claims(d, t) \cup {ceilpri[m]}
                              ELSE Claims(d, t),
         d.rq.priority[t] \in claims, \A c \in claims : d.rq.priority[t] <= c
  PROVE  LET d2 == drop_ceiling(d, t, m)
         IN  /\ d2 \in KernelData(I, C) /\ QueuesInv(d2, Task) /\ ObjectsBut(d2, Task, X, Task)
             /\ Keeps(d, d2) /\ SameObjects(d2, d)
<1> DEFINE newpri == mutex_calc_priority(d, t)
<1>1. /\ newpri \in Claims(d, t)
      /\ \A p \in Claims(d, t) : (\A c \in Claims(d, t) : p <= c) => p = newpri
  BY CalcPriority
<1>2. SameObjects(d, d) /\ Keeps(d, d)
  BY DEF SameObjects, Keeps
<1> HIDE DEF newpri
<1>3. CASE d.rq.priority[t] = newpri
  <2>1. drop_ceiling(d, t, m) = d
    BY <1>3 DEF drop_ceiling, mutex_drop_priority, newpri
  <2>2. ObjectsBut(d, Task, X, Task)
    BY <1>3, PriorityRight DEF newpri
  <2>3. QED
    BY <1>2, <2>1, <2>2
<1>4. CASE d.rq.priority[t] # newpri
  <2>1. m \in CeilMtx /\ d.rq.priority[t] = ceilpri[m]
    BY <1>1, <1>4
  <2>2. drop_ceiling(d, t, m) = change_priority(d, t, newpri, TRUE)
    BY <1>4, <2>1 DEF drop_ceiling, mutex_drop_priority, newpri
  <2>3. newpri = mutex_calc_priority(d, t) /\ TRUE \in BOOLEAN
    BY DEF newpri
  <2>4. LET d2 == change_priority(d, t, newpri, TRUE)
        IN  /\ d2 \in KernelData(I, C) /\ QueuesInv(d2, Task) /\ ObjectsBut(d2, Task, X, Task)
            /\ Keeps(d, d2) /\ SameObjects(d2, d)
    BY <2>3, PriorityChanged
  <2>5. QED
    BY <2>2, <2>4
<1>5. QED
  BY <1>3, <1>4

\* mutex_acquire of a free mutex, whose ceiling respects the task.
LEMMA Acquire ==
  ASSUME NEW I, NEW C,
         NEW d, DataInv(I, C, d, Task), NEW t \in Task, ~IsDormant(d, t), NEW m \in Mtx,
         d.loctsk[m] = NoTask, m \in CeilMtx => ceilpri[m] <= d.bpriority[t]
  PROVE  LET d2 == mutex_acquire(d, t, m)
         IN  /\ DataInv(I, C, d2, Task) /\ Keeps(d, d2)
             /\ d.rq.schedtsk = t => d2.rq.schedtsk = t
<1> DEFINE loctsk2 == [d.loctsk EXCEPT ![m] = t]
           q == d.mutex_queue[t]
           q2 == << m >> \o q
           mutex_queue2 == [d.mutex_queue EXCEPT ![t] = q2]
           d1 == [d EXCEPT !.loctsk = loctsk2, !.mutex_queue = mutex_queue2]
<1>1. /\ d \in KernelData(I, C) /\ QueuesInv(d, Task) /\ ObjectsBut(d, Task, {}, Task)
      /\ Task \in SUBSET Task /\ t # NoTask
  BY ObjectsButNothing, NoTaskAssumption DEF DataInv
<1>2. /\ d.loctsk \in [Mtx -> Task \cup {NoTask}] /\ d.mutex_queue \in [Task -> Seq(Mtx)]
      /\ d.rq.priority \in [Task -> Pri] /\ d.bpriority \in [Task -> Pri]
  BY <1>1, DataTypes
<1>3. /\ \A m2 \in Mtx, u \in Task : m2 \in HeldBy(d, u) <=> d.loctsk[m2] = u
      /\ \A u \in Task : IsInjective(d.mutex_queue[u])
  BY <1>1 DEF ObjectsBut, OwnersInv
<1>4. q \in Seq(Mtx) /\ IsInjective(q) /\ m \notin ToSet(q)
  BY <1>1, <1>2, <1>3 DEF HeldBy
<1> HIDE DEF q
<1>5. q2 \in Seq(Mtx) /\ IsInjective(q2) /\ ToSet(q2) = ToSet(q) \cup {m}
  BY <1>4, QueuePrepend
<1> HIDE DEF q2
<1>6. /\ loctsk2 \in [Mtx -> Task \cup {NoTask}] /\ loctsk2[m] = t
      /\ \A m2 \in Mtx \ {m} : loctsk2[m2] = d.loctsk[m2]
      /\ mutex_queue2 \in [Task -> Seq(Mtx)] /\ mutex_queue2[t] = q2
      /\ \A u \in Task \ {t} : mutex_queue2[u] = d.mutex_queue[u]
  BY <1>2, <1>5
<1> HIDE DEF loctsk2, mutex_queue2
<1>7. OnlyOwners(I, C, d, d1) /\ d1.loctsk = loctsk2 /\ d1.mutex_queue = mutex_queue2
  BY <1>1, <1>6 DEF OnlyOwners, KernelData, SameStates, SameRequests
<1>8. mutex_acquire(d, t, m) = IF m \in CeilMtx THEN mutex_raise_priority(d1, t, ceilpri[m])
                               ELSE d1
  BY DEF mutex_acquire, loctsk2, mutex_queue2, q2, q
<1> HIDE DEF d1
<1>9. /\ QueuesInv(d1, Task) /\ Keeps(d, d1) /\ d1 \in KernelData(I, C)
      /\ d1.rq = d.rq /\ d1.rq.priority = d.rq.priority /\ d1.bpriority = d.bpriority
      /\ d1.tstat = d.tstat /\ d1.wobj = d.wobj
      /\ d1.actque = d.actque /\ d1.wupque = d.wupque /\ d1.waifbd = d.waifbd
      /\ UnitsInv(d1, Task) /\ SleepersInv(d1, Task)
  BY <1>1, <1>7, OnlyOwnersKeeps DEF OnlyOwners, ObjectsBut
<1>10. /\ HeldBy(d1, t) = HeldBy(d, t) \cup {m}
       /\ \A u \in Task \ {t} : HeldBy(d1, u) = HeldBy(d, u)
  BY <1>5, <1>6, <1>7 DEF HeldBy, q
<1>11. ObjectsBut(d1, Task, {}, Task \ {t})
  <2>1. OwnersInv(d1, {})
    <3>1. ASSUME NEW m2 \in Mtx, NEW u \in Task
          PROVE  m2 \in HeldBy(d1, u) <=> d1.loctsk[m2] = u
      <4>1. m2 \in HeldBy(d, u) <=> d.loctsk[m2] = u
        BY <1>3
      <4>2. m2 \in HeldBy(d1, u) <=> m2 \in HeldBy(d, u) \/ (m2 = m /\ u = t)
        BY <1>10
      <4>3. d1.loctsk[m2] = IF m2 = m THEN t ELSE d.loctsk[m2]
        BY <1>6, <1>7
      <4>4. QED
        BY <1>1, <4>1, <4>2, <4>3, NoTaskAssumption
    <3>2. \A u \in Task : IsInjective(d1.mutex_queue[u])
      BY <1>3, <1>5, <1>6, <1>7
    <3>3. QED
      BY <3>1, <3>2 DEF OwnersInv
  <2>2. WaitersInv(d1, Task)
    <3>1. \A u \in Task : d.wobj[u] # m
      BY <1>1 DEF ObjectsBut, WaitersInv
    <3>2. QED
      BY <1>1, <1>6, <1>7, <1>9, <3>1 DEF ObjectsBut, WaitersInv
  <2>3. CeilingsInv(d1, Task)
    BY <1>1, <1>6, <1>7, <1>9, CeilingAssumption DEF ObjectsBut, CeilingsInv
  <2>4. PrioritiesInv(d1, Task \ {t})
    <3>1. ASSUME NEW u \in Task \ {t} PROVE d1.rq.priority[u] = mutex_calc_priority(d1, u)
      <4>1. mutex_calc_priority(d1, u) = mutex_calc_priority(d, u)
        BY <1>9, <1>10, SamePriority
      <4>2. QED
        BY <1>1, <1>9, <4>1 DEF ObjectsBut, PrioritiesInv
    <3>2. QED
      BY <3>1 DEF PrioritiesInv
  <2>5. DormantInv(d1)
    BY <1>1, <1>6, <1>7, <1>9 DEF ObjectsBut, DormantInv, IsDormant
  <2>6. QED
    BY <1>9, <2>1, <2>2, <2>3, <2>4, <2>5 DEF ObjectsBut
<1>12. ~IsDormant(d1, t) /\ d.rq.priority[t] \in Pri
  BY <1>2, <1>9 DEF IsDormant
<1>13. /\ d.rq.priority[t] \in Claims(d, t)
       /\ \A c \in Claims(d, t) : d.rq.priority[t] <= c
  BY <1>1, CalcPriority DEF ObjectsBut, PrioritiesInv
<1>14. Claims(d1, t) = Claims(d, t) \cup {ceilpri[x] : x \in {m} \cap CeilMtx}
  <2>1. ASSUME NEW p
        PROVE  p \in Claims(d1, t) <=>
                 p \in Claims(d, t) \/ \E x \in {m} \cap CeilMtx : p = ceilpri[x]
    BY <1>9, <1>10, ClaimsAre
  <2>2. QED
    BY <2>1
<1>15. CASE m \in CeilMtx /\ ceilpri[m] < d.rq.priority[t]
  <2> DEFINE d2 == change_priority(d1, t, ceilpri[m], TRUE)
  <2>1. mutex_acquire(d, t, m) = d2
    BY <1>8, <1>9, <1>15 DEF mutex_raise_priority
  <2>2. ceilpri[m] = mutex_calc_priority(d1, t)
    <3>1. ceilpri[m] \in Claims(d1, t) /\ Claims(d, t) \subseteq Pri /\ ceilpri[m] \in Pri
      BY <1>1, <1>14, <1>15, ClaimsArePri, CeilingAssumption
    <3>2. \A c \in Claims(d, t) : ceilpri[m] <= c
      BY <1>12, <1>13, <1>15, <3>1 DEF Pri
    <3>3. ceilpri[m] <= ceilpri[m]
      BY <3>1 DEF Pri
    <3>4. \A c \in Claims(d1, t) : ceilpri[m] <= c
      BY <1>14, <1>15, <3>2, <3>3
    <3>5. QED
      BY <1>9, <3>1, <3>4, CalcPriority
  <2>3. TRUE \in BOOLEAN
    OBVIOUS
  <2>4. /\ d2 \in KernelData(I, C) /\ QueuesInv(d2, Task) /\ ObjectsBut(d2, Task, {}, Task)
        /\ Keeps(d1, d2)
        /\ StaysFirst(d1, d2, t, ceilpri[m])
    BY <1>9, <1>11, <1>12, <2>2, <2>3, PriorityChanged
  <2> HIDE DEF d2
  <2>5. d.rq.schedtsk = t => d2.rq.schedtsk = t
    BY <1>9, <1>15, <2>4 DEF StaysFirst
  <2>6. Keeps(d, d2)
    BY <1>9, <2>4 DEF Keeps
  <2>7. QED
    BY <2>1, <2>4, <2>5, <2>6, ObjectsButNothing DEF DataInv
<1>16. CASE ~(m \in CeilMtx /\ ceilpri[m] < d.rq.priority[t])
  <2>1. mutex_acquire(d, t, m) = d1
    BY <1>8, <1>9, <1>16 DEF mutex_raise_priority
  <2>2. d1.rq.priority[t] = mutex_calc_priority(d1, t)
    <3>1. d.rq.priority[t] \in Claims(d1, t)
      BY <1>13, <1>14
    <3>2. \A x \in {m} \cap CeilMtx : d.rq.priority[t] <= ceilpri[x]
      BY <1>12, <1>16, CeilingAssumption DEF Pri
    <3>3. \A c \in Claims(d1, t) : d.rq.priority[t] <= c
      BY <1>13, <1>14, <3>2
    <3>4. QED
      BY <1>9, <3>1, <3>3, CalcPriority
  <2>3. ObjectsBut(d1, Task, {}, Task)
    BY <1>11, <2>2, PriorityRight
  <2>4. QED
    BY <1>9, <2>1, <2>3, ObjectsButNothing DEF DataInv
<1>17. QED
  BY <1>15, <1>16

\* What has become of the data when the mutex m has left the list of t.
Unlinked(I, C, d, d2, L, m, t) ==
  /\ OnlyOwners(I, C, d, d2) /\ d2.loctsk = d.loctsk
  /\ HeldBy(d2, t) = HeldBy(d, t) \ {m}
  /\ \A u \in Task \ {t} : HeldBy(d2, u) = HeldBy(d, u)
  /\ ObjectsBut(d2, L, {m}, L \ {t})

\* A mutex leaves the list of its owner.
LEMMA Unlink ==
  ASSUME NEW I, NEW C,
         NEW d, NEW L \in SUBSET Task, DataInv(I, C, d, L), NEW m \in Mtx, NEW t \in Task,
         d.loctsk[m] = t
  PROVE  Unlinked(I, C, d, unlink(d, m), L, m, t)
<1> DEFINE q == d.mutex_queue[t]
           q2 == queue_delete(q, m)
           mutex_queue2 == [d.mutex_queue EXCEPT ![t] = q2]
           d2 == [d EXCEPT !.mutex_queue = mutex_queue2]
<1>1. d \in KernelData(I, C) /\ QueuesInv(d, L) /\ ObjectsBut(d, L, {}, L) /\ t # NoTask
  BY ObjectsButNothing, NoTaskAssumption DEF DataInv
<1>2. d.mutex_queue \in [Task -> Seq(Mtx)]
  BY <1>1, DataTypes
<1>3. /\ \A m2 \in Mtx, u \in Task : m2 \in HeldBy(d, u) <=> d.loctsk[m2] = u
      /\ \A u \in Task : IsInjective(d.mutex_queue[u])
  BY <1>1 DEF ObjectsBut, OwnersInv
<1>4. q \in Seq(Mtx) /\ IsInjective(q) /\ m \in ToSet(q)
  BY <1>2, <1>3 DEF HeldBy
<1> HIDE DEF q
<1>5. q2 \in Seq(Mtx) /\ IsInjective(q2) /\ ToSet(q2) = ToSet(q) \ {m}
  BY <1>4, QueueDelete
<1> HIDE DEF q2
<1>6. /\ mutex_queue2 \in [Task -> Seq(Mtx)] /\ mutex_queue2[t] = q2
      /\ \A u \in Task \ {t} : mutex_queue2[u] = d.mutex_queue[u]
  BY <1>2, <1>5
<1> HIDE DEF mutex_queue2
<1>7. OnlyOwners(I, C, d, d2) /\ d2.loctsk = d.loctsk /\ d2.mutex_queue = mutex_queue2
  BY <1>1, <1>6 DEF OnlyOwners, KernelData, SameStates, SameRequests
<1>8. unlink(d, m) = d2
  BY DEF unlink, mutex_queue2, q2, q
<1> HIDE DEF d2
<1>9. /\ d2.rq = d.rq /\ d2.rq.priority = d.rq.priority /\ d2.bpriority = d.bpriority
      /\ d2.tstat = d.tstat /\ d2.wobj = d.wobj
      /\ d2.actque = d.actque /\ d2.wupque = d.wupque /\ d2.waifbd = d.waifbd
      /\ UnitsInv(d2, L) /\ SleepersInv(d2, L)
  BY <1>1, <1>7, OnlyOwnersKeeps DEF ObjectsBut
<1>10. /\ HeldBy(d2, t) = HeldBy(d, t) \ {m}
       /\ \A u \in Task \ {t} : HeldBy(d2, u) = HeldBy(d, u)
  BY <1>5, <1>6, <1>7 DEF HeldBy, q
<1>11. OwnersInv(d2, {m})
  <2>1. \A m2 \in Mtx, u \in Task : m2 \in HeldBy(d2, u) <=> d2.loctsk[m2] = u /\ m2 \notin {m}
    BY <1>1, <1>3, <1>7, <1>10
  <2>2. \A u \in Task : IsInjective(d2.mutex_queue[u])
    BY <1>3, <1>5, <1>6, <1>7
  <2>3. QED
    BY <2>1, <2>2 DEF OwnersInv
<1>12. WaitersInv(d2, L) /\ CeilingsInv(d2, L) /\ DormantInv(d2)
  BY <1>1, <1>7, <1>9 DEF ObjectsBut, WaitersInv, CeilingsInv, DormantInv, IsDormant
<1>13. PrioritiesInv(d2, L \ {t})
  <2>1. ASSUME NEW u \in L \ {t} PROVE d2.rq.priority[u] = mutex_calc_priority(d2, u)
    <3>1. mutex_calc_priority(d2, u) = mutex_calc_priority(d, u)
      BY <1>9, <1>10, SamePriority
    <3>2. QED
      BY <1>1, <1>9, <3>1 DEF ObjectsBut, PrioritiesInv
  <2>2. QED
    BY <2>1 DEF PrioritiesInv
<1>14. QED
  BY <1>7, <1>8, <1>9, <1>10, <1>11, <1>12, <1>13 DEF ObjectsBut, Unlinked

\* mutex_release of a mutex that nobody waits for.
set_free(d, m) == [d EXCEPT !.loctsk[m] = NoTask]

NoWaiter(d, m) == d.wait_queue[m] = << >>

\* The mutex has no owner then, as its absence from all lists says.
LEMMA ReleaseFree ==
  ASSUME NEW I, NEW C,
         NEW d \in KernelData(I, C), NEW L \in SUBSET Task, QueuesInv(d, L),
         NEW m \in Mtx, NEW P, ObjectsBut(d, L, {m}, P), NoWaiter(d, m)
  PROVE  LET d2 == set_free(d, m)
         IN  /\ d2 \in KernelData(I, C) /\ QueuesInv(d2, L) /\ ObjectsBut(d2, L, {}, P)
             /\ Keeps(d, d2)
             /\ d2.rq = d.rq /\ d2.bpriority = d.bpriority /\ d2.tstat = d.tstat
             /\ d2.mutex_queue = d.mutex_queue
<1> DEFINE loctsk2 == [d.loctsk EXCEPT ![m] = NoTask]
           d2 == [d EXCEPT !.loctsk = loctsk2]
<1>1. d.loctsk \in [Mtx -> Task \cup {NoTask}]
  BY DataTypes
<1>2. /\ loctsk2 \in [Mtx -> Task \cup {NoTask}] /\ loctsk2[m] = NoTask
      /\ \A m2 \in Mtx \ {m} : loctsk2[m2] = d.loctsk[m2]
  BY <1>1
<1> HIDE DEF loctsk2
<1>3. OnlyOwners(I, C, d, d2) /\ d2.loctsk = loctsk2 /\ d2.mutex_queue = d.mutex_queue
  BY <1>2 DEF OnlyOwners, KernelData, SameStates, SameRequests
<1>4. d2 = set_free(d, m)
  BY DEF loctsk2, set_free
<1> HIDE DEF d2
<1>5. /\ QueuesInv(d2, L) /\ Keeps(d, d2) /\ d2 \in KernelData(I, C)
      /\ d2.rq = d.rq /\ d2.rq.priority = d.rq.priority /\ d2.bpriority = d.bpriority
      /\ d2.tstat = d.tstat /\ d2.wobj = d.wobj
      /\ d2.actque = d.actque /\ d2.wupque = d.wupque /\ d2.waifbd = d.waifbd
      /\ UnitsInv(d2, L) /\ SleepersInv(d2, L)
  BY <1>3, OnlyOwnersKeeps DEF OnlyOwners, ObjectsBut
<1>6. \A u \in L : d.wobj[u] # m
  <2>1. ToSet(d.wait_queue[m]) = {}
    BY DEF ToSet, NoWaiter
  <2>2. QED
    BY ZenonT(60), <2>1, QueuesAre, ObjNames DEF QueuesOf
<1>7. OwnersInv(d2, {})
  <2>1. ASSUME NEW m2 \in Mtx, NEW u \in Task
        PROVE  m2 \in HeldBy(d2, u) <=> d2.loctsk[m2] = u
    <3>1. m2 \in HeldBy(d2, u) <=> d.loctsk[m2] = u /\ m2 # m
      BY <1>3 DEF ObjectsBut, OwnersInv, HeldBy
    <3>2. d2.loctsk[m2] = IF m2 = m THEN NoTask ELSE d.loctsk[m2]
      BY <1>2, <1>3
    <3>3. QED
      BY <3>1, <3>2, NoTaskAssumption
  <2>2. QED
    BY <1>3, <2>1 DEF ObjectsBut, OwnersInv
<1>8. WaitersInv(d2, L)
  BY <1>2, <1>3, <1>5, <1>6 DEF ObjectsBut, WaitersInv
<1>9. CeilingsInv(d2, L)
  BY <1>2, <1>3, <1>5, NoTaskAssumption, CeilingAssumption DEF ObjectsBut, CeilingsInv
<1>10. PrioritiesInv(d2, P)
  <2>1. ASSUME NEW u \in P PROVE d2.rq.priority[u] = mutex_calc_priority(d2, u)
    <3>1. mutex_calc_priority(d2, u) = mutex_calc_priority(d, u)
      BY <1>3, <1>5, SamePriority DEF HeldBy
    <3>2. QED
      BY <1>5, <3>1 DEF ObjectsBut, PrioritiesInv
  <2>2. QED
    BY <2>1 DEF PrioritiesInv
<1>11. DormantInv(d2)
  BY <1>2, <1>3, <1>5, NoTaskAssumption DEF ObjectsBut, DormantInv, IsDormant
<1>12. QED
  BY <1>3, <1>4, <1>5, <1>7, <1>8, <1>9, <1>10, <1>11 DEF ObjectsBut

\* From d to d2 the waiting task w became the owner of m, with its ceiling.
HandedOver(d, d2, w, m) ==
  /\ d2.loctsk = [d.loctsk EXCEPT ![m] = w]
  /\ d2.mutex_queue = [d.mutex_queue EXCEPT ![w] = Append(@, m)]
  /\ d2.rq.priority = [d.rq.priority EXCEPT ![w] =
                         IF m \in CeilMtx /\ ceilpri[m] < @ THEN ceilpri[m] ELSE @]
  /\ d2.wobj = [d.wobj EXCEPT ![w] = NoObj]
  /\ d2.tstat = [d.tstat EXCEPT ![w] = AfterWait(d, w)]
  /\ d2.tmevtb = [d.tmevtb EXCEPT ![w] = FALSE]
  /\ d2.wait_queue = [d.wait_queue EXCEPT ![m] = Tail(@)]
  /\ SameRequests(d2, d) /\ d2.semcnt = d.semcnt

\* The first waiter leaves its queue, becomes the owner and ends its wait.
LEMMA HandOver ==
  ASSUME NEW I, NEW C,
         NEW d \in KernelData(I, C), NEW L \in SUBSET Task, QueuesInv(d, L),
         NEW m \in Mtx, d.wait_queue[m] # << >>
  PROVE  LET w  == Head(d.wait_queue[m])
             d2 == mutex_release(d, m)
         IN  /\ w \in L /\ IsWaiting(d, w) /\ d.wobj[w] = m
             /\ d2 \in KernelData(I, C) /\ QueuesInv(d2, L) /\ HandedOver(d, d2, w, m)
<1> DEFINE w == Head(d.wait_queue[m])
           d1 == wait_dequeue_wobj(d, w)
           M == L \ {w}
           p == IF m \in CeilMtx /\ ceilpri[m] < d.rq.priority[w] THEN ceilpri[m]
                ELSE d.rq.priority[w]
           q2 == Append(d.mutex_queue[w], m)
           loctsk2 == [d.loctsk EXCEPT ![m] = w]
           mutex_queue2 == [d.mutex_queue EXCEPT ![w] = q2]
           d2 == [d1 EXCEPT !.loctsk = loctsk2, !.mutex_queue = mutex_queue2]
           d3 == [d2 EXCEPT !.rq.priority[w] = p]
           d4 == end_wait(d3, w, "E_OK")
<1>1. m \in Obj /\ "E_OK" \in ErCd
  BY ObjNames DEF ErCd
<1>2. /\ w \in L /\ IsWaiting(d, w) /\ d.wobj[w] = m
      /\ queue_delete_next(d, m) = d1
  BY <1>1, DequeueNext
<1>0. d1.wait_queue = [d.wait_queue EXCEPT ![m] = Tail(@)]
  BY <1>2 DEF queue_delete_next, KernelData
<1>3. /\ w \in Task /\ w \notin M /\ M \in SUBSET Task /\ M \cup {w} = L
  BY <1>2
<1> HIDE DEF w, M
<1>4. /\ d1 \in KernelData(I, C) /\ QueuesInv(d1, L \ {w}) /\ d1.rq = d.rq /\ SameStates(d1, d)
      /\ SameRequests(d1, d) /\ SameObjects(d1, d)
  BY <1>2, Dequeue
<1> HIDE DEF d1
<1>5. /\ d.loctsk \in [Mtx -> Task \cup {NoTask}] /\ d.mutex_queue \in [Task -> Seq(Mtx)]
      /\ d.rq.priority \in [Task -> Pri] /\ d.mutex_queue[w] \in Seq(Mtx)
  BY <1>3, DataTypes
<1>6. p \in Pri
  BY <1>3, <1>5, CeilingAssumption
<1>7. q2 \in Seq(Mtx)
  BY <1>5
<1> HIDE DEF q2, p
<1>8. loctsk2 \in [Mtx -> Task \cup {NoTask}] /\ mutex_queue2 \in [Task -> Seq(Mtx)]
  BY <1>3, <1>5, <1>7
<1> HIDE DEF loctsk2, mutex_queue2
<1>9. /\ OnlyOwners(I, C, d1, d2) /\ d2.loctsk = loctsk2 /\ d2.mutex_queue = mutex_queue2
  BY <1>4, <1>8 DEF OnlyOwners, KernelData, SameStates, SameRequests
<1> HIDE DEF d2
<1>10. d2 \in KernelData(I, C) /\ QueuesInv(d2, M) /\ d2.rq = d1.rq
  <2>1. QueuesInv(d1, M)
    BY <1>4 DEF M
  <2>2. QED
    BY <1>3, <1>9, <2>1, OnlyOwnersKeeps DEF OnlyOwners
<1>11. /\ d3 \in KernelData(I, C) /\ QueuesInv(d3, M)
       /\ d3.rq.priority = [d2.rq.priority EXCEPT ![w] = p]
       /\ SameStates(d3, d2) /\ SameRequests(d3, d2) /\ SameObjects(d3, d2)
       /\ d3.wait_queue = d2.wait_queue
  BY <1>3, <1>6, <1>10, SetPriority
<1> HIDE DEF d3
<1>12. d4 \in KernelData(I, C) /\ QueuesInv(d4, M \cup {w}) /\ WaitEnded(d3, d4, w, "E_OK")
  BY <1>1, <1>3, <1>11, EndWait
<1>13. mutex_release(d, m) = d4
  <2>1. d3 = [d1 EXCEPT !.loctsk[m] = w, !.mutex_queue[w] = Append(@, m),
                        !.rq.priority[w] = IF m \in CeilMtx /\ ceilpri[m] < @
                                           THEN ceilpri[m] ELSE @]
    <3>1. /\ d1.loctsk = d.loctsk /\ d1.mutex_queue = d.mutex_queue
          /\ d1.rq.priority = d.rq.priority
      BY <1>4 DEF SameObjects
    <3>2. loctsk2 = [d1.loctsk EXCEPT ![m] = w]
      BY <3>1 DEF loctsk2
    <3>3. mutex_queue2 = [d1.mutex_queue EXCEPT ![w] = Append(@, m)]
      BY <3>1 DEF mutex_queue2, q2
    <3>4. p = IF m \in CeilMtx /\ ceilpri[m] < d1.rq.priority[w] THEN ceilpri[m]
              ELSE d1.rq.priority[w]
      BY <3>1 DEF p
    <3>5. d3 = [d1 EXCEPT !.loctsk = loctsk2, !.mutex_queue = mutex_queue2,
                          !.rq.priority[w] = p]
      BY <1>10 DEF d3, d2
    <3>6. QED
      BY <3>2, <3>3, <3>4, <3>5
  <2>2. QED
    BY <1>2, <2>1 DEF mutex_release, wait_complete, w
<1> HIDE DEF d4
<1>14. HandedOver(d, d4, w, m)
  <2>1. d4.loctsk = [d.loctsk EXCEPT ![m] = w] /\ d4.semcnt = d.semcnt
    BY <1>4, <1>9, <1>11, <1>12 DEF SameObjects, WaitEnded, OnlyOwners, loctsk2
  <2>2. d4.mutex_queue = [d.mutex_queue EXCEPT ![w] = Append(@, m)]
    BY <1>9, <1>11, <1>12 DEF SameObjects, WaitEnded, mutex_queue2, q2
  <2>3. d4.rq.priority = [d.rq.priority EXCEPT ![w] =
                            IF m \in CeilMtx /\ ceilpri[m] < @ THEN ceilpri[m] ELSE @]
    BY <1>4, <1>10, <1>11, <1>12 DEF WaitEnded, p
  <2>4. d3.tstat = d.tstat /\ d3.wobj = d.wobj /\ d3.tmevtb = d.tmevtb
    BY <1>4, <1>9, <1>11 DEF SameStates, OnlyOwners
  <2>5. AfterWait(d3, w) = AfterWait(d, w)
    BY <2>4 DEF AfterWait, IsSuspended
  <2>6. SameRequests(d4, d)
    BY <1>4, <1>9, <1>11, <1>12 DEF SameRequests, WaitEnded, OnlyOwners
  <2>7. d4.wait_queue = [d.wait_queue EXCEPT ![m] = Tail(@)]
    BY <1>0, <1>9, <1>11, <1>12 DEF OnlyOwners, WaitEnded
  <2>8. QED
    BY <1>12, <2>1, <2>2, <2>3, <2>4, <2>5, <2>6, <2>7 DEF WaitEnded, HandedOver
<1>15. QED
  BY <1>2, <1>3, <1>12, <1>13, <1>14 DEF w

\* mutex_release of a mutex that is in no list: free, or handed over.
LEMMA MutexReleased ==
  ASSUME NEW I, NEW C,
         NoInfo \in I, NEW d \in KernelData(I, C), NEW L \in SUBSET Task, QueuesInv(d, L),
         NEW m \in Mtx, ObjectsBut(d, L, {m}, L)
  PROVE  LET d2 == mutex_release(d, m)
         IN  DataInv(I, C, d2, L) /\ Keeps(d, d2)
<1>1. CASE d.wait_queue[m] = << >>
  <2>1. mutex_release(d, m) = set_free(d, m)
    BY <1>1 DEF mutex_release, set_free
  <2>2. QED
    BY <1>1, <2>1, ReleaseFree, ObjectsButNothing DEF DataInv, NoWaiter
<1>2. CASE d.wait_queue[m] # << >>
  <2> DEFINE w  == Head(d.wait_queue[m])
             d2 == mutex_release(d, m)
             q2 == Append(d.mutex_queue[w], m)
             p  == IF m \in CeilMtx /\ ceilpri[m] < d.rq.priority[w] THEN ceilpri[m]
                   ELSE d.rq.priority[w]
  <2>1. /\ w \in L /\ IsWaiting(d, w) /\ d.wobj[w] = m
        /\ d2 \in KernelData(I, C) /\ QueuesInv(d2, L) /\ HandedOver(d, d2, w, m)
    BY <1>2, HandOver
  <2> HIDE DEF w, d2
  <2>2. w \in Task /\ w # NoTask
    BY <2>1, NoTaskAssumption
  <2>3. /\ d.loctsk \in [Mtx -> Task \cup {NoTask}] /\ d.mutex_queue \in [Task -> Seq(Mtx)]
        /\ d.rq.priority \in [Task -> Pri] /\ d.bpriority \in [Task -> Pri]
        /\ d.wobj \in [Task -> WaitKind] /\ d.tstat \in [Task -> TStat]
        /\ d.tmevtb \in [Task -> BOOLEAN] /\ d.mutex_queue[w] \in Seq(Mtx)
    BY <2>2, DataTypes
  <2>4. AfterWait(d, w) \in {"SUSPENDED", "RUNNABLE"}
    BY DEF AfterWait
  <2>5. /\ d2.loctsk[m] = w /\ \A x \in Mtx \ {m} : d2.loctsk[x] = d.loctsk[x]
        /\ d2.mutex_queue[w] = q2 /\ \A u \in Task \ {w} : d2.mutex_queue[u] = d.mutex_queue[u]
        /\ d2.rq.priority[w] = p
        /\ \A u \in Task \ {w} : d2.rq.priority[u] = d.rq.priority[u]
    BY <2>1, <2>2, <2>3 DEF HandedOver
  <2>6. /\ d2.wobj[w] = NoObj /\ \A u \in Task \ {w} : d2.wobj[u] = d.wobj[u]
        /\ d2.tstat[w] \in {"SUSPENDED", "RUNNABLE"}
        /\ \A u \in Task \ {w} : d2.tstat[u] = d.tstat[u]
        /\ d2.tmevtb[w] = FALSE /\ \A u \in Task \ {w} : d2.tmevtb[u] = d.tmevtb[u]
    BY <2>1, <2>2, <2>3, <2>4 DEF HandedOver
  <2>7. /\ d2.semcnt = d.semcnt /\ d2.bpriority = d.bpriority /\ d2.actque = d.actque
        /\ d2.wupque = d.wupque /\ d2.waifbd = d.waifbd
    BY <2>1 DEF HandedOver, SameRequests
  <2>8. /\ \A x \in Mtx, u \in Task : x \in HeldBy(d, u) <=> d.loctsk[x] = u /\ x # m
        /\ \A u \in Task : IsInjective(d.mutex_queue[u])
    BY DEF ObjectsBut, OwnersInv
  <2>9. q2 \in Seq(Mtx) /\ IsInjective(q2) /\ ToSet(q2) = HeldBy(d, w) \cup {m}
    <3>1. m \notin ToSet(d.mutex_queue[w]) /\ IsInjective(d.mutex_queue[w])
      BY <2>2, <2>8 DEF HeldBy
    <3>2. QED
      BY <2>3, <3>1, QueueAppend DEF HeldBy
  <2> HIDE DEF q2
  <2>10. /\ HeldBy(d2, w) = HeldBy(d, w) \cup {m}
         /\ \A u \in Task \ {w} : HeldBy(d2, u) = HeldBy(d, u)
    BY <2>2, <2>5, <2>9 DEF HeldBy
  <2>11. Keeps(d, d2)
    BY <2>1, <2>6 DEF Keeps, IsRunnable, IsDormant, IsWaiting
  <2>12. UnitsInv(d2, L)
    BY <2>6, <2>7, ObjNames DEF ObjectsBut, UnitsInv
  <2>13. OwnersInv(d2, {})
    <3>1. ASSUME NEW x \in Mtx, NEW u \in Task
          PROVE  x \in HeldBy(d2, u) <=> d2.loctsk[x] = u
      <4>1. x \in HeldBy(d, u) <=> d.loctsk[x] = u /\ x # m
        BY <2>8
      <4>2. x \in HeldBy(d2, u) <=> x \in HeldBy(d, u) \/ (x = m /\ u = w)
        BY <2>10
      <4>3. d2.loctsk[x] = IF x = m THEN w ELSE d.loctsk[x]
        BY <2>5
      <4>4. QED
        BY <4>1, <4>2, <4>3
    <3>2. \A u \in Task : IsInjective(d2.mutex_queue[u])
      BY <2>5, <2>8, <2>9
    <3>3. QED
      BY <3>1, <3>2 DEF OwnersInv
  <2>14. WaitersInv(d2, L)
    BY <2>2, <2>5, <2>6, ObjNames DEF ObjectsBut, WaitersInv
  <2>15. CeilingsInv(d2, L)
    <3>1. ASSUME NEW x \in CeilMtx, NEW u \in L, d2.loctsk[x] = u \/ d2.wobj[u] = x
          PROVE  ceilpri[x] <= d2.bpriority[u]
      <4>1. x \in Mtx /\ x # NoObj
        BY CeilingAssumption, ObjNames
      <4>2. d.loctsk[x] = u \/ d.wobj[u] = x
        BY <2>1, <2>2, <2>5, <2>6, <3>1, <4>1
      <4>3. QED
        BY <2>7, <4>2 DEF ObjectsBut, CeilingsInv
    <3>2. QED
      BY <3>1 DEF CeilingsInv
  <2>16. PrioritiesInv(d2, L)
    <3>1. ASSUME NEW u \in L, u # w PROVE d2.rq.priority[u] = mutex_calc_priority(d2, u)
      <4>1. mutex_calc_priority(d2, u) = mutex_calc_priority(d, u)
        BY <2>7, <2>10, <3>1, SamePriority
      <4>2. QED
        BY <2>5, <3>1, <4>1 DEF ObjectsBut, PrioritiesInv
    <3>2. d2.rq.priority[w] = mutex_calc_priority(d2, w)
      <4>1. /\ d.rq.priority[w] \in Claims(d, w)
            /\ \A c \in Claims(d, w) : d.rq.priority[w] <= c
            /\ d.rq.priority[w] \in Pri /\ Claims(d, w) \subseteq Pri
        BY <2>1, <2>2, <2>3, CalcPriority, ClaimsArePri DEF ObjectsBut, PrioritiesInv
      <4>2. Claims(d2, w) = Claims(d, w) \cup {ceilpri[x] : x \in {m} \cap CeilMtx}
        <5>1. ASSUME NEW c
              PROVE  c \in Claims(d2, w) <=>
                       c \in Claims(d, w) \/ \E x \in {m} \cap CeilMtx : c = ceilpri[x]
          BY <2>7, <2>10, ClaimsAre
        <5>2. QED
          BY <5>1
      <4>3. \A x \in {m} \cap CeilMtx : ceilpri[x] \in Pri
        BY CeilingAssumption
      <4>4. p \in Claims(d2, w)
        BY <4>1, <4>2
      <4>5. p \in Pri /\ p <= d.rq.priority[w] /\ \A x \in {m} \cap CeilMtx : p <= ceilpri[x]
        BY <4>1, <4>3 DEF Pri
      <4>6. \A c \in Claims(d, w) : p <= c
        BY <4>1, <4>5 DEF Pri
      <4>7. \A c \in Claims(d2, w) : p <= c
        BY <4>2, <4>5, <4>6
      <4> HIDE DEF p
      <4>8. QED
        BY <2>1, <2>2, <2>5, <4>4, <4>7, CalcPriority
    <3>3. QED
      BY <3>1, <3>2 DEF PrioritiesInv
  <2>17. DormantInv(d2)
    <3>1. ASSUME NEW u \in Task, IsDormant(d2, u) PROVE u # w /\ IsDormant(d, u)
      BY <2>6, <3>1 DEF IsDormant
    <3>2. ASSUME NEW u \in Task, IsDormant(d2, u), NEW x \in Mtx PROVE d2.loctsk[x] # u
      BY <2>5, <3>1, <3>2 DEF ObjectsBut, DormantInv
    <3>3. QED
      BY <2>5, <2>7, <3>1, <3>2 DEF ObjectsBut, DormantInv
  <2>18. SleepersInv(d2, L)
    BY <2>6, <2>7, ObjNames DEF ObjectsBut, SleepersInv
  <2>19. QED
    BY <2>1, <2>11, <2>12, <2>13, <2>14, <2>15, <2>16, <2>17, <2>18
       DEF DataInv, ObjectsInv, d2
<1>3. QED
  BY <1>1, <1>2

\* The task that gave a mutex up gets the priority that it has without it.
LEMMA Drops ==
  ASSUME NEW I, NEW C,
         NEW d, DataInv(I, C, d, Task), NEW m \in Mtx, NEW t \in Task, d.loctsk[m] = t,
         NEW d1 \in KernelData(I, C), QueuesInv(d1, Task), NEW X,
         ObjectsBut(d1, Task, X, Task \ {t}),
         d1.rq.priority = d.rq.priority, d1.bpriority = d.bpriority, d1.tstat = d.tstat,
         HeldBy(d1, t) = HeldBy(d, t) \ {m}
  PROVE  LET d2 == drop_ceiling(d1, t, m)
         IN  /\ d2 \in KernelData(I, C) /\ QueuesInv(d2, Task) /\ ObjectsBut(d2, Task, X, Task)
             /\ Keeps(d1, d2)
<1> DEFINE claims == IF m \in CeilMtx THEN Claims(d1, t) \cup {ceilpri[m]} ELSE Claims(d1, t)
<1>1. /\ d \in KernelData(I, C) /\ ~IsDormant(d, t) /\ m \in HeldBy(d, t)
      /\ d.rq.priority[t] = mutex_calc_priority(d, t)
  BY DEF DataInv, ObjectsInv, DormantInv, OwnersInv, PrioritiesInv
<1>2. d.rq.priority[t] \in Claims(d, t) /\ \A c \in Claims(d, t) : d.rq.priority[t] <= c
  BY <1>1, CalcPriority
<1>3. claims = Claims(d, t)
  <2>1. ASSUME NEW p
        PROVE  p \in Claims(d, t) <=>
                 p \in Claims(d1, t) \/ \E x \in {m} \cap CeilMtx : p = ceilpri[x]
    BY <1>1, ClaimsAre
  <2>2. QED
    BY <2>1
<1>4. ~IsDormant(d1, t)
  BY <1>1 DEF IsDormant
<1>5. d1.rq.priority[t] \in claims /\ \A c \in claims : d1.rq.priority[t] <= c
  BY <1>2, <1>3
<1>6. claims = IF m \in CeilMtx THEN Claims(d1, t) \cup {ceilpri[m]} ELSE Claims(d1, t)
  OBVIOUS
<1> HIDE DEF claims
<1>7. QED
  BY <1>4, <1>5, <1>6, DropCeiling

\* unl_mtx: the mutex leaves the list, the priority drops, the mutex is released.
LEMMA Unlock ==
  ASSUME NEW I, NEW C,
         NEW d, DataInv(I, C, d, Task), NEW m \in Mtx, NEW t \in Task, d.loctsk[m] = t
  PROVE  LET dropped == drop_ceiling(unlink(d, m), t, m)
             d2 == mutex_release(dropped, m)
         IN  /\ DataInv(I, C, d2, Task) /\ Keeps(d, d2)
             /\ dropped.rq.schedtsk \in Task \cup {NoTask}
<1> DEFINE d1 == unlink(d, m)
           dropped == drop_ceiling(d1, t, m)
           d2 == mutex_release(dropped, m)
<1>1. /\ d \in KernelData(I, C) /\ QueuesInv(d, Task) /\ Task \in SUBSET Task
      /\ NoInfo \in I /\ DataInv(I, C, d, Task)
  BY DEF DataInv
<1>2. /\ OnlyOwners(I, C, d, d1) /\ HeldBy(d1, t) = HeldBy(d, t) \ {m}
      /\ ObjectsBut(d1, Task, {m}, Task \ {t})
  <2>1. Unlinked(I, C, d, d1, Task, m, t)
    BY <1>1, Unlink
  <2>2. QED
    BY <2>1 DEF Unlinked
<1> HIDE DEF d1
<1>3. /\ d1 \in KernelData(I, C) /\ QueuesInv(d1, Task) /\ Keeps(d, d1)
      /\ d1.rq.priority = d.rq.priority /\ d1.bpriority = d.bpriority /\ d1.tstat = d.tstat
  BY <1>1, <1>2, OnlyOwnersKeeps DEF OnlyOwners
<1>4. /\ dropped \in KernelData(I, C) /\ QueuesInv(dropped, Task)
      /\ ObjectsBut(dropped, Task, {m}, Task)
      /\ Keeps(d1, dropped)
  BY <1>2, <1>3, Drops
<1> HIDE DEF dropped
<1>5. DataInv(I, C, d2, Task) /\ Keeps(dropped, d2)
  BY <1>1, <1>4, MutexReleased
<1> HIDE DEF d2
<1>6. Keeps(d, d2)
  BY <1>3, <1>4, <1>5 DEF Keeps
<1>7. dropped.rq.schedtsk \in Task \cup {NoTask}
  BY <1>4, DataTypes DEF ReadyQueueType
<1>8. QED
  BY <1>5, <1>6, <1>7 DEF d2, dropped, d1

\* The end of ini_mtx: the owner loses the mutex.
LEMMA IniMtxEnd ==
  ASSUME NEW I, NEW C,
         NEW d, DataInv(I, C, d, Task), NEW m \in Mtx, NEW t \in Task, d.loctsk[m] = t,
         NoWaiter(d, m)
  PROVE  LET d2 == drop_ceiling(set_free(unlink(d, m), m), t, m)
         IN  DataInv(I, C, d2, Task) /\ Keeps(d, d2)
<1> DEFINE d0 == unlink(d, m)
           d1 == set_free(d0, m)
           d2 == drop_ceiling(d1, t, m)
<1>1. /\ d \in KernelData(I, C) /\ QueuesInv(d, Task) /\ Task \in SUBSET Task
      /\ NoInfo \in I /\ DataInv(I, C, d, Task)
  BY DEF DataInv
<1>2. /\ OnlyOwners(I, C, d, d0) /\ HeldBy(d0, t) = HeldBy(d, t) \ {m}
      /\ ObjectsBut(d0, Task, {m}, Task \ {t})
  BY <1>1, Unlink DEF Unlinked
<1> HIDE DEF d0
<1>3. /\ d0 \in KernelData(I, C) /\ QueuesInv(d0, Task) /\ Keeps(d, d0) /\ NoWaiter(d0, m)
      /\ d0.rq.priority = d.rq.priority /\ d0.bpriority = d.bpriority /\ d0.tstat = d.tstat
  BY <1>1, <1>2, OnlyOwnersKeeps DEF OnlyOwners, NoWaiter
<1>4. /\ d1 \in KernelData(I, C) /\ QueuesInv(d1, Task)
      /\ ObjectsBut(d1, Task, {}, Task \ {t}) /\ Keeps(d0, d1)
      /\ d1.rq = d0.rq /\ d1.bpriority = d0.bpriority /\ d1.tstat = d0.tstat
      /\ d1.mutex_queue = d0.mutex_queue
  BY SMTT(60), <1>1, <1>2, <1>3, ReleaseFree
<1> HIDE DEF d1
<1>5. HeldBy(d1, t) = HeldBy(d, t) \ {m}
  BY <1>2, <1>4 DEF HeldBy
<1>6. /\ d2 \in KernelData(I, C) /\ QueuesInv(d2, Task) /\ ObjectsBut(d2, Task, {}, Task)
      /\ Keeps(d1, d2)
  BY <1>3, <1>4, <1>5, Drops
<1> HIDE DEF d2
<1>7. Keeps(d, d2)
  BY <1>3, <1>4, <1>6 DEF Keeps
<1>8. QED
  BY <1>6, <1>7, ObjectsButNothing DEF DataInv, d2, d1, d0

\* A turn of mutex_release_all, for a task that is live no longer.
LEMMA ReleaseAllTurn ==
  ASSUME NEW I, NEW C,
         NEW d, NEW e \in Task, DataInv(I, C, d, Task \ {e}), d.mutex_queue[e] # << >>
  PROVE  LET m  == Head(d.mutex_queue[e])
             d2 == mutex_release(unlink(d, m), m)
         IN  DataInv(I, C, d2, Task \ {e}) /\ Keeps(d, d2)
<1> DEFINE m  == Head(d.mutex_queue[e])
           d1 == unlink(d, m)
           d2 == mutex_release(d1, m)
           L  == Task \ {e}
<1>1. d \in KernelData(I, C) /\ QueuesInv(d, L) /\ OwnersInv(d, {}) /\ NoInfo \in I
  BY DEF DataInv, ObjectsInv
<1>2. d.mutex_queue[e] \in Seq(Mtx)
  BY <1>1, DataTypes
<1>3. m \in Mtx /\ m \in HeldBy(d, e)
  BY <1>2, HeadIsEntry DEF HeldBy
<1> HIDE DEF m
<1>4. d.loctsk[m] = e /\ L \in SUBSET Task /\ L \ {e} = L
  BY <1>1, <1>3 DEF OwnersInv
<1>5. DataInv(I, C, d, L)
  OBVIOUS
<1> HIDE DEF L
<1>6. OnlyOwners(I, C, d, d1) /\ ObjectsBut(d1, L, {m}, L)
  <2>1. ObjectsBut(d1, L, {m}, L \ {e}) /\ OnlyOwners(I, C, d, d1)
    BY <1>3, <1>4, <1>5, Unlink DEF Unlinked
  <2>2. QED
    BY <1>4, <2>1
<1> HIDE DEF d1
<1>7. d1 \in KernelData(I, C) /\ QueuesInv(d1, L) /\ Keeps(d, d1)
  BY <1>1, <1>4, <1>6, OnlyOwnersKeeps DEF OnlyOwners
<1>8. DataInv(I, C, d2, L) /\ Keeps(d1, d2)
  BY <1>1, <1>3, <1>4, <1>6, <1>7, MutexReleased
<1> HIDE DEF d2
<1>9. Keeps(d, d2)
  BY <1>7, <1>8 DEF Keeps
<1>10. QED
  BY <1>8, <1>9 DEF d2, d1, m, L

-----------------------------------------------------------------------------
(***************************************************************************)
(* The end of a task.                                                      *)
(***************************************************************************)
\* A runnable task leaves the ready queue for good.
LEMMA StopRunnable ==
  ASSUME NEW I, NEW C,
         NEW d, DataInv(I, C, d, Task), NEW t \in Task, IsRunnable(d, t)
  PROVE  LET d2 == [d EXCEPT !.rq = make_non_runnable(@, t)]
         IN  /\ DataInv(I, C, d2, Task \ {t}) /\ d2.tstat = d.tstat /\ ~d2.tmevtb[t]
             /\ d.rq.schedtsk # t => d2.rq.schedtsk = d.rq.schedtsk
<1> DEFINE rq2 == make_non_runnable(d.rq, t)
           d2 == [d EXCEPT !.rq = rq2]
           L  == Task \ {t}
<1>1. /\ d \in KernelData(I, C) /\ QueuesInv(d, Task) /\ ObjectsInv(d, Task)
      /\ Task \in SUBSET Task
  BY DEF DataInv
<1>2. /\ d2 \in KernelData(I, C) /\ QueuesInv(d2, Task \ {t}) /\ rq2.priority = d.rq.priority
      /\ d.rq.schedtsk # t => rq2.schedtsk = d.rq.schedtsk
      /\ d2.rq = rq2 /\ SameStates(d2, d) /\ SameRequests(d2, d) /\ SameObjects(d2, d)
      /\ ~d.tmevtb[t]
  BY <1>1, MakeNonRunnable
<1> HIDE DEF rq2
<1>3. [d EXCEPT !.rq = make_non_runnable(@, t)] = d2
  BY DEF rq2
<1> HIDE DEF d2
<1>4. /\ d2.bpriority = d.bpriority /\ d2.rq.priority = d.rq.priority
      /\ d2.tstat = d.tstat /\ ~d2.tmevtb[t]
  BY <1>2 DEF SameRequests, SameStates
<1>5. Eases(d, d2, L)
  BY <1>1, <1>2
     DEF Eases, SameStates, SameRequests, IsDormant, ObjectsInv, DormantInv, SleepersInv
<1>6. ObjectsInv(d2, L)
  <2>1. L \in SUBSET Task
    OBVIOUS
  <2> HIDE DEF L
  <2>2. QED
    BY <1>1, <1>2, <1>4, <1>5, <2>1, ObjectsKept
<1>7. QED
  BY <1>2, <1>3, <1>4, <1>6 DEF DataInv

\* A waiting task leaves its wait queue, and its timeout is cancelled.
stop_waiting(d, t) == wait_dequeue_tmevtb(wait_dequeue_wobj(d, t), t)

\* What remains is correct for the other tasks.
LEMMA StopWaiting ==
  ASSUME NEW I, NEW C,
         NEW d, DataInv(I, C, d, Task), NEW t \in Task, IsWaiting(d, t)
  PROVE  LET d2 == stop_waiting(d, t)
         IN  /\ DataInv(I, C, d2, Task \ {t}) /\ d2.tstat = d.tstat /\ ~d2.tmevtb[t]
             /\ d2.rq = d.rq
<1> DEFINE d1 == wait_dequeue_wobj(d, t)
           tmevtb2 == [d1.tmevtb EXCEPT ![t] = FALSE]
           d2 == [d1 EXCEPT !.tmevtb = tmevtb2]
           L  == Task \ {t}
<1>1. /\ d \in KernelData(I, C) /\ QueuesInv(d, Task) /\ ObjectsInv(d, Task)
      /\ Task \in SUBSET Task
  BY DEF DataInv
<1>2. /\ d1 \in KernelData(I, C) /\ QueuesInv(d1, Task \ {t}) /\ d1.rq = d.rq
      /\ SameStates(d1, d)
      /\ SameRequests(d1, d) /\ SameObjects(d1, d)
  BY <1>1, Dequeue
<1> HIDE DEF d1
<1>3. d1.tmevtb \in [Task -> BOOLEAN]
  BY <1>2, DataTypes
<1>4. /\ tmevtb2 \in [Task -> BOOLEAN] /\ ~tmevtb2[t]
      /\ \A u \in Task : tmevtb2[u] => d1.tmevtb[u]
  BY <1>3
<1> HIDE DEF tmevtb2
<1>5. /\ d2 \in KernelData(I, C) /\ d2.rq = d1.rq /\ d2.tstat = d1.tstat /\ d2.wobj = d1.wobj
      /\ d2.tmevtb = tmevtb2 /\ d2.wait_queue = d1.wait_queue
      /\ SameRequests(d2, d1) /\ SameObjects(d2, d1)
  BY <1>2, <1>4 DEF KernelData, SameRequests, SameObjects
<1>6. stop_waiting(d, t) = d2
  BY DEF stop_waiting, wait_dequeue_tmevtb, d1, tmevtb2
<1> HIDE DEF d2
<1>7. /\ d2.rq = d.rq /\ d2.tstat = d.tstat /\ d2.wobj = d.wobj /\ d2.bpriority = d.bpriority
      /\ d2.rq.priority = d.rq.priority
      /\ d2.actque = d.actque /\ d2.wupque = d.wupque /\ d2.waifbd = d.waifbd
      /\ SameObjects(d2, d)
  BY <1>2, <1>5 DEF SameStates, SameRequests, SameObjects
<1>8. QueuesInv(d2, Task \ {t})
  <2>1. L \in SUBSET Task
    OBVIOUS
  <2>2. QueuesOf(d1.rq, d1.tstat, d1.wobj, d1.tmevtb, d1.wait_queue, L)
    BY <1>2, <2>1, QueuesAre
  <2>3. QueuesOf(d2.rq, d2.tstat, d2.wobj, d2.tmevtb, d2.wait_queue, L)
    BY <1>4, <1>5, <2>2 DEF QueuesOf
  <2>4. QED
    BY <2>1, <2>3, QueuesAre
<1>9. Eases(d, d2, L)
  BY <1>1, <1>7 DEF Eases, IsDormant, ObjectsInv, DormantInv, SleepersInv
<1>10. ObjectsInv(d2, L)
  <2>1. L \in SUBSET Task
    OBVIOUS
  <2> HIDE DEF L
  <2>2. QED
    BY <1>1, <1>5, <1>7, <1>9, <2>1, ObjectsKept
<1>11. QED
  BY <1>4, <1>5, <1>6, <1>7, <1>8, <1>10 DEF DataInv

\* A suspended task is in no queue.
LEMMA StopSuspended ==
  ASSUME NEW I, NEW C,
         NEW d, DataInv(I, C, d, Task), NEW t \in Task, d.tstat[t] = "SUSPENDED"
  PROVE  DataInv(I, C, d, Task \ {t}) /\ ~d.tmevtb[t]
<1> DEFINE L  == Task \ {t}
<1>1. /\ d \in KernelData(I, C) /\ QueuesInv(d, Task) /\ ObjectsInv(d, Task)
      /\ Task \in SUBSET Task
  BY DEF DataInv
<1>2. QueuesInv(d, Task \ {t}) /\ ~d.tmevtb[t]
  <2>1. d.tstat[t] \in {"DORMANT", "SUSPENDED"}
    OBVIOUS
  <2>2. QED
    BY <1>1, <2>1, LeaveNoQueue
<1>3. Eases(d, d, L)
  BY <1>1 DEF Eases, ObjectsInv, DormantInv, SleepersInv
<1>4. SameObjects(d, d) /\ L \in SUBSET Task
  BY DEF SameObjects
<1>5. ObjectsInv(d, L)
  <2> HIDE DEF L
  <2>1. QED
    BY <1>1, <1>3, <1>4, ObjectsKept
<1>6. QED
  BY <1>1, <1>2, <1>5 DEF DataInv

\* The request is taken back and the task is dormant.
end_life(d, e) == [make_dormant(d, e) EXCEPT !.actque[e] = FALSE]

\* The data are correct for all tasks again.
LEMMA EndLife ==
  ASSUME NEW I, NEW C,
         NEW d, NEW e \in Task, NEW L, L = Task \ {e}, DataInv(I, C, d, L),
         d.mutex_queue[e] = << >>, ~d.tmevtb[e]
  PROVE  LET d2 == end_life(d, e)
         IN  /\ DataInv(I, C, d2, Task) /\ IsDormant(d2, e) /\ d2.rq.schedtsk = d.rq.schedtsk
             /\ make_dormant(d, e).actque = d.actque
             /\ \A u \in Task \ {e} : d2.tstat[u] = d.tstat[u]
             /\ ~d.actque[e] => d2 = make_dormant(d, e)
<1> DEFINE d1 == make_dormant(d, e)
           actque2 == [d1.actque EXCEPT ![e] = FALSE]
           d2 == [d1 EXCEPT !.actque = actque2]
<1>1. /\ d \in KernelData(I, C) /\ QueuesInv(d, L) /\ ObjectsInv(d, L) /\ NoInfo \in I
      /\ L \in SUBSET Task /\ e \notin L /\ L \cup {e} = Task
  BY DEF DataInv
<1>2. d1 \in KernelData(I, C) /\ QueuesInv(d1, L \cup {e}) /\ MadeDormant(d, d1, e)
  BY <1>1, MakeDormant
<1> HIDE DEF d1
<1>3. /\ d1.actque \in [Task -> BOOLEAN] /\ d.tstat \in [Task -> TStat]
      /\ d.wobj \in [Task -> WaitKind] /\ d.rq.priority \in [Task -> Pri]
      /\ d.bpriority \in [Task -> Pri] /\ d.wupque \in [Task -> BOOLEAN]
      /\ d.waifbd \in [Task -> BOOLEAN] /\ d1.actque = d.actque
  BY <1>1, <1>2, DataTypes DEF MadeDormant
<1>4. /\ actque2 \in [Task -> BOOLEAN] /\ ~actque2[e]
      /\ \A u \in Task \ {e} : actque2[u] <=> d.actque[u]
      /\ ~d.actque[e] => actque2 = d1.actque
  BY <1>3
<1> HIDE DEF actque2
<1>5. /\ d2 \in KernelData(I, C) /\ d2.rq = d1.rq /\ SameStates(d2, d1)
      /\ d2.wait_queue = d1.wait_queue
      /\ d2.bpriority = d1.bpriority /\ d2.wupque = d1.wupque /\ d2.waifbd = d1.waifbd
      /\ d2.actque = actque2 /\ SameObjects(d2, d1)
  BY <1>2, <1>4 DEF KernelData, SameStates, SameObjects
<1>6. ~d.actque[e] => d2 = d1
  BY <1>2, <1>4 DEF KernelData
<1>7. end_life(d, e) = d2
  BY DEF end_life, d1, actque2
<1> HIDE DEF d2
<1>8. /\ d2.tstat[e] = "DORMANT" /\ \A u \in Task \ {e} : d2.tstat[u] = d.tstat[u]
      /\ d2.wobj[e] = NoObj /\ \A u \in Task \ {e} : d2.wobj[u] = d.wobj[u]
      /\ d2.rq.priority[e] = ipriority[e]
      /\ \A u \in Task \ {e} : d2.rq.priority[u] = d.rq.priority[u]
      /\ d2.bpriority[e] = ipriority[e]
      /\ \A u \in Task \ {e} : d2.bpriority[u] = d.bpriority[u]
  BY <1>2, <1>3, <1>5 DEF MadeDormant, SameStates
<1>9. /\ ~d2.wupque[e] /\ \A u \in Task \ {e} : d2.wupque[u] <=> d.wupque[u]
      /\ ~d2.waifbd[e] /\ \A u \in Task \ {e} : d2.waifbd[u] <=> d.waifbd[u]
      /\ ~d2.actque[e] /\ \A u \in Task \ {e} : d2.actque[u] <=> d.actque[u]
  BY <1>2, <1>3, <1>4, <1>5 DEF MadeDormant
<1>10. /\ d2.semcnt = d.semcnt /\ d2.loctsk = d.loctsk /\ d2.mutex_queue = d.mutex_queue
       /\ d2.rq.schedtsk = d.rq.schedtsk
  BY <1>2, <1>5 DEF MadeDormant, SameObjects
<1>11. QueuesInv(d2, Task)
  BY <1>1, <1>2, <1>5, QueuesDependOn
<1>12. \A m \in Mtx : d.loctsk[m] # e
  <2>1. HeldBy(d, e) = {}
    BY DEF HeldBy, ToSet
  <2>2. QED
    BY <1>1, <2>1 DEF ObjectsInv, OwnersInv
<1>13. UnitsInv(d2, Task)
  <2>1. \A s \in Sem : d2.wobj[e] # s
    BY <1>8, ObjNames
  <2>2. QED
    BY <1>1, <1>8, <1>10, <2>1 DEF ObjectsInv, UnitsInv
<1>14. OwnersInv(d2, {})
  BY <1>1, <1>10 DEF ObjectsInv, OwnersInv, HeldBy
<1>15. WaitersInv(d2, Task)
  <2>1. \A m \in Mtx : d2.wobj[e] # m
    BY <1>8, ObjNames
  <2>2. QED
    BY <1>1, <1>8, <1>10, <2>1 DEF ObjectsInv, WaitersInv
<1>16. CeilingsInv(d2, Task)
  <2>1. \A m \in CeilMtx : d2.wobj[e] # m /\ d2.loctsk[m] # e
    BY <1>8, <1>10, <1>12, ObjNames, CeilingAssumption
  <2>2. QED
    BY <1>1, <1>8, <1>10, <2>1 DEF ObjectsInv, CeilingsInv
<1>17. PrioritiesInv(d2, Task)
  <2>1. ASSUME NEW u \in L PROVE d2.rq.priority[u] = mutex_calc_priority(d2, u)
    <3>1. u \in Task \ {e}
      BY <2>1
    <3>2. mutex_calc_priority(d2, u) = mutex_calc_priority(d, u)
      BY <1>8, <1>10, <3>1, SamePriority DEF HeldBy
    <3>3. QED
      BY <1>1, <1>8, <3>1, <3>2 DEF ObjectsInv, PrioritiesInv
  <2>2. d2.rq.priority[e] = mutex_calc_priority(d2, e)
    <3>1. HeldBy(d2, e) = {}
      BY <1>10 DEF HeldBy, ToSet
    <3>2. Claims(d2, e) = {ipriority[e]}
      BY <1>8, <3>1 DEF Claims
    <3>3. QED
      BY <1>5, <1>8, <3>2, CalcPriority
  <2>3. QED
    BY <1>1, <2>1, <2>2 DEF PrioritiesInv
<1>18. DormantInv(d2)
  <2>1. ASSUME NEW u \in Task, IsDormant(d2, u), u # e PROVE IsDormant(d, u)
    BY <1>8, <2>1 DEF IsDormant
  <2>2. QED
    BY <1>1, <1>8, <1>9, <1>10, <1>12, <2>1 DEF ObjectsInv, DormantInv
<1>19. SleepersInv(d2, Task)
  BY <1>1, <1>8, <1>9, ObjNames DEF ObjectsInv, SleepersInv
<1>20. ObjectsInv(d2, Task)
  BY <1>13, <1>14, <1>15, <1>16, <1>17, <1>18, <1>19 DEF ObjectsInv
<1>21. QED
  BY <1>3, <1>5, <1>6, <1>7, <1>8, <1>10, <1>11, <1>20 DEF DataInv, d1, IsDormant

\* end_of_task: the task is dormant, or starts again on request.
LEMMA TaskEnds ==
  ASSUME NEW I, NEW C,
         NEW d, NEW e \in Task, DataInv(I, C, d, Task \ {e}), d.mutex_queue[e] = << >>,
         ~d.tmevtb[e]
  PROVE  LET d2 == reactivate(make_dormant(d, e), e)
         IN  /\ DataInv(I, C, d2, Task)
             /\ \A u \in Task \ {e} : IsRunnable(d, u) => IsRunnable(d2, u)
<1> DEFINE d1 == end_life(d, e)
           d2 == reactivate(make_dormant(d, e), e)
           L  == Task \ {e}
<1>0. DataInv(I, C, d, L) /\ L = Task \ {e}
  OBVIOUS
<1> HIDE DEF L
<1>1. /\ DataInv(I, C, d1, Task) /\ IsDormant(d1, e)
      /\ make_dormant(d, e).actque = d.actque
      /\ \A u \in Task \ {e} : d1.tstat[u] = d.tstat[u]
      /\ ~d.actque[e] => d1 = make_dormant(d, e)
  BY <1>0, EndLife
<1>2. d2 = IF d.actque[e] THEN make_active(d1, e) ELSE d1
  BY <1>1 DEF reactivate, end_life
<1> HIDE DEF d1, d2
<1>3. d1.tstat[e] \in {"DORMANT", "SUSPENDED"}
  BY <1>1 DEF IsDormant
<1>4. DataInv(I, C, make_active(d1, e), Task) /\ Keeps(d1, make_active(d1, e))
  BY <1>1, <1>3, MakeActive
<1>5. \A u \in Task \ {e} : IsRunnable(d, u) => IsRunnable(d1, u)
  BY <1>1 DEF IsRunnable
<1>6. DataInv(I, C, d2, Task) /\ \A u \in Task \ {e} : IsRunnable(d, u) => IsRunnable(d2, u)
  BY <1>1, <1>2, <1>4, <1>5 DEF Keeps
<1>7. QED
  BY <1>6 DEF d2

-----------------------------------------------------------------------------
\* What chg_pri does to the data.
change_base(d, t, newbpri) == [d EXCEPT !.bpriority[t] = newbpri]

changed_pri(d, t, newbpri) ==
  LET d2 == change_base(d, t, newbpri)
  IN  IF mutex_scan_ceilmtx(d2, t) THEN d2 ELSE change_priority(d2, t, newbpri, FALSE)

\* A task with a ceiling keeps its priority because no ceiling is below its
\* base priority, neither the old one nor the new one.
LEMMA ChangesPriority ==
  ASSUME NEW I, NEW C,
         NEW d, DataInv(I, C, d, Task), NEW t \in Task, ~IsDormant(d, t), NEW newbpri \in Pri,
         mutex_check_ceilpri(d, t, newbpri)
  PROVE  DataInv(I, C, changed_pri(d, t, newbpri), Task) /\ Keeps(d, changed_pri(d, t, newbpri))
<1> DEFINE bpriority2 == [d.bpriority EXCEPT ![t] = newbpri]
           d1 == [d EXCEPT !.bpriority = bpriority2]
           d2 == change_priority(d1, t, newbpri, FALSE)
<1>1. /\ d \in KernelData(I, C) /\ QueuesInv(d, Task) /\ ObjectsInv(d, Task)
      /\ Task \in SUBSET Task
  BY DEF DataInv
<1>2. d.bpriority \in [Task -> Pri] /\ d.rq.priority \in [Task -> Pri]
  BY <1>1, DataTypes
<1>3. /\ bpriority2 \in [Task -> Pri] /\ bpriority2[t] = newbpri
      /\ \A u \in Task \ {t} : bpriority2[u] = d.bpriority[u]
  BY <1>2
<1> HIDE DEF bpriority2
<1>4. /\ d1 \in KernelData(I, C) /\ d1.rq = d.rq /\ SameStates(d1, d) /\ SameObjects(d1, d)
      /\ d1.wait_queue = d.wait_queue /\ d1.bpriority = bpriority2
      /\ d1.actque = d.actque /\ d1.wupque = d.wupque /\ d1.waifbd = d.waifbd
  BY <1>1, <1>3 DEF KernelData, SameStates, SameObjects
<1>5. change_base(d, t, newbpri) = d1
  BY DEF change_base, bpriority2
<1> HIDE DEF d1
<1>6. /\ d1.tstat = d.tstat /\ d1.wobj = d.wobj /\ d1.tmevtb = d.tmevtb
      /\ d1.semcnt = d.semcnt /\ d1.loctsk = d.loctsk /\ d1.mutex_queue = d.mutex_queue
  BY <1>4 DEF SameStates, SameObjects
<1>7. QueuesInv(d1, Task) /\ Keeps(d, d1) /\ ~IsDormant(d1, t)
  BY <1>1, <1>4, <1>6, QueuesDependOn DEF Keeps, IsRunnable, IsDormant
<1>8. \A u \in Task : HeldBy(d1, u) = HeldBy(d, u)
  BY <1>6 DEF HeldBy
<1>9. UnitsInv(d1, Task) /\ OwnersInv(d1, {}) /\ WaitersInv(d1, Task) /\ SleepersInv(d1, Task)
  BY <1>1, <1>4, <1>6 DEF ObjectsInv, UnitsInv, OwnersInv, HeldBy, WaitersInv, SleepersInv
<1>10. CeilingsInv(d1, Task)
  <2>1. ASSUME NEW m \in CeilMtx, d.loctsk[m] = t \/ d.wobj[t] = m
        PROVE  ceilpri[m] <= newbpri
    <3>1. d.loctsk[m] = t => m \in HeldBy(d, t)
      BY <1>1, CeilingAssumption DEF ObjectsInv, OwnersInv
    <3>2. QED
      BY <2>1, <3>1 DEF mutex_check_ceilpri
  <2>2. QED
    BY <1>1, <1>3, <1>4, <1>6, <2>1 DEF ObjectsInv, CeilingsInv
<1>11. PrioritiesInv(d1, Task \ {t})
  <2>1. ASSUME NEW u \in Task \ {t} PROVE d1.rq.priority[u] = mutex_calc_priority(d1, u)
    <3>1. mutex_calc_priority(d1, u) = mutex_calc_priority(d, u)
      BY <1>3, <1>4, <1>8, SamePriority
    <3>2. QED
      BY <1>1, <1>4, <3>1 DEF ObjectsInv, PrioritiesInv
  <2>2. QED
    BY <2>1 DEF PrioritiesInv
<1>12. DormantInv(d1)
  BY <1>1, <1>3, <1>4, <1>6 DEF ObjectsInv, DormantInv, IsDormant
<1>13. ObjectsBut(d1, Task, {}, Task \ {t})
  BY <1>9, <1>10, <1>11, <1>12 DEF ObjectsBut
<1>14. CASE mutex_scan_ceilmtx(d1, t)
  <2>1. PICK m \in HeldBy(d, t) \cap CeilMtx : TRUE
    BY <1>8, <1>14 DEF mutex_scan_ceilmtx
  <2>2. /\ d.rq.priority[t] \in Claims(d, t) /\ \A c \in Claims(d, t) : d.rq.priority[t] <= c
        /\ Claims(d, t) \subseteq Pri
    BY <1>1, CalcPriority, ClaimsArePri DEF ObjectsInv, PrioritiesInv
  <2>3. /\ ceilpri[m] <= d.bpriority[t] /\ ceilpri[m] <= newbpri
        /\ ceilpri[m] \in Claims(d, t) /\ ceilpri[m] \in Pri
    <3>1. d.loctsk[m] = t
      BY <1>1, CeilingAssumption DEF ObjectsInv, OwnersInv
    <3>2. QED
      BY <1>1, <2>1, <3>1, CeilingAssumption
         DEF ObjectsInv, CeilingsInv, mutex_check_ceilpri, Claims
  <2>4. d.rq.priority[t] <= newbpri
    BY <1>2, <2>2, <2>3 DEF Pri
  <2>5. \E x \in HeldBy(d, t) \cap CeilMtx : d.rq.priority[t] = ceilpri[x]
    <3>1. CASE d.rq.priority[t] = d.bpriority[t]
      <4>1. d.rq.priority[t] = ceilpri[m]
        BY <1>2, <2>2, <2>3, <3>1 DEF Pri
      <4>2. QED
        BY <2>1, <4>1
    <3>2. CASE d.rq.priority[t] # d.bpriority[t]
      BY <2>2, <3>2, ClaimsAre
    <3>3. QED
      BY <3>1, <3>2
  <2>6. d.rq.priority[t] \in Claims(d1, t)
    BY <1>8, <2>5, ClaimsAre
  <2>7. \A c \in Claims(d1, t) : d.rq.priority[t] <= c
    <3>1. ASSUME NEW c \in Claims(d1, t) PROVE c = newbpri \/ c \in Claims(d, t)
      BY <1>3, <1>4, <1>8, ClaimsAre
    <3>2. QED
      BY <2>2, <2>4, <3>1
  <2>8. d1.rq.priority[t] = mutex_calc_priority(d1, t)
    BY <1>4, <2>6, <2>7, CalcPriority
  <2>9. ObjectsBut(d1, Task, {}, Task)
    BY <1>13, <2>8, PriorityRight
  <2>10. changed_pri(d, t, newbpri) = d1
    BY <1>5, <1>14 DEF changed_pri
  <2>11. QED
    BY <1>4, <1>7, <2>9, <2>10, ObjectsButNothing DEF DataInv
<1>15. CASE ~mutex_scan_ceilmtx(d1, t)
  <2>1. newbpri = mutex_calc_priority(d1, t)
    <3>1. Claims(d1, t) = {newbpri}
      <4>1. HeldBy(d1, t) \cap CeilMtx = {}
        BY <1>15 DEF mutex_scan_ceilmtx
      <4>2. QED
        BY <1>3, <1>4, <4>1 DEF Claims
    <3>2. QED
      BY <1>4, <3>1, CalcPriority
  <2>2. FALSE \in BOOLEAN
    OBVIOUS
  <2>3. /\ d2 \in KernelData(I, C) /\ QueuesInv(d2, Task) /\ ObjectsBut(d2, Task, {}, Task)
        /\ Keeps(d1, d2)
    BY <1>4, <1>7, <1>13, <2>1, <2>2, PriorityChanged
  <2>4. changed_pri(d, t, newbpri) = d2
    BY <1>5, <1>15 DEF changed_pri
  <2> HIDE DEF d2
  <2>5. Keeps(d, d2)
    BY <1>7, <2>3 DEF Keeps
  <2>6. QED
    BY <2>3, <2>4, <2>5, ObjectsButNothing DEF DataInv
<1>16. QED
  BY <1>14, <1>15

-----------------------------------------------------------------------------
\* The data at the start of the kernel.
LEMMA InitData ==
  ASSUME NEW I, NEW C, NoInfo \in I, NEW icb \in C
  PROVE  DataInv(I, C, InitKernel(isemcnt, icb), Task)
<1> DEFINE d == InitKernel(isemcnt, icb)
<1>1. /\ EmptyReadyQueue(ipriority) \in ReadyQueueType
      /\ ReadyQueueInv(EmptyReadyQueue(ipriority), {})
  BY PriorityAssumption, EmptyReadyQueue_Correct
<1>2. d \in KernelData(I, C)
  <2>1. NoTask \in Task \cup {NoTask} /\ << >> \in Seq(Task) /\ << >> \in Seq(Mtx)
    OBVIOUS
  <2>2. QED
    BY <1>1, <2>1, PriorityAssumption, SemaphoreAssumption, ObjNames
       DEF InitKernel, KernelData, TStat, ErCd
<1>3. /\ d.rq = EmptyReadyQueue(ipriority) /\ d.rq.priority = ipriority
      /\ d.bpriority = ipriority /\ d.semcnt = isemcnt
      /\ \A t \in Task : /\ d.tstat[t] = "DORMANT" /\ d.wobj[t] = NoObj /\ ~d.tmevtb[t]
                         /\ ~d.actque[t] /\ ~d.wupque[t] /\ ~d.waifbd[t]
                         /\ d.mutex_queue[t] = << >>
      /\ \A o \in Obj : d.wait_queue[o] = << >>
      /\ \A m \in Mtx : d.loctsk[m] = NoTask
  BY DEF InitKernel, EmptyReadyQueue
<1> HIDE DEF d
<1>4. QueuesInv(d, Task)
  <2>1. {t \in Task : d.tstat[t] = "RUNNABLE"} = {}
    BY <1>3
  <2>2. \A o \in Obj : ToSet(d.wait_queue[o]) = {} /\ IsInjective(d.wait_queue[o])
    BY <1>3 DEF ToSet, IsInjective
  <2>3. \A o \in TPriObj : Sorted(d.wait_queue[o], d.rq.priority)
    BY <1>3, ObjNames DEF Sorted, Before
  <2>4. QueuesOf(d.rq, d.tstat, d.wobj, d.tmevtb, d.wait_queue, Task)
    BY <1>1, <1>3, <2>1, <2>2, <2>3, ObjNames DEF QueuesOf
  <2>5. QED
    BY <2>4, QueuesAre
<1>5. \A t \in Task : HeldBy(d, t) = {} /\ IsInjective(d.mutex_queue[t])
  BY <1>3 DEF HeldBy, ToSet, IsInjective
<1>6. UnitsInv(d, Task)
  BY <1>3, SemaphoreAssumption, ObjNames DEF UnitsInv
<1>7. OwnersInv(d, {}) /\ WaitersInv(d, Task)
  BY <1>3, <1>5, NoTaskAssumption, ObjNames DEF OwnersInv, WaitersInv
<1>8. CeilingsInv(d, Task)
  BY <1>3, NoTaskAssumption, CeilingAssumption, ObjNames DEF CeilingsInv
<1>9. PrioritiesInv(d, Task)
  <2>1. ASSUME NEW t \in Task PROVE d.rq.priority[t] = mutex_calc_priority(d, t)
    <3>1. Claims(d, t) = {ipriority[t]}
      BY <1>3, <1>5 DEF Claims
    <3>2. QED
      BY <1>2, <1>3, <3>1, CalcPriority
  <2>2. QED
    BY <2>1 DEF PrioritiesInv
<1>10. DormantInv(d) /\ SleepersInv(d, Task)
  BY <1>3, NoTaskAssumption, ObjNames DEF DormantInv, SleepersInv
<1>11. QED
  BY <1>2, <1>4, <1>6, <1>7, <1>8, <1>9, <1>10 DEF DataInv, ObjectsInv, d
=============================================================================
