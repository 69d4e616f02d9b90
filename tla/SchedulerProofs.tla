--------------------------- MODULE SchedulerProofs ---------------------------
(***************************************************************************)
(* The ready queue stays correct under every sequence of calls of task.c,  *)
(* for any number of tasks and priorities.  The type and the invariant     *)
(* are inductive together: the lists are only known to hold tasks, and     *)
(* p_schedtsk to index them, by the type.  Each action is one lemma of     *)
(* module ReadyQueueProofs.                                                *)
(*                                                                         *)
(* The second part maps the lists, one after another, to the one list of   *)
(* module Precedence.  The third is about the word that announces them:    *)
(* the search by halves and a table finds the highest priority in it.      *)
(***************************************************************************)
EXTENDS Scheduler, PriorityBitmap, ReadyQueueProofs

IInv == TypeOK /\ ReadyQueueOK

\* After initialize_task no task is runnable and every list is empty.
LEMMA InitEstablishes == Init => IInv
  BY IpriorityAssumption, EmptyReadyQueue_Correct
     DEF Init, IInv, TypeOK, ReadyQueueOK

\* make_runnable queues the task and keeps the invariant.
LEMMA MakeRunnablePreserves ==
  ASSUME IInv, NEW t \in Task, MakeRunnable(t)
  PROVE  IInv'
<1>1. /\ rq \in ReadyQueueType /\ runnable \in SUBSET Task
      /\ ReadyQueueInv(rq, runnable)
      /\ t \notin runnable
      /\ rq' = make_runnable(rq, t) /\ runnable' = runnable \cup {t}
  BY DEF IInv, TypeOK, ReadyQueueOK, MakeRunnable
<1>2. rq' \in ReadyQueueType /\ ReadyQueueInv(rq', runnable')
  BY <1>1, MakeRunnable_Correct
<1>3. QED
  BY <1>1, <1>2 DEF IInv, TypeOK, ReadyQueueOK

\* make_non_runnable unlinks the task and keeps the invariant.
LEMMA MakeNonRunnablePreserves ==
  ASSUME IInv, NEW t \in Task, MakeNonRunnable(t)
  PROVE  IInv'
<1>1. /\ rq \in ReadyQueueType /\ runnable \in SUBSET Task
      /\ ReadyQueueInv(rq, runnable)
      /\ t \in runnable
      /\ rq' = make_non_runnable(rq, t) /\ runnable' = runnable \ {t}
  BY DEF IInv, TypeOK, ReadyQueueOK, MakeNonRunnable
<1>2. rq' \in ReadyQueueType /\ ReadyQueueInv(rq', runnable')
  BY <1>1, MakeNonRunnable_Correct
<1>3. QED
  BY <1>1, <1>2 DEF IInv, TypeOK, ReadyQueueOK

\* change_priority keeps the invariant, for a runnable task and for any other.
LEMMA ChangePriorityPreserves ==
  ASSUME IInv, NEW t \in Task, NEW newpri \in Pri, NEW mtxmode \in BOOLEAN,
         ChangePriority(t, newpri, mtxmode)
  PROVE  IInv'
<1>1. /\ rq \in ReadyQueueType /\ runnable \in SUBSET Task
      /\ ReadyQueueInv(rq, runnable)
      /\ runnable' = runnable
      /\ rq' = IF t \in runnable THEN requeue(rq, t, newpri, mtxmode)
               ELSE [rq EXCEPT !.priority[t] = newpri]
  BY DEF IInv, TypeOK, ReadyQueueOK, ChangePriority
<1>2. CASE t \in runnable
  <2>1. rq' = requeue(rq, t, newpri, mtxmode)
    BY <1>1, <1>2
  <2>2. rq' \in ReadyQueueType /\ ReadyQueueInv(rq', runnable)
    BY <1>1, <1>2, <2>1, Requeue_Correct
  <2>3. QED
    BY <1>1, <2>2 DEF IInv, TypeOK, ReadyQueueOK
<1>3. CASE t \notin runnable
  <2>1. rq' = [rq EXCEPT !.priority[t] = newpri]
    BY <1>1, <1>3
  <2>2. rq' \in ReadyQueueType /\ ReadyQueueInv(rq', runnable)
    BY <1>1, <1>3, <2>1, SetPriority_Correct
  <2>3. QED
    BY <1>1, <2>2 DEF IInv, TypeOK, ReadyQueueOK
<1>4. QED
  BY <1>2, <1>3

\* rotate_ready_queue keeps the invariant.
LEMMA RotatePreserves ==
  ASSUME IInv, NEW pri \in Pri, RotateReadyQueue(pri)
  PROVE  IInv'
<1>1. /\ rq \in ReadyQueueType /\ runnable \in SUBSET Task
      /\ ReadyQueueInv(rq, runnable)
      /\ rq' = rotate_ready_queue(rq, pri) /\ runnable' = runnable
  BY DEF IInv, TypeOK, ReadyQueueOK, RotateReadyQueue
<1>2. rq' \in ReadyQueueType /\ ReadyQueueInv(rq', runnable)
  BY <1>1, Rotate_Correct
<1>3. QED
  BY <1>1, <1>2 DEF IInv, TypeOK, ReadyQueueOK

\* Every step of the scheduler, and every stutter, keeps the invariant.
LEMMA NextPreserves == IInv /\ [Next]_svars => IInv'
<1> SUFFICES ASSUME IInv, [Next]_svars PROVE IInv'
  OBVIOUS
<1>1. ASSUME NEW t \in Task, MakeRunnable(t) PROVE IInv'
  BY <1>1, MakeRunnablePreserves
<1>2. ASSUME NEW t \in Task, MakeNonRunnable(t) PROVE IInv'
  BY <1>2, MakeNonRunnablePreserves
<1>3. ASSUME NEW t \in Task, NEW p \in Pri, NEW m \in BOOLEAN, ChangePriority(t, p, m)
      PROVE  IInv'
  BY <1>3, ChangePriorityPreserves
<1>4. ASSUME NEW p \in Pri, RotateReadyQueue(p) PROVE IInv'
  BY <1>4, RotatePreserves
<1>5. CASE UNCHANGED svars
  BY <1>5 DEF svars, IInv, TypeOK, ReadyQueueOK
<1>6. QED
  BY <1>1, <1>2, <1>3, <1>4, <1>5 DEF Next

\* Every function of task.c keeps both parts.
LEMMA InvariantHolds == Spec => []IInv
  BY InitEstablishes, NextPreserves, PTL DEF Spec

\* Type correctness: no function of task.c ever puts NULL into a list, or looks
\* up the list of a priority that does not exist.
THEOREM Scheduler_TypeOK == Spec => []TypeOK
<1>1. IInv => TypeOK
  BY DEF IInv
<1>2. QED
  BY <1>1, InvariantHolds, PTL

\* The lists, the bitmap, the current priorities and p_schedtsk agree after any
\* sequence of calls of task.c, for any number of tasks and priorities.
THEOREM Scheduler_ReadyQueueOK == Spec => []ReadyQueueOK
<1>1. IInv => ReadyQueueOK
  BY DEF IInv
<1>2. QED
  BY <1>1, InvariantHolds, PTL

-----------------------------------------------------------------------------
(***************************************************************************)
(* The lists one after another.                                            *)
(***************************************************************************)
\* An entry put into a part of a sequence, or taken from it.
InsertsInside(a, q, b, n, t) ==
  /\ Len(a) + n \in 1 .. Len((a \o q) \o b) + 1
  /\ InsertAt((a \o q) \o b, Len(a) + n, t) = (a \o InsertAt(q, n, t)) \o b

RemovesInside(a, q, b, n) ==
  /\ Len(a) + n \in 1 .. Len((a \o q) \o b)
  /\ ((a \o q) \o b)[Len(a) + n] = q[n]
  /\ RemoveAt((a \o q) \o b, Len(a) + n) = (a \o RemoveAt(q, n)) \o b

LEMMA InsertInside ==
  ASSUME NEW S, NEW a \in Seq(S), NEW q \in Seq(S), NEW b \in Seq(S), NEW t \in S,
         NEW n \in 1 .. Len(q) + 1
  PROVE  InsertsInside(a, q, b, n, t)
<1> DEFINE s == (a \o q) \o b
           m == Len(a) + n
           r == InsertAt(q, n, t)
           x == InsertAt(s, m, t)
           y == (a \o r) \o b
<1>1. /\ a \o q \in Seq(S) /\ Len(a \o q) = Len(a) + Len(q)
      /\ \A i \in 1 .. Len(a) + Len(q) : (a \o q)[i] = IF i <= Len(a) THEN a[i] ELSE q[i - Len(a)]
  BY ConcatProperties
<1>2. /\ s \in Seq(S) /\ Len(s) = Len(a \o q) + Len(b)
      /\ \A i \in 1 .. Len(a \o q) + Len(b) :
           s[i] = IF i <= Len(a \o q) THEN (a \o q)[i] ELSE b[i - Len(a \o q)]
  BY <1>1, ConcatProperties
<1>3. /\ r \in Seq(S) /\ Len(r) = Len(q) + 1
      /\ \A i \in 1 .. Len(r) : r[i] = IF i < n THEN q[i] ELSE IF i = n THEN t ELSE q[i - 1]
  BY InsertAtEntries
<1>4. /\ a \o r \in Seq(S) /\ Len(a \o r) = Len(a) + Len(r)
      /\ \A i \in 1 .. Len(a) + Len(r) : (a \o r)[i] = IF i <= Len(a) THEN a[i] ELSE r[i - Len(a)]
  BY <1>3, ConcatProperties
<1>5. /\ y \in Seq(S) /\ Len(y) = Len(a \o r) + Len(b)
      /\ \A i \in 1 .. Len(a \o r) + Len(b) :
           y[i] = IF i <= Len(a \o r) THEN (a \o r)[i] ELSE b[i - Len(a \o r)]
  BY <1>4, ConcatProperties
<1> HIDE DEF s, r, y
<1>6. m \in 1 .. Len(s) + 1
  BY <1>1, <1>2
<1>7. m = Len(a) + n
  BY DEF m
<1> HIDE DEF m
<1>8. /\ x \in Seq(S) /\ Len(x) = Len(s) + 1
      /\ \A i \in 1 .. Len(x) : x[i] = IF i < m THEN s[i] ELSE IF i = m THEN t ELSE s[i - 1]
  <2>1. s \in Seq(S)
    BY <1>2
  <2>2. QED
    BY <1>6, <2>1, InsertAtEntries
<1> HIDE DEF x
<1>9. Len(x) = Len(y)
  BY <1>1, <1>2, <1>3, <1>4, <1>5, <1>8
<1>10. ASSUME NEW i \in 1 .. Len(x) PROVE x[i] = y[i]
  <2>1. /\ i \in Nat /\ Len(a) \in Nat /\ Len(q) \in Nat /\ Len(b) \in Nat /\ n \in Nat
        /\ i >= 1 /\ i <= Len(a) + Len(q) + 1 + Len(b)
    BY <1>1, <1>2, <1>3, <1>4, <1>5, <1>8
  <2>2. CASE i < m
    <3>1. x[i] = s[i]
      BY <1>8, <2>2
    <3>2. CASE i <= Len(a)
      <4>1. s[i] = a[i]
        BY <1>1, <1>2, <2>1, <3>2
      <4>2. y[i] = a[i]
        BY <1>4, <1>5, <2>1, <2>2, <3>2
      <4>3. QED
        BY <3>1, <4>1, <4>2
    <3>3. CASE i > Len(a)
      <4>1. i - Len(a) \in 1 .. Len(q) /\ i - Len(a) < n
        BY <1>7, <2>1, <2>2, <3>3
      <4>2. s[i] = q[i - Len(a)]
        BY <1>1, <1>2, <2>1, <3>3, <4>1
      <4>3. y[i] = r[i - Len(a)]
        BY <1>3, <1>4, <1>5, <2>1, <3>3, <4>1
      <4>4. r[i - Len(a)] = q[i - Len(a)]
        BY <1>3, <4>1
      <4>5. QED
        BY <3>1, <4>2, <4>3, <4>4
    <3>4. QED
      BY <2>1, <3>2, <3>3
  <2>3. CASE i = m
    <3>1. x[i] = t
      BY <1>8, <2>3
    <3>2. i - Len(a) = n /\ i > Len(a) /\ n \in 1 .. Len(r)
      BY <1>3, <1>7, <2>1, <2>3
    <3>3. y[i] = r[n]
      BY <1>3, <1>4, <1>5, <2>1, <3>2
    <3>4. r[n] = t
      BY <1>3, <3>2
    <3>5. QED
      BY <3>1, <3>3, <3>4
  <2>4. CASE i > m
    <3>1. x[i] = s[i - 1] /\ i - 1 \in 1 .. Len(s)
      BY <1>8, <1>7, <2>1, <2>4
    <3>2. CASE i - 1 <= Len(a) + Len(q)
      <4>1. /\ i - Len(a) \in 1 .. Len(r) /\ ~(i - Len(a) < n) /\ i - Len(a) # n
            /\ i > Len(a) /\ i - 1 > Len(a) /\ i - 1 - Len(a) = i - Len(a) - 1
        BY <1>3, <1>7, <2>1, <2>4, <3>2
      <4>2. s[i - 1] = q[i - 1 - Len(a)]
        <5>1. i - 1 \in 1 .. Len(a) + Len(q) /\ ~(i - 1 <= Len(a))
          BY <2>1, <3>2, <4>1
        <5>2. s[i - 1] = (a \o q)[i - 1]
          <6>1. i - 1 <= Len(a \o q) /\ i - 1 \in 1 .. Len(a \o q) + Len(b)
            BY <1>1, <2>1, <5>1
          <6>2. QED
            BY <1>2, <6>1
        <5>3. QED
          BY <1>1, <5>1, <5>2
      <4>3. y[i] = r[i - Len(a)]
        BY <1>3, <1>4, <1>5, <2>1, <4>1
      <4>4. r[i - Len(a)] = q[i - Len(a) - 1]
        BY <1>3, <4>1
      <4>5. QED
        BY <3>1, <4>1, <4>2, <4>3, <4>4
    <3>3. CASE i - 1 > Len(a) + Len(q)
      <4>1. s[i - 1] = b[i - 1 - (Len(a) + Len(q))]
        BY SMTT(60), <1>1, <1>2, <3>1, <3>3
      <4>2. y[i] = b[i - (Len(a) + (Len(q) + 1))]
        BY <1>3, <1>4, <1>5, <2>1, <3>3
      <4>3. i - (Len(a) + (Len(q) + 1)) = i - 1 - (Len(a) + Len(q))
        BY <2>1
      <4>4. QED
        BY <3>1, <4>1, <4>2, <4>3
    <3>4. QED
      BY <2>1, <3>2, <3>3
  <2>5. QED
    BY <1>7, <2>1, <2>2, <2>3, <2>4
<1>11. x = y
  BY <1>5, <1>8, <1>9, <1>10, SeqEqual
<1>12. QED
  BY <1>6, <1>11 DEF InsertsInside, x, y, r, s, m

LEMMA RemoveInside ==
  ASSUME NEW S, NEW a \in Seq(S), NEW q \in Seq(S), NEW b \in Seq(S),
         NEW n \in 1 .. Len(q)
  PROVE  RemovesInside(a, q, b, n)
<1> DEFINE s == (a \o q) \o b
           m == Len(a) + n
           r == RemoveAt(q, n)
           x == RemoveAt(s, m)
           y == (a \o r) \o b
<1>1. /\ a \o q \in Seq(S) /\ Len(a \o q) = Len(a) + Len(q)
      /\ \A i \in 1 .. Len(a) + Len(q) : (a \o q)[i] = IF i <= Len(a) THEN a[i] ELSE q[i - Len(a)]
  BY ConcatProperties
<1>2. /\ s \in Seq(S) /\ Len(s) = Len(a \o q) + Len(b)
      /\ \A i \in 1 .. Len(a \o q) + Len(b) :
           s[i] = IF i <= Len(a \o q) THEN (a \o q)[i] ELSE b[i - Len(a \o q)]
  BY <1>1, ConcatProperties
<1>3. /\ r \in Seq(S) /\ Len(r) = Len(q) - 1
      /\ \A i \in 1 .. Len(r) : r[i] = IF i < n THEN q[i] ELSE q[i + 1]
  BY RemoveAtEntries
<1>4. /\ a \o r \in Seq(S) /\ Len(a \o r) = Len(a) + Len(r)
      /\ \A i \in 1 .. Len(a) + Len(r) : (a \o r)[i] = IF i <= Len(a) THEN a[i] ELSE r[i - Len(a)]
  BY <1>3, ConcatProperties
<1>5. /\ y \in Seq(S) /\ Len(y) = Len(a \o r) + Len(b)
      /\ \A i \in 1 .. Len(a \o r) + Len(b) :
           y[i] = IF i <= Len(a \o r) THEN (a \o r)[i] ELSE b[i - Len(a \o r)]
  BY <1>4, ConcatProperties
<1> HIDE DEF s, r, y
<1>6. m \in 1 .. Len(s)
  BY <1>1, <1>2
<1>7. /\ x \in Seq(S) /\ Len(x) = Len(s) - 1
      /\ \A i \in 1 .. Len(x) : x[i] = IF i < m THEN s[i] ELSE s[i + 1]
  BY <1>2, <1>6, RemoveAtEntries
<1> HIDE DEF x, m
<1>8. Len(x) = Len(y)
  BY <1>1, <1>2, <1>3, <1>4, <1>5, <1>7
<1>9. m = Len(a) + n
  BY DEF m
<1>10. ASSUME NEW i \in 1 .. Len(x) PROVE x[i] = y[i]
  <2>1. /\ i \in Nat /\ Len(a) \in Nat /\ Len(q) \in Nat /\ Len(b) \in Nat /\ n \in Nat
        /\ i >= 1 /\ i + 1 <= Len(a) + Len(q) + Len(b) /\ n <= Len(q) /\ n >= 1
    BY <1>1, <1>2, <1>3, <1>4, <1>5, <1>7
  <2>2. CASE i < m
    <3>1. x[i] = s[i]
      BY <1>7, <2>2
    <3>2. CASE i <= Len(a)
      <4>1. s[i] = a[i]
        BY <1>1, <1>2, <2>1, <3>2
      <4>2. y[i] = a[i]
        BY <1>4, <1>5, <2>1, <2>2, <3>2
      <4>3. QED
        BY <3>1, <4>1, <4>2
    <3>3. CASE i > Len(a)
      <4>1. i - Len(a) \in 1 .. Len(q) /\ i - Len(a) < n /\ i - Len(a) \in 1 .. Len(r)
        BY <1>3, <1>9, <2>1, <2>2, <3>3
      <4>2. s[i] = q[i - Len(a)]
        BY <1>1, <1>2, <2>1, <3>3, <4>1
      <4>3. y[i] = r[i - Len(a)]
        BY SMTT(60), <1>3, <1>4, <1>5, <2>1, <3>3, <4>1
      <4>4. r[i - Len(a)] = q[i - Len(a)]
        BY <1>3, <4>1
      <4>5. QED
        BY <3>1, <4>2, <4>3, <4>4
    <3>4. QED
      BY <2>1, <3>2, <3>3
  <2>3. CASE ~(i < m)
    <3>1. x[i] = s[i + 1] /\ i + 1 \in 1 .. Len(s)
      BY <1>7, <1>9, <2>1, <2>3
    <3>2. CASE i + 1 <= Len(a) + Len(q)
      <4>1. /\ i - Len(a) \in 1 .. Len(r) /\ ~(i - Len(a) < n)
            /\ i > Len(a) /\ i + 1 > Len(a) /\ i + 1 - Len(a) = i - Len(a) + 1
        BY <1>3, <1>9, <2>1, <2>3, <3>2
      <4>2. s[i + 1] = q[i + 1 - Len(a)]
        BY <1>1, <1>2, <2>1, <3>2, <4>1
      <4>3. y[i] = r[i - Len(a)]
        BY <1>3, <1>4, <1>5, <2>1, <4>1
      <4>4. r[i - Len(a)] = q[i - Len(a) + 1]
        BY <1>3, <4>1
      <4>5. QED
        BY <3>1, <4>1, <4>2, <4>3, <4>4
    <3>3. CASE i + 1 > Len(a) + Len(q)
      <4>1. s[i + 1] = b[i + 1 - (Len(a) + Len(q))]
        BY <1>1, <1>2, <3>1, <3>3
      <4>2. y[i] = b[i - (Len(a) + (Len(q) - 1))]
        BY <1>3, <1>4, <1>5, <2>1, <3>3
      <4>3. i - (Len(a) + (Len(q) - 1)) = i + 1 - (Len(a) + Len(q))
        BY <2>1
      <4>4. QED
        BY <3>1, <4>1, <4>2, <4>3
    <3>4. QED
      BY <2>1, <3>2, <3>3
  <2>4. QED
    BY <2>2, <2>3
<1>11. x = y
  BY <1>5, <1>7, <1>8, <1>10, SeqEqual
<1>12. s[m] = q[n]
  BY <1>1, <1>2, <1>9
<1>13. QED
  BY <1>6, <1>11, <1>12 DEF RemovesInside, x, y, r, s, m

\* The function behind FlattenSeq, up to n.
IsFlat(f, s, n) == f = [i \in 1 .. n |-> IF i = 1 THEN s[i] ELSE f[i - 1] \o s[i]]

LEMMA FlatExists ==
  ASSUME NEW s, NEW n \in Nat
  PROVE  \E f : IsFlat(f, s, n)
<1> DEFINE Bad == {m \in Nat : ~ \E f : IsFlat(f, s, m)}
           m == primap_search(Bad)
<1> SUFFICES ASSUME Bad # {} PROVE FALSE
  OBVIOUS
<1>1. m \in Bad /\ \A j \in Bad : m <= j
  BY SearchFindsMinimum
<1>2. m \in Nat /\ ~ \E f : IsFlat(f, s, m)
  BY <1>1
<1> HIDE DEF m
<1>3. CASE m = 0
  <2> DEFINE g == [i \in 1 .. 0 |-> IF i = 1 THEN s[i] ELSE << >>]
  <2>1. IsFlat(g, s, 0)
    BY DEF IsFlat
  <2>2. QED
    BY <1>2, <1>3, <2>1
<1>4. CASE m > 0
  <2>1. m - 1 \in Nat /\ ~(m <= m - 1)
    BY <1>2, <1>4
  <2>2. PICK f : IsFlat(f, s, m - 1)
    BY <1>1, <2>1
  <2>3. \A i \in 1 .. m - 1 : f[i] = IF i = 1 THEN s[i] ELSE f[i - 1] \o s[i]
    BY <2>2 DEF IsFlat
  <2> DEFINE g == [i \in 1 .. m |-> IF i = 1 THEN s[i]
                                    ELSE IF i = m THEN f[m - 1] \o s[m] ELSE f[i]]
  <2>4. ASSUME NEW i \in 1 .. m
        PROVE  g[i] = IF i = 1 THEN s[i] ELSE g[i - 1] \o s[i]
    <3>1. CASE i = 1
      BY <3>1
    <3>2. CASE i # 1
      <4>1. i - 1 \in 1 .. m /\ i - 1 \in 1 .. m - 1 /\ i - 1 # m
        BY <1>2, <3>2
      <4>2. g[i - 1] = f[i - 1]
        <5>1. i - 1 = 1 => f[i - 1] = s[i - 1]
          BY <2>3, <4>1
        <5>2. QED
          BY <4>1, <5>1
      <4>3. g[i] = IF i = m THEN f[m - 1] \o s[m] ELSE f[i]
        BY <3>2
      <4> HIDE DEF g
      <4>4. i # m => i \in 1 .. m - 1
        BY <1>2
      <4>5. QED
        BY <2>3, <3>2, <4>2, <4>3, <4>4
    <3>3. QED
      BY <3>1, <3>2
  <2>5. IsFlat(g, s, m)
    BY <2>4 DEF IsFlat
  <2>6. QED
    BY <1>2, <2>5
<1>5. QED
  BY <1>2, <1>3, <1>4

\* What is in one of the lists from m to n.
Among(S, s, m, n) == \A i \in DOMAIN S : \E j \in m .. n : S[i] \in ToSet(s[j])

ThreeLists(S, a, b, c) == a \in Seq(S) /\ b \in Seq(S) /\ c \in Seq(S)

LEMMA Associate ==
  ASSUME NEW S, NEW a, NEW b, NEW c, ThreeLists(S, a, b, c)
  PROVE  (a \o b) \o c = a \o (b \o c)
<1>1. a \in Seq(S) /\ b \in Seq(S) /\ c \in Seq(S)
  BY DEF ThreeLists
<1>2. QED
  BY <1>1, ConcatAssociative

\* Two concatenations that differ in the list of one place have the same before
\* and behind it.
DifferAt(S, n, p, s, s2) ==
  /\ \A i \in 1 .. n : s[i] \in Seq(S) /\ s2[i] \in Seq(S)
  /\ \A i \in 1 .. n : i # p => s2[i] = s[i]

SplitAt(S, n, p, s, s2, f, f2) ==
  \E a, b \in Seq(S) :
    /\ f[n] = (a \o s[p]) \o b /\ f2[n] = (a \o s2[p]) \o b
    /\ Among(a, s, 1, p - 1) /\ Among(b, s, p + 1, n)

LEMMA OnePart ==
  ASSUME NEW S, NEW n \in Nat, NEW s, NEW s2, NEW p \in 1 .. n, DifferAt(S, n, p, s, s2),
         NEW f, IsFlat(f, s, n), NEW f2, IsFlat(f2, s2, n)
  PROVE  SplitAt(S, n, p, s, s2, f, f2)
<1> DEFINE Split(m) == \E a, b \in Seq(S) :
              /\ f[m] = (a \o s[p]) \o b /\ f2[m] = (a \o s2[p]) \o b
              /\ Among(a, s, 1, p - 1) /\ Among(b, s, p + 1, m)
           Same(m) == f[m] \in Seq(S) /\ f2[m] = f[m] /\ Among(f[m], s, 1, m)
           Bad == {m \in Nat : m \in 1 .. n /\ ~(IF m < p THEN Same(m) ELSE Split(m))}
           m == primap_search(Bad)
<1>1. /\ \A i \in 1 .. n : f[i] = IF i = 1 THEN s[i] ELSE f[i - 1] \o s[i]
      /\ \A i \in 1 .. n : f2[i] = IF i = 1 THEN s2[i] ELSE f2[i - 1] \o s2[i]
  BY DEF IsFlat
<1>2. p \in Nat /\ p >= 1 /\ p <= n
  OBVIOUS
<1>3. /\ \A i \in 1 .. n : s[i] \in Seq(S) /\ s2[i] \in Seq(S)
      /\ \A i \in 1 .. n : i # p => s2[i] = s[i]
  BY DEF DifferAt
<1>4. SUFFICES Bad = {}
  <2>1. n \in Nat /\ n \in 1 .. n /\ ~(n < p)
    BY <1>2
  <2>2. Split(n)
    BY <2>1
  <2>3. QED
    BY <2>2 DEF SplitAt
<1>5. SUFFICES ASSUME Bad # {} PROVE FALSE
  OBVIOUS
<1>6. m \in Bad /\ \A j \in Bad : m <= j
  <2> HIDE DEF Same, Split
  <2>1. QED
    BY <1>5, SearchFindsMinimum
<1> HIDE DEF m
<1>7. m \in Nat /\ m \in 1 .. n /\ ~(IF m < p THEN Same(m) ELSE Split(m))
  BY <1>6
<1>8. m > 1 => m - 1 \in 1 .. n /\ (IF m - 1 < p THEN Same(m - 1) ELSE Split(m - 1))
  <2> HIDE DEF Same, Split
  <2>1. m > 1 => m - 1 \in 1 .. n /\ m - 1 \in Nat /\ ~(m <= m - 1)
    BY <1>7
  <2>2. QED
    BY <1>6, <2>1
<1>9. s[m] \in Seq(S) /\ s2[m] \in Seq(S) /\ (m # p => s2[m] = s[m])
  BY <1>3, <1>7
<1>10. ASSUME NEW x, NEW lo \in Nat, NEW hi \in Nat, Among(x, s, lo, hi), x \in Seq(S),
             hi + 1 \in 1 .. n, lo <= hi + 1
      PROVE  Among(x \o s[hi + 1], s, lo, hi + 1)
  <2> DEFINE q == s[hi + 1]
             y == x \o q
  <2>1. q \in Seq(S)
    BY <1>3, <1>10
  <2> HIDE DEF q
  <2>2. /\ y \in Seq(S) /\ Len(y) = Len(x) + Len(q)
        /\ \A i \in 1 .. Len(x) + Len(q) : y[i] = IF i <= Len(x) THEN x[i] ELSE q[i - Len(x)]
    BY <1>10, <2>1, ConcatProperties
  <2> HIDE DEF y
  <2>3. ASSUME NEW i \in DOMAIN y PROVE \E j \in lo .. hi + 1 : y[i] \in ToSet(s[j])
    <3>1. i \in 1 .. Len(x) + Len(q) /\ Len(x) \in Nat /\ Len(q) \in Nat
      BY <1>10, <2>1, <2>2
    <3>2. CASE i <= Len(x)
      <4>1. i \in DOMAIN x /\ y[i] = x[i]
        BY <1>10, <2>2, <3>1, <3>2
      <4>2. PICK j \in lo .. hi : x[i] \in ToSet(s[j])
        BY <1>10, <4>1 DEF Among
      <4>3. j \in lo .. hi + 1
        BY <1>10
      <4>4. QED
        BY <4>1, <4>2, <4>3
    <3>3. CASE ~(i <= Len(x))
      <4>1. i - Len(x) \in DOMAIN q /\ y[i] = q[i - Len(x)]
        BY <2>1, <2>2, <3>1, <3>3
      <4>2. y[i] \in ToSet(q)
        BY <4>1 DEF ToSet
      <4>3. hi + 1 \in lo .. hi + 1
        BY <1>10
      <4>4. QED
        BY <4>2, <4>3 DEF q
    <3>4. QED
      BY <3>2, <3>3
  <2>4. QED
    BY <2>3 DEF Among, y, q
<1>11. Among(<< >>, s, 1, 0) /\ \A i \in Nat, j \in Nat : Among(<< >>, s, i, j)
  BY DEF Among
<1>12. CASE m < p
  <2>1. CASE m = 1
    <3>1. f[m] = s[1] /\ f2[m] = s2[1] /\ f2[m] = f[m]
      BY <1>1, <1>7, <1>9, <1>12, <2>1
    <3>2. Among(<< >> \o s[0 + 1], s, 1, 0 + 1)
      <4>1. 0 \in Nat /\ 1 \in Nat /\ 0 + 1 \in 1 .. n /\ 1 <= 0 + 1 /\ << >> \in Seq(S)
        BY <1>2
      <4>2. QED
        BY <1>10, <1>11, <4>1
    <3>3. << >> \o s[1] = s[1]
      BY <1>9, <2>1, ConcatEmptySeq
    <3>4. QED
      BY <1>7, <1>9, <1>12, <2>1, <3>1, <3>2, <3>3
  <2>2. CASE m # 1
    <3>1. m > 1 /\ m - 1 \in Nat /\ (m - 1) + 1 = m /\ m - 1 < p /\ 1 <= (m - 1) + 1
      BY <1>2, <1>7, <1>12, <2>2
    <3>2. Same(m - 1)
      BY <1>8, <3>1
    <3>3. f[m] = f[m - 1] \o s[m] /\ f2[m] = f2[m - 1] \o s2[m]
      BY <1>1, <1>7, <2>2
    <3>4. Among(f[m - 1] \o s[(m - 1) + 1], s, 1, (m - 1) + 1)
      BY <1>7, <1>10, <3>1, <3>2
    <3>5. f[m] \in Seq(S)
      BY <1>9, <3>2, <3>3, ConcatProperties
    <3>6. f2[m] = f[m] /\ Among(f[m], s, 1, m)
      <4>1. s2[m] = s[m] /\ f2[m - 1] = f[m - 1]
        BY <1>2, <1>9, <1>12, <3>2
      <4>2. QED
        BY <3>1, <3>3, <3>4, <4>1
    <3>7. QED
      BY <1>7, <1>12, <3>5, <3>6
  <2>3. QED
    BY <2>1, <2>2
<1>13. CASE m = p
  <2>1. PICK a \in Seq(S) : f[m] = a \o s[m] /\ f2[m] = a \o s2[m] /\ Among(a, s, 1, p - 1)
    <3>1. CASE m = 1
      <4>1. f[m] = s[m] /\ f2[m] = s2[m]
        BY <1>1, <1>7, <3>1
      <4>2. << >> \o s[m] = s[m] /\ << >> \o s2[m] = s2[m] /\ << >> \in Seq(S)
        BY <1>9, ConcatEmptySeq
      <4>3. p - 1 = 0
        BY <1>2, <1>13, <3>1
      <4>4. Among(<< >>, s, 1, p - 1)
        BY <1>11, <4>3
      <4>5. QED
        BY <4>1, <4>2, <4>4
    <3>2. CASE m # 1
      <4>1. m > 1 /\ m - 1 < p
        BY <1>2, <1>7, <1>13, <3>2
      <4>2. Same(m - 1)
        BY <1>8, <4>1
      <4>3. f[m] = f[m - 1] \o s[m] /\ f2[m] = f2[m - 1] \o s2[m]
        BY <1>1, <1>7, <3>2
      <4>4. QED
        BY <1>13, <4>2, <4>3
    <3>3. QED
      BY <3>1, <3>2
  <2>2. a \o s[m] \in Seq(S) /\ a \o s2[m] \in Seq(S)
    BY <1>9, ConcatProperties
  <2>3. f[m] = (a \o s[p]) \o << >> /\ f2[m] = (a \o s2[p]) \o << >>
    BY <1>13, <2>1, <2>2, ConcatEmptySeq
  <2>4. Among(<< >>, s, p + 1, m) /\ << >> \in Seq(S)
    BY <1>2, <1>7, <1>11
  <2>5. Split(m)
    BY <2>1, <2>3, <2>4
  <2>6. ~(m < p)
    BY <1>2, <1>13
  <2> HIDE DEF Same, Split
  <2>7. QED
    BY <1>7, <2>5, <2>6
<1>14. CASE m > p
  <2>1. m > 1 /\ ~(m - 1 < p) /\ m - 1 \in Nat /\ (m - 1) + 1 = m /\ p + 1 <= (m - 1) + 1 /\ p + 1 \in Nat
    BY <1>2, <1>7, <1>14
  <2>2. Split(m - 1)
    BY <1>8, <2>1
  <2>3. PICK a \in Seq(S), b \in Seq(S) :
              /\ f[m - 1] = (a \o s[p]) \o b /\ f2[m - 1] = (a \o s2[p]) \o b
              /\ Among(a, s, 1, p - 1) /\ Among(b, s, p + 1, m - 1)
    BY <2>2
  <2>4. f[m] = f[m - 1] \o s[m] /\ f2[m] = f2[m - 1] \o s[m]
    <3>1. m # 1 /\ m # p
      BY <1>2, <1>7, <1>14
    <3>2. f[m] = f[m - 1] \o s[m] /\ f2[m] = f2[m - 1] \o s2[m]
      BY <1>1, <1>7, <3>1
    <3>3. QED
      BY <1>9, <3>1, <3>2
  <2>5. s[p] \in Seq(S) /\ s2[p] \in Seq(S)
    BY <1>3
  <2>6. a \o s[p] \in Seq(S) /\ a \o s2[p] \in Seq(S) /\ b \o s[m] \in Seq(S)
    BY <1>9, <2>5, ConcatProperties
  <2>7. /\ f[m] = (a \o s[p]) \o (b \o s[m])
        /\ f2[m] = (a \o s2[p]) \o (b \o s[m])
    <3>1. s[m] \in Seq(S) /\ a \in Seq(S) /\ b \in Seq(S)
      BY <1>9, <2>3
    <3> DEFINE c == s[m]
               d == a \o s[p]
               d2 == a \o s2[p]
    <3>2. ThreeLists(S, d, b, c) /\ ThreeLists(S, d2, b, c)
      BY <2>6, <3>1 DEF ThreeLists
    <3> HIDE DEF c, d, d2
    <3>3. (d \o b) \o c = d \o (b \o c) /\ (d2 \o b) \o c = d2 \o (b \o c)
      BY SMTT(60), <3>2, Associate
    <3>4. f[m] = (a \o s[p]) \o (b \o s[m])
      BY <2>3, <2>4, <3>3 DEF c, d
    <3>5. f2[m] = (a \o s2[p]) \o (b \o s[m])
      BY <2>3, <2>4, <3>3 DEF c, d2
    <3>6. QED
      BY <3>4, <3>5
  <2>8. Among(b \o s[(m - 1) + 1], s, p + 1, (m - 1) + 1)
    BY <1>7, <1>10, <2>1, <2>3
  <2>9. Split(m)
    BY <2>1, <2>3, <2>6, <2>7, <2>8
  <2>10. ~(m < p)
    BY <1>2, <1>7, <1>14
  <2> HIDE DEF Same, Split
  <2>11. QED
    BY <1>7, <2>9, <2>10
<1>15. QED
  BY <1>2, <1>7, <1>12, <1>13, <1>14

LEMMA FlattenIs ==
  ASSUME NEW s, NEW n \in Nat, Len(s) = n, n # 0
  PROVE  \E f : IsFlat(f, s, n) /\ FlattenSeq(s) = f[n]
<1> DEFINE f == CHOOSE g : IsFlat(g, s, Len(s))
<1>1. IsFlat(f, s, Len(s))
  BY FlatExists
<1>2. Len(s) # 0
  OBVIOUS
<1>3. FlattenSeq(s) = f[Len(s)]
  BY <1>2, Zenon DEF FlattenSeq, IsFlat
<1> HIDE DEF f
<1>4. QED
  BY <1>1, <1>3

\* The lists of a ready queue, one after another, in the order of the priorities.
Order(qs) == FlattenSeq([n \in 1 .. MaxPri + 1 |-> qs[n - 1]])

\* No list holds a task of another priority.
Ordered(qs, prio) == \A p \in Pri : \A t \in ToSet(qs[p]) : prio[t] = p

\* Two orders that differ in one list: the tasks before it have a higher priority,
\* those behind it a lower one.
Split(qs, p, prio, a, b) ==
  /\ Order(qs) = (a \o qs[p]) \o b
  /\ \A i \in DOMAIN a : \E r \in Pri : r < p /\ a[i] \in ToSet(qs[r]) /\ prio[a[i]] = r
  /\ \A i \in DOMAIN b : \E r \in Pri : p < r /\ b[i] \in ToSet(qs[r]) /\ prio[b[i]] = r

SplitsWith(qs, p, prio, q, qs2) ==
  \E a, b \in Seq(Task) : Split(qs, p, prio, a, b) /\ Order(qs2) = (a \o q) \o b

LEMMA OrderSplit ==
  ASSUME NEW qs \in [Pri -> Seq(Task)], NEW p \in Pri, NEW q \in Seq(Task),
         NEW prio, Ordered(qs, prio)
  PROVE  SplitsWith(qs, p, prio, q, [qs EXCEPT ![p] = q])
<1> DEFINE n == MaxPri + 1
           qs2 == [qs EXCEPT ![p] = q]
           s == [i \in 1 .. n |-> qs[i - 1]]
           s2 == [i \in 1 .. n |-> qs2[i - 1]]
<1>1. n \in Nat /\ n # 0 /\ p \in Nat /\ p + 1 \in 1 .. n /\ (p + 1) - 1 = p
  BY MaxPriAssumption DEF Pri
<1>2. \A i \in 1 .. n : i - 1 \in Pri /\ (i # p + 1 => i - 1 # p)
  BY MaxPriAssumption DEF Pri
<1>3. /\ qs2 \in [Pri -> Seq(Task)] /\ qs2[p] = q
      /\ \A r \in Pri : r # p => qs2[r] = qs[r]
  OBVIOUS
<1> HIDE DEF qs2
<1>4. Order(qs) = FlattenSeq(s) /\ Order(qs2) = FlattenSeq(s2)
  BY DEF Order
<1>5. \A i \in 1 .. n : s[i] = qs[i - 1] /\ s2[i] = qs2[i - 1]
  OBVIOUS
<1>6. Len(s) = n /\ Len(s2) = n
  BY <1>1
<1> HIDE DEF s, s2, n
<1>7. PICK f : IsFlat(f, s, n) /\ FlattenSeq(s) = f[n]
  BY <1>1, <1>6, FlattenIs
<1>8. PICK f2 : IsFlat(f2, s2, n) /\ FlattenSeq(s2) = f2[n]
  BY <1>1, <1>6, FlattenIs
<1>9. \A i \in 1 .. n : s[i] \in Seq(Task) /\ s2[i] \in Seq(Task)
  BY <1>2, <1>3, <1>5
<1>10. \A i \in 1 .. n : i # p + 1 => s2[i] = s[i]
  BY <1>2, <1>3, <1>5
<1>11. PICK a \in Seq(Task), b \in Seq(Task) :
         /\ f[n] = (a \o s[p + 1]) \o b /\ f2[n] = (a \o s2[p + 1]) \o b
         /\ Among(a, s, 1, (p + 1) - 1) /\ Among(b, s, (p + 1) + 1, n)
  <2> DEFINE k == p + 1
  <2>1. n \in Nat /\ k \in 1 .. n
    BY <1>1
  <2>2. DifferAt(Task, n, k, s, s2)
    BY <1>9, <1>10 DEF DifferAt
  <2>3. IsFlat(f, s, n) /\ IsFlat(f2, s2, n)
    BY <1>7, <1>8
  <2> HIDE DEF k
  <2>4. SplitAt(Task, n, k, s, s2, f, f2)
    BY <2>1, <2>2, <2>3, OnePart
  <2>5. QED
    BY <2>4 DEF SplitAt, k
<1>12. s[p + 1] = qs[p] /\ s2[p + 1] = q
  BY <1>1, <1>3, <1>5
<1>13. Order(qs) = (a \o qs[p]) \o b /\ Order(qs2) = (a \o q) \o b
  BY <1>4, <1>7, <1>8, <1>11, <1>12
<1>14. ASSUME NEW i \in DOMAIN a
       PROVE  \E r \in Pri : r < p /\ a[i] \in ToSet(qs[r]) /\ prio[a[i]] = r
  <2>1. PICK j \in 1 .. (p + 1) - 1 : a[i] \in ToSet(s[j])
    BY <1>11 DEF Among
  <2>2. j - 1 \in Pri /\ j - 1 < p /\ s[j] = qs[j - 1]
    BY <1>1, <1>2, <1>5
  <2>3. QED
    BY <2>1, <2>2 DEF Ordered
<1>15. ASSUME NEW i \in DOMAIN b
       PROVE  \E r \in Pri : p < r /\ b[i] \in ToSet(qs[r]) /\ prio[b[i]] = r
  <2>1. PICK j \in (p + 1) + 1 .. n : b[i] \in ToSet(s[j])
    BY <1>11 DEF Among
  <2>2. j - 1 \in Pri /\ p < j - 1 /\ s[j] = qs[j - 1]
    BY <1>1, <1>2, <1>5
  <2>3. QED
    BY <2>1, <2>2 DEF Ordered
<1>16. QED
  BY <1>13, <1>14, <1>15 DEF Split, SplitsWith, qs2

\* The entries before, in and behind the list of one place.
LEMMA SplitEntries ==
  ASSUME NEW S, NEW a \in Seq(S), NEW q \in Seq(S), NEW b \in Seq(S),
         NEW o, o = (a \o q) \o b
  PROVE  /\ o \in Seq(S) /\ Len(o) = Len(a) + Len(q) + Len(b)
         /\ \A j \in 1 .. Len(a) : o[j] = a[j]
         /\ \A j \in 1 .. Len(q) : o[Len(a) + j] = q[j]
         /\ \A j \in 1 .. Len(b) : o[Len(a) + Len(q) + j] = b[j]
<1> DEFINE c == a \o q
<1>1. /\ c \in Seq(S) /\ Len(c) = Len(a) + Len(q)
      /\ \A i \in 1 .. Len(a) + Len(q) : c[i] = IF i <= Len(a) THEN a[i] ELSE q[i - Len(a)]
  BY ConcatProperties
<1>2. o = c \o b
  OBVIOUS
<1> HIDE DEF c
<1>3. /\ o \in Seq(S) /\ Len(o) = Len(c) + Len(b)
      /\ \A i \in 1 .. Len(c) + Len(b) : o[i] = IF i <= Len(c) THEN c[i] ELSE b[i - Len(c)]
  <2>1. c \in Seq(S)
    BY <1>1
  <2>2. /\ c \o b \in Seq(S) /\ Len(c \o b) = Len(c) + Len(b)
        /\ \A i \in 1 .. Len(c) + Len(b) :
             (c \o b)[i] = IF i <= Len(c) THEN c[i] ELSE b[i - Len(c)]
    BY <2>1, ConcatProperties
  <2>3. QED
    BY <1>2, <2>2
<1>4. Len(a) \in Nat /\ Len(q) \in Nat /\ Len(b) \in Nat
  OBVIOUS
<1>5. ASSUME NEW j \in 1 .. Len(a) PROVE o[j] = a[j]
  BY <1>1, <1>3, <1>4
<1>6. ASSUME NEW j \in 1 .. Len(q) PROVE o[Len(a) + j] = q[j]
  <2>1. /\ Len(a) + j \in 1 .. Len(a) + Len(q) /\ ~(Len(a) + j <= Len(a))
        /\ (Len(a) + j) - Len(a) = j
    BY <1>4
  <2>2. o[Len(a) + j] = c[Len(a) + j]
    BY <1>1, <1>3, <1>4, <2>1
  <2>3. QED
    BY <1>1, <2>1, <2>2
<1>7. ASSUME NEW j \in 1 .. Len(b) PROVE o[Len(a) + Len(q) + j] = b[j]
  <2>1. /\ Len(a) + Len(q) + j \in 1 .. Len(c) + Len(b) /\ ~(Len(a) + Len(q) + j <= Len(c))
        /\ (Len(a) + Len(q) + j) - Len(c) = j
    BY <1>1, <1>4
  <2>2. QED
    BY <1>3, <2>1
<1>8. QED
  BY <1>1, <1>3, <1>4, <1>5, <1>6, <1>7

\* Where the tasks of a priority begin and end in the order.
LEMMA SplitPlaces ==
  ASSUME NEW qs \in [Pri -> Seq(Task)], NEW p \in Pri, NEW prio, Ordered(qs, prio),
         NEW a \in Seq(Task), NEW b \in Seq(Task), Split(qs, p, prio, a, b)
  PROVE  /\ Order(qs) \in Seq(Task)
         /\ Len(Order(qs)) = Len(a) + Len(qs[p]) + Len(b)
         /\ \A j \in DOMAIN Order(qs) :
              /\ j <= Len(a) <=> prio[Order(qs)[j]] < p
              /\ j <= Len(a) + Len(qs[p]) <=> prio[Order(qs)[j]] <= p
<1> DEFINE q == qs[p]
           o == Order(qs)
<1>1. q \in Seq(Task) /\ o = (a \o q) \o b
  BY DEF Split
<1>2. /\ \A i \in DOMAIN a : prio[a[i]] \in Pri /\ prio[a[i]] < p
      /\ \A i \in DOMAIN b : prio[b[i]] \in Pri /\ p < prio[b[i]]
  BY DEF Split
<1>3. \A i \in DOMAIN q : prio[q[i]] = p
  BY DEF Ordered, ToSet
<1>4. p \in Nat /\ \A r \in Pri : r \in Nat
  BY MaxPriAssumption DEF Pri
<1> HIDE DEF q, o
<1>5. /\ o \in Seq(Task) /\ Len(o) = Len(a) + Len(q) + Len(b)
      /\ \A j \in 1 .. Len(a) : o[j] = a[j]
      /\ \A j \in 1 .. Len(q) : o[Len(a) + j] = q[j]
      /\ \A j \in 1 .. Len(b) : o[Len(a) + Len(q) + j] = b[j]
  BY <1>1, SplitEntries
<1>6. Len(a) \in Nat /\ Len(q) \in Nat /\ Len(b) \in Nat
  BY <1>1
<1>7. ASSUME NEW j \in DOMAIN o
      PROVE  /\ j <= Len(a) <=> prio[o[j]] < p
             /\ j <= Len(a) + Len(q) <=> prio[o[j]] <= p
  <2>1. j \in Nat /\ j >= 1 /\ j <= Len(a) + Len(q) + Len(b)
    BY <1>5
  <2>2. CASE j <= Len(a)
    <3>1. j \in DOMAIN a /\ o[j] = a[j]
      BY <1>5, <1>6, <2>1, <2>2
    <3>2. prio[o[j]] \in Nat /\ prio[o[j]] < p
      BY <1>2, <1>4, <3>1
    <3>3. QED
      BY <1>4, <1>6, <2>1, <2>2, <3>2
  <2>3. CASE j > Len(a) /\ j <= Len(a) + Len(q)
    <3>1. j - Len(a) \in 1 .. Len(q) /\ Len(a) + (j - Len(a)) = j
      BY <1>6, <2>1, <2>3
    <3>2. o[j] = q[j - Len(a)] /\ j - Len(a) \in DOMAIN q
      BY <1>1, <1>5, <3>1
    <3>3. prio[o[j]] = p
      BY <1>3, <3>2
    <3>4. QED
      BY <1>4, <1>6, <2>1, <2>3, <3>3
  <2>4. CASE j > Len(a) + Len(q)
    <3>1. /\ j - (Len(a) + Len(q)) \in 1 .. Len(b)
          /\ Len(a) + Len(q) + (j - (Len(a) + Len(q))) = j
      BY <1>6, <2>1, <2>4
    <3>2. o[j] = b[j - (Len(a) + Len(q))] /\ j - (Len(a) + Len(q)) \in DOMAIN b
      BY <1>5, <3>1
    <3>3. prio[o[j]] \in Nat /\ p < prio[o[j]]
      BY <1>2, <1>4, <3>2
    <3>4. QED
      BY <1>4, <1>6, <2>1, <2>4, <3>3
  <2>5. QED
    BY <1>6, <2>1, <2>2, <2>3, <2>4
<1>8. QED
  BY <1>5, <1>7 DEF o, q

\* Entering a list at its front.
LEMMA PrependIsInsert ==
  ASSUME NEW S, NEW q \in Seq(S), NEW t \in S
  PROVE  << t >> \o q = InsertAt(q, 1, t)
<1> DEFINE u == << t >>
           r == u \o q
           x == InsertAt(q, 1, t)
<1>1. u \in Seq(S) /\ Len(u) = 1 /\ u[1] = t
  OBVIOUS
<1> HIDE DEF u
<1>2. /\ r \in Seq(S) /\ Len(r) = Len(u) + Len(q)
      /\ \A i \in 1 .. Len(u) + Len(q) : r[i] = IF i <= Len(u) THEN u[i] ELSE q[i - Len(u)]
  BY <1>1, ConcatProperties
<1>3. 1 \in 1 .. Len(q) + 1 /\ Len(q) \in Nat
  OBVIOUS
<1>4. /\ x \in Seq(S) /\ Len(x) = Len(q) + 1
      /\ \A i \in 1 .. Len(x) : x[i] = IF i < 1 THEN q[i] ELSE IF i = 1 THEN t ELSE q[i - 1]
  BY <1>3, InsertAtEntries
<1> HIDE DEF r, x
<1>5. ASSUME NEW i \in 1 .. Len(r) PROVE r[i] = x[i]
  <2>1. i \in 1 .. Len(u) + Len(q) /\ i \in 1 .. Len(x) /\ ~(i < 1) /\ (i <= Len(u) <=> i = 1)
    BY <1>1, <1>2, <1>3, <1>4
  <2>2. CASE i = 1
    BY <1>1, <1>2, <1>4, <2>1, <2>2
  <2>3. CASE i # 1
    BY <1>1, <1>2, <1>4, <2>1, <2>3
  <2>4. QED
    BY <2>2, <2>3
<1>6. r = x
  <2>1. Len(r) = Len(x)
    BY <1>1, <1>2, <1>3, <1>4
  <2>2. QED
    BY <1>2, <1>4, <1>5, <2>1, SeqEqual
<1>7. QED
  BY <1>6 DEF r, x, u

\* A task put at the end of the list of p goes behind all of priority p and higher.
LEMMA PutBehind ==
  ASSUME NEW qs \in [Pri -> Seq(Task)], NEW prio, Ordered(qs, prio),
         NEW p \in Pri, NEW t \in Task
  PROVE  Prec!Behind(Order(qs), prio, t, p, Order([qs EXCEPT ![p] = Append(@, t)]))
<1> DEFINE q == qs[p]
           r == Append(q, t)
           o == Order(qs)
           o2 == Order([qs EXCEPT ![p] = r])
<1>1. q \in Seq(Task) /\ r \in Seq(Task) /\ Len(q) + 1 \in 1 .. Len(q) + 1 /\ Len(q) \in Nat
  OBVIOUS
<1>2. r = InsertAt(q, Len(q) + 1, t)
  BY <1>1, AppendIsInsert
<1> HIDE DEF r
<1>3. PICK a \in Seq(Task), b \in Seq(Task) : Split(qs, p, prio, a, b) /\ o2 = (a \o r) \o b
  <2>1. r \in Seq(Task)
    BY <1>1
  <2>2. SplitsWith(qs, p, prio, r, [qs EXCEPT ![p] = r])
    BY <2>1, OrderSplit
  <2>3. QED
    BY <2>2 DEF SplitsWith
<1> HIDE DEF o2
<1>4. /\ Len(o) = Len(a) + Len(q) + Len(b)
      /\ \A j \in DOMAIN o : j <= Len(a) + Len(q) <=> prio[o[j]] <= p
      /\ o \in Seq(Task)
  BY <1>3, SplitPlaces
<1>5. o = (a \o q) \o b
  BY <1>3 DEF Split
<1> HIDE DEF q, o
<1> DEFINE n == Len(q) + 1
           i == Len(a) + n
<1>6. n \in 1 .. Len(q) + 1
  BY <1>1
<1> HIDE DEF n
<1>7. i \in 1 .. Len(o) + 1 /\ o2 = InsertAt(o, i, t)
  <2>1. q \in Seq(Task)
    BY <1>1
  <2>2. InsertsInside(a, q, b, n, t)
    BY <1>6, <2>1, InsertInside
  <2>3. QED
    BY <1>2, <1>3, <1>5, <2>2 DEF InsertsInside, n
<1>8. i = Len(a) + Len(q) + 1 /\ Len(a) \in Nat
  BY <1>1 DEF n
<1> HIDE DEF i
<1>9. \A j \in DOMAIN o : j < i <=> prio[o[j]] <= p
  <2> SUFFICES ASSUME NEW j \in DOMAIN o PROVE j < i <=> j <= Len(a) + Len(q)
    BY <1>4
  <2>1. j \in Nat
    BY <1>4
  <2>2. QED
    BY <1>1, <1>8, <2>1
<1>10. Prec!Behind(o, prio, t, p, o2)
  BY <1>7, <1>9, Zenon DEF Prec!Behind, Prec!InsertAt, InsertAt
<1>11. QED
  BY <1>10 DEF o, o2, r, q

\* A task put at the front of the list of p goes ahead of all of priority p and lower.
LEMMA PutAhead ==
  ASSUME NEW qs \in [Pri -> Seq(Task)], NEW prio, Ordered(qs, prio),
         NEW p \in Pri, NEW t \in Task
  PROVE  Prec!Ahead(Order(qs), prio, t, p, Order([qs EXCEPT ![p] = << t >> \o @]))
<1> DEFINE q == qs[p]
           r == << t >> \o q
           o == Order(qs)
           o2 == Order([qs EXCEPT ![p] = r])
<1>1. q \in Seq(Task) /\ r \in Seq(Task) /\ 1 \in 1 .. Len(q) + 1 /\ Len(q) \in Nat
  OBVIOUS
<1>2. r = InsertAt(q, 1, t)
  BY <1>1, PrependIsInsert
<1> HIDE DEF r
<1>3. PICK a \in Seq(Task), b \in Seq(Task) : Split(qs, p, prio, a, b) /\ o2 = (a \o r) \o b
  <2>1. r \in Seq(Task)
    BY <1>1
  <2>2. SplitsWith(qs, p, prio, r, [qs EXCEPT ![p] = r])
    BY <2>1, OrderSplit
  <2>3. QED
    BY <2>2 DEF SplitsWith
<1> HIDE DEF o2
<1>4. /\ Len(o) = Len(a) + Len(q) + Len(b)
      /\ \A j \in DOMAIN o : j <= Len(a) <=> prio[o[j]] < p
      /\ o \in Seq(Task)
  BY <1>3, SplitPlaces
<1>5. o = (a \o q) \o b
  BY <1>3 DEF Split
<1> HIDE DEF q, o
<1> DEFINE i == Len(a) + 1
<1>6. i \in 1 .. Len(o) + 1 /\ o2 = InsertAt(o, i, t)
  <2>1. q \in Seq(Task) /\ 1 \in 1 .. Len(q) + 1
    BY <1>1
  <2>2. InsertsInside(a, q, b, 1, t)
    BY <2>1, InsertInside
  <2>3. QED
    BY <1>2, <1>3, <1>5, <2>2 DEF InsertsInside
<1>7. i = Len(a) + 1 /\ Len(a) \in Nat
  OBVIOUS
<1> HIDE DEF i
<1>8. \A j \in DOMAIN o : j < i <=> prio[o[j]] < p
  <2> SUFFICES ASSUME NEW j \in DOMAIN o PROVE j < i <=> j <= Len(a)
    BY <1>4
  <2>1. j \in Nat
    BY <1>4
  <2>2. QED
    BY <1>1, <1>7, <2>1
<1>9. Prec!Ahead(o, prio, t, p, o2)
  BY <1>6, <1>8, Zenon DEF Prec!Ahead, Prec!InsertAt, InsertAt
<1>10. QED
  BY <1>9 DEF o, o2, r, q

\* A task unlinked from the list of p leaves the order; the first task of the list
\* is the first of the order with that priority.
TakenOut(qs, p, n, prio, qs2) ==
  \E i \in DOMAIN Order(qs) :
    /\ Order(qs)[i] = qs[p][n]
    /\ n = 1 => \A j \in 1 .. i - 1 : prio[Order(qs)[j]] # p
    /\ Order(qs2) = RemoveAt(Order(qs), i)

LEMMA TakeOut ==
  ASSUME NEW qs \in [Pri -> Seq(Task)], NEW prio, Ordered(qs, prio),
         NEW p \in Pri, NEW n \in 1 .. Len(qs[p])
  PROVE  TakenOut(qs, p, n, prio, [qs EXCEPT ![p] = RemoveAt(@, n)])
<1> DEFINE q == qs[p]
           r == RemoveAt(q, n)
           o == Order(qs)
           o2 == Order([qs EXCEPT ![p] = r])
<1>1. q \in Seq(Task) /\ n \in 1 .. Len(q)
  OBVIOUS
<1>2. r \in Seq(Task)
  BY <1>1, RemoveAtEntries
<1> HIDE DEF r
<1>3. PICK a \in Seq(Task), b \in Seq(Task) : Split(qs, p, prio, a, b) /\ o2 = (a \o r) \o b
  <2>1. SplitsWith(qs, p, prio, r, [qs EXCEPT ![p] = r])
    BY <1>2, OrderSplit
  <2>2. QED
    BY <2>1 DEF SplitsWith
<1> HIDE DEF o2
<1>4. /\ Len(o) = Len(a) + Len(q) + Len(b)
      /\ \A j \in DOMAIN o : j <= Len(a) <=> prio[o[j]] < p
      /\ o \in Seq(Task)
  BY <1>3, SplitPlaces
<1>5. o = (a \o q) \o b
  BY <1>3 DEF Split
<1> HIDE DEF q, o
<1> DEFINE i == Len(a) + n
<1>6. i \in DOMAIN o /\ o[i] = q[n] /\ o2 = RemoveAt(o, i)
  <2>1. RemovesInside(a, q, b, n)
    BY <1>1, RemoveInside
  <2>2. QED
    BY <1>3, <1>4, <1>5, <2>1 DEF RemovesInside, r
<1>7. ASSUME n = 1, NEW j \in 1 .. i - 1 PROVE prio[o[j]] # p
  <2>1. j \in DOMAIN o /\ j <= Len(a)
    BY <1>4, <1>6, <1>7
  <2>2. prio[o[j]] < p
    BY <1>4, <2>1
  <2>3. ~(p < p)
    BY MaxPriAssumption DEF Pri
  <2>4. QED
    BY <2>2, <2>3
<1> HIDE DEF i
<1>8. TakenOut(qs, p, n, prio, [qs EXCEPT ![p] = r])
  BY <1>6, <1>7 DEF TakenOut, o, o2, q
<1>9. QED
  BY <1>8 DEF r, q

\* The order holds the tasks that are in one of the lists.
LEMMA OrderEntries ==
  ASSUME NEW qs \in [Pri -> Seq(Task)], NEW prio, Ordered(qs, prio), NEW t
  PROVE  t \in ToSet(Order(qs)) <=> \E p \in Pri : t \in ToSet(qs[p])
<1> DEFINE o == Order(qs)
<1>1. ASSUME NEW p \in Pri
      PROVE  \E a, b \in Seq(Task) : Split(qs, p, prio, a, b)
  <2>1. qs[p] \in Seq(Task)
    OBVIOUS
  <2>2. SplitsWith(qs, p, prio, qs[p], [qs EXCEPT ![p] = qs[p]])
    BY <2>1, OrderSplit
  <2>3. QED
    BY <2>2 DEF SplitsWith
<1>2. ASSUME NEW p \in Pri, t \in ToSet(qs[p]) PROVE t \in ToSet(o)
  <2>1. PICK a \in Seq(Task), b \in Seq(Task) : Split(qs, p, prio, a, b)
    BY <1>1
  <2> DEFINE q == qs[p]
  <2>2. q \in Seq(Task) /\ o = (a \o q) \o b
    BY <2>1 DEF Split
  <2> HIDE DEF o
  <2>3. t \in ToSet(q)
    BY <1>2
  <2> HIDE DEF q
  <2>4. PICK j \in 1 .. Len(q) : q[j] = t
    BY <2>2, <2>3 DEF ToSet
  <2>5. /\ o \in Seq(Task) /\ Len(o) = Len(a) + Len(q) + Len(b)
        /\ \A k \in 1 .. Len(q) : o[Len(a) + k] = q[k]
    BY <2>2, SplitEntries
  <2>6. o[Len(a) + j] = t /\ Len(a) + j \in DOMAIN o
    BY <2>2, <2>4, <2>5
  <2>7. QED
    BY <2>6 DEF ToSet
<1>3. ASSUME t \in ToSet(o) PROVE \E p \in Pri : t \in ToSet(qs[p])
  <2>1. 0 \in Pri
    BY MaxPriAssumption DEF Pri
  <2>2. PICK a \in Seq(Task), b \in Seq(Task) : Split(qs, 0, prio, a, b)
    BY <1>1, <2>1
  <2> DEFINE q == qs[0]
  <2>3. q \in Seq(Task) /\ o = (a \o q) \o b
    BY <2>1, <2>2 DEF Split
  <2> HIDE DEF o
  <2>4. PICK i \in DOMAIN o : o[i] = t
    BY <1>3 DEF ToSet
  <2> HIDE DEF q
  <2>5. /\ o \in Seq(Task) /\ Len(o) = Len(a) + Len(q) + Len(b)
        /\ \A j \in 1 .. Len(a) : o[j] = a[j]
        /\ \A j \in 1 .. Len(q) : o[Len(a) + j] = q[j]
        /\ \A j \in 1 .. Len(b) : o[Len(a) + Len(q) + j] = b[j]
    BY <2>3, SplitEntries
  <2>6. i \in Nat /\ Len(a) \in Nat /\ Len(q) \in Nat /\ Len(b) \in Nat
    BY <2>3, <2>5
  <2>7. CASE i <= Len(a)
    <3>1. i \in DOMAIN a /\ a[i] = t
      BY <2>4, <2>5, <2>6, <2>7
    <3>2. QED
      BY <2>2, <3>1 DEF Split
  <2>8. CASE i > Len(a) /\ i <= Len(a) + Len(q)
    <3>1. i - Len(a) \in 1 .. Len(q) /\ Len(a) + (i - Len(a)) = i
      BY <2>6, <2>8
    <3>2. q[i - Len(a)] = t /\ i - Len(a) \in DOMAIN q
      BY <2>3, <2>4, <2>5, <3>1
    <3>3. t \in ToSet(q)
      BY <3>2 DEF ToSet
    <3>4. QED
      BY <2>1, <3>3 DEF q
  <2>9. CASE i > Len(a) + Len(q)
    <3>1. /\ i - (Len(a) + Len(q)) \in 1 .. Len(b)
          /\ Len(a) + Len(q) + (i - (Len(a) + Len(q))) = i
      BY <2>5, <2>6, <2>9
    <3>2. b[i - (Len(a) + Len(q))] = t /\ i - (Len(a) + Len(q)) \in DOMAIN b
      BY <2>4, <2>5, <3>1
    <3>3. QED
      BY <2>2, <3>2 DEF Split
  <2>10. QED
    BY <2>6, <2>7, <2>8, <2>9
<1>4. QED
  BY <1>2, <1>3

\* p_schedtsk is the head of the order.
LEMMA OrderHead ==
  ASSUME NEW r \in ReadyQueueType, NEW ready \in SUBSET Task, ReadyQueueInv(r, ready)
  PROVE  /\ r.ready_queue \in [Pri -> Seq(Task)] /\ Ordered(r.ready_queue, r.priority)
         /\ Order(r.ready_queue) \in Seq(Task)
         /\ r.schedtsk = Prec!First(Order(r.ready_queue))
<1> DEFINE qs == r.ready_queue
           o == Order(qs)
           top == r.schedtsk
<1>1. /\ qs \in [Pri -> Seq(Task)] /\ r.priority \in [Task -> Pri]
      /\ r.ready_primap \in SUBSET Pri /\ top \in Task \cup {NoTask}
  BY DEF ReadyQueueType
<1>2. Ordered(qs, r.priority)
  <2> SUFFICES ASSUME NEW p \in Pri, NEW t \in ToSet(qs[p]) PROVE r.priority[t] = p
    BY DEF Ordered
  <2>1. t \in Task
    BY <1>1 DEF ToSet
  <2>2. QED
    BY <2>1 DEF ReadyQueueInv, QueuedWhereRunnable
<1>3. \A p \in Pri : p \in r.ready_primap <=> qs[p] # << >>
  BY DEF ReadyQueueInv, PrimapExact
<1>4. o \in Seq(Task)
  <2>1. 0 \in Pri
    BY MaxPriAssumption DEF Pri
  <2>2. qs[0] \in Seq(Task)
    BY <1>1, <2>1
  <2>3. SplitsWith(qs, 0, r.priority, qs[0], [qs EXCEPT ![0] = qs[0]])
    BY <1>1, <1>2, <2>1, <2>2, OrderSplit
  <2>4. PICK a \in Seq(Task), b \in Seq(Task) : Split(qs, 0, r.priority, a, b)
    BY <2>3 DEF SplitsWith
  <2>5. QED
    BY <1>1, <1>2, <2>1, <2>4, SplitPlaces
<1>5. CASE top = NoTask
  <2>1. r.ready_primap = {}
    BY <1>5 DEF ReadyQueueInv, SchedtskIsFirst
  <2>2. \A p \in Pri : qs[p] = << >>
    BY <1>3, <2>1
  <2>3. \A p \in Pri, t \in Task : t \notin ToSet(qs[p])
    BY <2>2 DEF ToSet
  <2>4. ASSUME o # << >> PROVE FALSE
    <3>1. Head(o) \in ToSet(o) /\ Head(o) \in Task
      BY <1>4, <2>4, HeadIsEntry
    <3>2. \E p \in Pri : Head(o) \in ToSet(qs[p])
      BY <1>1, <1>2, <3>1, OrderEntries
    <3>3. QED
      BY <2>3, <3>1, <3>2
  <2>5. QED
    BY <1>1, <1>2, <1>4, <1>5, <2>4, Zenon DEF Prec!First
<1>6. CASE top # NoTask
  <2> DEFINE p == r.priority[top]
             q == qs[p]
  <2>1. p \in Pri /\ q \in Seq(Task)
    BY <1>1, <1>6
  <2>2. q # << >> /\ top = Head(q) /\ \A x \in r.ready_primap : p <= x
    BY <1>6 DEF ReadyQueueInv, SchedtskIsFirst
  <2>3. SplitsWith(qs, p, r.priority, q, [qs EXCEPT ![p] = q])
    BY <1>1, <1>2, <2>1, OrderSplit
  <2>4. PICK a \in Seq(Task), b \in Seq(Task) : Split(qs, p, r.priority, a, b)
    BY <2>3 DEF SplitsWith
  <2>5. o = (a \o q) \o b
    BY <2>4 DEF Split
  <2>6. a = << >>
    <3> SUFFICES ASSUME a # << >> PROVE FALSE
      OBVIOUS
    <3>1. 1 \in DOMAIN a
      OBVIOUS
    <3>2. PICK x \in Pri : x < p /\ a[1] \in ToSet(qs[x])
      BY <2>4, <3>1 DEF Split
    <3>3. qs[x] # << >>
      BY <3>2 DEF ToSet
    <3>4. p <= x
      BY <1>3, <2>2, <3>3
    <3>5. p \in Nat /\ x \in Nat
      BY <2>1, MaxPriAssumption DEF Pri
    <3>6. QED
      BY <3>2, <3>4, <3>5
  <2> HIDE DEF o, q, top, p, qs
  <2>7. /\ Len(o) = Len(a) + Len(q) + Len(b)
        /\ \A j \in 1 .. Len(q) : o[Len(a) + j] = q[j]
    BY <2>1, <2>5, SplitEntries
  <2>8. 1 \in 1 .. Len(q) /\ Head(q) = q[1] /\ Len(a) = 0 /\ Len(b) \in Nat
    BY <2>1, <2>2, <2>6
  <2>9. o[1] = q[1] /\ o # << >>
    <3>1. o[Len(a) + 1] = q[1] /\ Len(a) + 1 = 1 /\ Len(o) # 0
      BY <2>1, <2>7, <2>8
    <3>2. QED
      BY <3>1
  <2>10. Head(o) = top
    BY <1>4, <2>2, <2>8, <2>9
  <2>11. top = Prec!First(o)
    BY <2>9, <2>10, Zenon DEF Prec!First
  <2>12. QED
    BY <1>1, <1>2, <1>4, <2>11 DEF top, o, qs
<1>7. QED
  BY <1>5, <1>6

-----------------------------------------------------------------------------
(***************************************************************************)
(* Each function of task.c is an operation on the order.                   *)
(***************************************************************************)
Lists == rq.ready_queue

LEMMA Mapped ==
  ASSUME TypeOK, ReadyQueueOK
  PROVE  /\ rq \in ReadyQueueType /\ ReadyQueueInv(rq, runnable)
         /\ Lists \in [Pri -> Seq(Task)] /\ rq.priority \in [Task -> Pri]
         /\ Ordered(Lists, rq.priority)
         /\ Concatenated = Order(Lists) /\ Concatenated \in Seq(Task)
         /\ \A t \in Task : t \in ToSet(Concatenated) <=> t \in runnable
<1>1. rq \in ReadyQueueType /\ ReadyQueueInv(rq, runnable) /\ runnable \in SUBSET Task
  BY DEF TypeOK, ReadyQueueOK
<1>2. Lists \in [Pri -> Seq(Task)] /\ Ordered(Lists, rq.priority) /\ Order(Lists) \in Seq(Task)
  BY <1>1, OrderHead DEF Lists
<1>3. rq.priority \in [Task -> Pri]
  BY <1>1 DEF ReadyQueueType
<1>4. Concatenated = Order(Lists)
  BY DEF Concatenated, Order, Lists
<1>5. ASSUME NEW t \in Task PROVE t \in ToSet(Order(Lists)) <=> t \in runnable
  <2>1. \A p \in Pri : t \in ToSet(Lists[p]) <=> t \in runnable /\ p = rq.priority[t]
    BY <1>1 DEF ReadyQueueInv, QueuedWhereRunnable, Lists
  <2>2. rq.priority[t] \in Pri
    BY <1>3
  <2>3. QED
    BY <1>2, <2>1, <2>2, OrderEntries
<1>6. QED
  BY <1>1, <1>2, <1>3, <1>4, <1>5

LEMMA MappedAfter == Concatenated' = Order(rq'.ready_queue)
  BY DEF Concatenated, Order

LEMMA EnterStep ==
  ASSUME TypeOK, ReadyQueueOK, NEW t \in Task, MakeRunnable(t)
  PROVE  Prec!Enter(t)
<1> DEFINE p == rq.priority[t]
           qs2 == [Lists EXCEPT ![p] = Append(@, t)]
<1>1. /\ rq \in ReadyQueueType /\ Lists \in [Pri -> Seq(Task)] /\ p \in Pri
      /\ Ordered(Lists, rq.priority) /\ Concatenated = Order(Lists)
  BY Mapped
<1>2. t \notin ToSet(Concatenated) /\ rq' = make_runnable(rq, t)
  BY Mapped DEF MakeRunnable
<1>3. rq'.ready_queue = qs2 /\ rq'.priority = rq.priority
  BY <1>1, <1>2 DEF make_runnable, ReadyQueueType, Lists
<1>4. Prec!Behind(Order(Lists), rq.priority, t, p, Order(qs2))
  BY <1>1, PutBehind
<1>5. Concatenated' = Order(qs2)
  BY <1>3, MappedAfter
<1>6. Prec!Behind(Concatenated, rq.priority, t, rq.priority[t], Concatenated')
  BY <1>1, <1>4, <1>5
<1>7. t \notin Prec!ToSet(Concatenated)
  BY <1>2 DEF Prec!ToSet, ToSet
<1>8. (rq.priority)' = rq.priority
  BY <1>3
<1>9. QED
  BY <1>6, <1>7, <1>8 DEF Prec!Enter

\* Unlinking t from the list of its priority.
LEMMA Unlink ==
  ASSUME TypeOK, ReadyQueueOK, NEW t \in runnable
  PROVE  LET p    == rq.priority[t]
             left == queue_delete(Lists[p], t)
             qs2  == [Lists EXCEPT ![p] = left]
         IN  /\ t \in Task /\ p \in Pri /\ t \in ToSet(Lists[p])
             /\ qs2 \in [Pri -> Seq(Task)] /\ Ordered(qs2, rq.priority)
             /\ \E i \in DOMAIN Concatenated : /\ Concatenated[i] = t
                                               /\ Order(qs2) = RemoveAt(Concatenated, i)
<1> DEFINE p    == rq.priority[t]
           q    == Lists[p]
           left == queue_delete(q, t)
           qs2  == [Lists EXCEPT ![p] = left]
<1>1. t \in Task
  BY DEF TypeOK
<1>2. /\ Lists \in [Pri -> Seq(Task)] /\ p \in Pri /\ q \in Seq(Task)
      /\ Ordered(Lists, rq.priority) /\ Concatenated = Order(Lists)
      /\ ReadyQueueInv(rq, runnable)
  BY <1>1, Mapped
<1>3. t \in ToSet(q)
  BY <1>1, <1>2 DEF ReadyQueueInv, QueuedWhereRunnable, Lists
<1>4. PICK n \in 1 .. Len(q) :
         /\ q[n] = t /\ left = RemoveAt(q, n) /\ left \in Seq(Task) /\ Len(left) = Len(q) - 1
         /\ \A i \in 1 .. Len(left) : left[i] = IF i < n THEN q[i] ELSE q[i + 1]
  <2>1. q \in Seq(Task) /\ t \in ToSet(q)
    BY <1>2, <1>3
  <2> HIDE DEF q
  <2>2. QED
    BY <2>1, QueueDeleteEntries
<1>5. TakenOut(Lists, p, n, rq.priority, [Lists EXCEPT ![p] = RemoveAt(@, n)])
  BY <1>2, TakeOut
<1>6. [Lists EXCEPT ![p] = RemoveAt(@, n)] = qs2
  BY <1>4
<1> HIDE DEF left
<1>7. qs2 \in [Pri -> Seq(Task)] /\ Ordered(qs2, rq.priority)
  <2>1. qs2 \in [Pri -> Seq(Task)] /\ qs2[p] = left /\ \A x \in Pri : x # p => qs2[x] = Lists[x]
    BY <1>2, <1>4
  <2>2. ToSet(left) \subseteq ToSet(q)
    <3> SUFFICES ASSUME NEW i \in 1 .. Len(left) PROVE left[i] \in ToSet(q)
      BY <1>4 DEF ToSet
    <3>1. i \in DOMAIN q /\ i + 1 \in DOMAIN q
      BY <1>2, <1>4
    <3>2. QED
      BY <1>4, <3>1 DEF ToSet
  <2> HIDE DEF qs2
  <2>3. ASSUME NEW x \in Pri, NEW u \in ToSet(qs2[x]) PROVE u \in ToSet(Lists[x])
    BY <2>1, <2>2
  <2>4. QED
    BY <1>2, <2>1, <2>3 DEF Ordered
<1> HIDE DEF qs2
<1>8. PICK i \in DOMAIN Order(Lists) :
         Order(Lists)[i] = q[n] /\ Order(qs2) = RemoveAt(Order(Lists), i)
  BY <1>5, <1>6 DEF TakenOut
<1>9. i \in DOMAIN Concatenated /\ Concatenated[i] = t /\ Order(qs2) = RemoveAt(Concatenated, i)
  BY <1>2, <1>4, <1>8
<1>10. QED
  BY <1>1, <1>2, <1>3, <1>7, <1>9 DEF qs2, left

LEMMA LeaveStep ==
  ASSUME TypeOK, ReadyQueueOK, NEW t \in Task, MakeNonRunnable(t)
  PROVE  Prec!Leave(t)
<1> DEFINE p    == rq.priority[t]
           left == queue_delete(Lists[p], t)
           qs2  == [Lists EXCEPT ![p] = left]
<1>1. rq \in ReadyQueueType /\ t \in runnable /\ rq' = make_non_runnable(rq, t)
  BY Mapped DEF MakeNonRunnable
<1>2. PICK i \in DOMAIN Concatenated :
         Concatenated[i] = t /\ Order(qs2) = RemoveAt(Concatenated, i)
  BY <1>1, Unlink
<1>3. rq'.ready_queue = qs2 /\ rq'.priority = rq.priority
  BY <1>1 DEF make_non_runnable, ReadyQueueType, Lists
<1>4. Concatenated' = RemoveAt(Concatenated, i)
  BY <1>2, <1>3, MappedAfter
<1>5. (rq.priority)' = rq.priority
  BY <1>3
<1>6. QED
  BY <1>2, <1>4, <1>5 DEF Prec!Leave, Prec!RemoveAt, RemoveAt

LEMMA ReprioritizeStep ==
  ASSUME TypeOK, ReadyQueueOK, NEW t \in Task, NEW p \in Pri, NEW m \in BOOLEAN,
         ChangePriority(t, p, m)
  PROVE  Prec!Reprioritize(t, p, m)
<1>1. rq \in ReadyQueueType /\ Concatenated = Order(Lists)
      /\ (t \in ToSet(Concatenated) <=> t \in runnable)
  BY Mapped
<1>2. t \in Prec!ToSet(Concatenated) <=> t \in runnable
  BY <1>1 DEF Prec!ToSet, ToSet
<1>3. CASE t \notin runnable
  <2>1. rq' = [rq EXCEPT !.priority[t] = p]
    BY <1>3 DEF ChangePriority
  <2>2. rq'.ready_queue = Lists /\ rq'.priority = [rq.priority EXCEPT ![t] = p]
    BY <1>1, <2>1 DEF ReadyQueueType, Lists
  <2>3. Concatenated' = Concatenated
    BY <1>1, <2>2, MappedAfter
  <2>4. (rq.priority)' = [rq.priority EXCEPT ![t] = p]
    BY <2>2
  <2>5. QED
    BY <1>2, <1>3, <2>3, <2>4 DEF Prec!Reprioritize
<1>4. CASE t \in runnable
  <2> DEFINE old  == rq.priority[t]
             left == queue_delete(Lists[old], t)
             qs2  == [Lists EXCEPT ![old] = left]
             qs3  == [qs2 EXCEPT ![p] = IF m THEN << t >> \o @ ELSE Append(@, t)]
  <2>1. rq' = requeue(rq, t, p, m)
    BY <1>4 DEF ChangePriority
  <2>2. rq'.ready_queue = qs3 /\ rq'.priority = [rq.priority EXCEPT ![t] = p]
    BY <1>1, <2>1 DEF requeue, ReadyQueueType, Lists
  <2>3. qs2 \in [Pri -> Seq(Task)] /\ Ordered(qs2, rq.priority)
    BY <1>4, Unlink
  <2>4. PICK i \in DOMAIN Concatenated :
           Concatenated[i] = t /\ Order(qs2) = RemoveAt(Concatenated, i)
    BY <1>4, Unlink
  <2> HIDE DEF qs2
  <2>5. Concatenated' = Order(qs3) /\ (rq.priority)' = [rq.priority EXCEPT ![t] = p]
    BY <2>2, MappedAfter
  <2>6. CASE m
    <3>1. qs3 = [qs2 EXCEPT ![p] = << t >> \o @]
      BY <2>6
    <3>2. Prec!Ahead(Order(qs2), rq.priority, t, p, Order([qs2 EXCEPT ![p] = << t >> \o @]))
      BY <2>3, PutAhead
    <3>3. Prec!Ahead(Prec!RemoveAt(Concatenated, i), rq.priority, t, p, Concatenated')
      BY <2>4, <2>5, <3>1, <3>2 DEF Prec!RemoveAt, RemoveAt
    <3>4. QED
      BY <1>2, <1>4, <2>4, <2>5, <2>6, <3>3 DEF Prec!Reprioritize
  <2>7. CASE ~m
    <3>1. qs3 = [qs2 EXCEPT ![p] = Append(@, t)]
      BY <2>7
    <3>2. Prec!Behind(Order(qs2), rq.priority, t, p, Order([qs2 EXCEPT ![p] = Append(@, t)]))
      BY <2>3, PutBehind
    <3>3. Prec!Behind(Prec!RemoveAt(Concatenated, i), rq.priority, t, p, Concatenated')
      BY <2>4, <2>5, <3>1, <3>2 DEF Prec!RemoveAt, RemoveAt
    <3>4. QED
      BY <1>2, <1>4, <2>4, <2>5, <2>7, <3>3 DEF Prec!Reprioritize
  <2>8. QED
    BY <2>6, <2>7
<1>5. QED
  BY <1>3, <1>4

LEMMA RotateStep ==
  ASSUME TypeOK, ReadyQueueOK, NEW p \in Pri, RotateReadyQueue(p)
  PROVE  Prec!Rotate(p) \/ rq' = rq
<1> DEFINE q    == Lists[p]
           t    == Head(q)
           qs2  == [Lists EXCEPT ![p] = RemoveAt(@, 1)]
           qs3  == [qs2 EXCEPT ![p] = Append(@, t)]
<1>1. rq' = rotate_ready_queue(rq, p) /\ rq \in ReadyQueueType
  BY Mapped DEF RotateReadyQueue
<1>2. /\ Lists \in [Pri -> Seq(Task)] /\ q \in Seq(Task)
      /\ Ordered(Lists, rq.priority) /\ Concatenated = Order(Lists)
  BY Mapped
<1>3. CASE Len(q) < 2
  BY <1>1, <1>3 DEF rotate_ready_queue, Lists
<1>4. CASE ~(Len(q) < 2)
  <2>1. q # << >> /\ 1 \in 1 .. Len(q)
    BY <1>2, <1>4
  <2>2. t \in ToSet(q) /\ t \in Task /\ t = q[1]
    BY <1>2, <2>1, HeadIsEntry
  <2>3. RemoveAt(q, 1) = Tail(q) /\ RemoveAt(q, 1) \in Seq(Task)
    BY <1>2, <2>1, TailIsRemove, RemoveAtEntries
  <2>4. qs2 \in [Pri -> Seq(Task)] /\ qs2[p] = Tail(q) /\ \A x \in Pri : x # p => qs2[x] = Lists[x]
    BY <1>2, <2>3
  <2>5. qs3 = [Lists EXCEPT ![p] = Append(Tail(q), t)]
    BY <1>2, <2>3
  <2>6. rq'.ready_queue = qs3 /\ rq'.priority = rq.priority
    BY <1>1, <1>4, <2>5 DEF rotate_ready_queue, ReadyQueueType, Lists
  <2>7. TakenOut(Lists, p, 1, rq.priority, qs2)
    BY <1>2, <2>1, TakeOut
  <2>8. PICK i \in DOMAIN Concatenated :
           /\ Concatenated[i] = t
           /\ \A j \in 1 .. i - 1 : rq.priority[Concatenated[j]] # p
           /\ Order(qs2) = RemoveAt(Concatenated, i)
    BY <1>2, <2>2, <2>7 DEF TakenOut
  <2>9. Ordered(qs2, rq.priority)
    <3>1. \A u \in ToSet(Tail(q)) : u \in ToSet(q)
      <4>1. /\ Tail(q) \in Seq(Task) /\ Len(Tail(q)) = Len(q) - 1
            /\ \A j \in 1 .. Len(Tail(q)) : Tail(q)[j] = q[j + 1]
        BY <1>2, <2>1, HeadTailProperties
      <4>2. QED
        BY <1>2, <4>1 DEF ToSet
    <3> HIDE DEF qs2
    <3>2. QED
      BY <1>2, <2>4, <3>1 DEF Ordered
  <2> HIDE DEF qs2
  <2>10. Prec!Behind(Order(qs2), rq.priority, t, p, Order(qs3))
    BY <2>2, <2>4, <2>9, PutBehind
  <2>11. Concatenated' = Order(qs3) /\ (rq.priority)' = rq.priority
    BY <2>6, MappedAfter
  <2>12. rq.priority[t] = p
    BY <1>2, <2>2 DEF Ordered
  <2>13. Prec!Behind(Prec!RemoveAt(Concatenated, i), rq.priority, Concatenated[i], p, Concatenated')
    BY <2>8, <2>10, <2>11 DEF Prec!RemoveAt, RemoveAt
  <2>14. rq.priority[Concatenated[i]] = p
    BY <2>8, <2>12
  <2>15. QED
    BY <2>8, <2>11, <2>13, <2>14 DEF Prec!Rotate
<1>5. QED
  BY <1>3, <1>4

LEMMA PrecStep ==
  ASSUME TypeOK, ReadyQueueOK, TypeOK', ReadyQueueOK', [Next]_svars
  PROVE  [Prec!Next]_(Prec!pvars)
<1>1. (rq.schedtsk)' = Prec!First(Concatenated')
  <2>1. rq' \in ReadyQueueType /\ runnable' \in SUBSET Task /\ ReadyQueueInv(rq', runnable')
    BY DEF TypeOK, ReadyQueueOK
  <2>2. rq'.schedtsk = Prec!First(Order(rq'.ready_queue))
    BY <2>1, OrderHead
  <2>3. QED
    BY <2>2, MappedAfter
<1>2. ASSUME rq' = rq PROVE [Prec!Next]_(Prec!pvars)
  <2>1. Concatenated' = Concatenated
    BY <1>2 DEF Concatenated
  <2>2. (rq.priority)' = rq.priority /\ (rq.schedtsk)' = rq.schedtsk
    BY <1>2
  <2>3. QED
    BY <2>1, <2>2 DEF Prec!pvars
<1>3. ASSUME NEW t \in Task, MakeRunnable(t) PROVE Prec!Next
  <2>1. Prec!Enter(t)
    BY <1>3, EnterStep
  <2>2. QED
    BY <1>1, <2>1, Zenon DEF Prec!Next
<1>4. ASSUME NEW t \in Task, MakeNonRunnable(t) PROVE Prec!Next
  <2>1. Prec!Leave(t)
    BY <1>4, LeaveStep
  <2>2. QED
    BY <1>1, <2>1, Zenon DEF Prec!Next
<1>5. ASSUME NEW t \in Task, NEW p \in Pri, NEW m \in BOOLEAN, ChangePriority(t, p, m)
      PROVE  Prec!Next
  <2>1. Prec!Reprioritize(t, p, m)
    BY <1>5, ReprioritizeStep
  <2>2. p \in 0 .. MaxPri
    BY DEF Pri
  <2>3. QED
    BY <1>1, <2>1, <2>2, Zenon DEF Prec!Next
<1>6. ASSUME NEW p \in Pri, RotateReadyQueue(p) PROVE [Prec!Next]_(Prec!pvars)
  <2>1. Prec!Rotate(p) \/ rq' = rq
    BY <1>6, RotateStep
  <2>2. p \in 0 .. MaxPri
    BY DEF Pri
  <2>3. ASSUME Prec!Rotate(p) PROVE Prec!Next
    BY <1>1, <2>2, <2>3, Zenon DEF Prec!Next
  <2>4. QED
    BY <1>2, <2>1, <2>3
<1>7. QED
  BY <1>2, <1>3, <1>4, <1>5, <1>6 DEF Next, svars

LEMMA PrecInit ==
  ASSUME Init
  PROVE  Prec!Init
<1>1. rq = EmptyReadyQueue(ipriority) /\ runnable = {}
  BY DEF Init
<1>2. /\ rq.ready_queue = [p \in Pri |-> << >>] /\ rq.priority = ipriority
      /\ rq.schedtsk = NoTask
  BY <1>1 DEF EmptyReadyQueue
<1>3. rq \in ReadyQueueType /\ ReadyQueueInv(rq, runnable) /\ runnable \in SUBSET Task
  BY <1>1, IpriorityAssumption, EmptyReadyQueue_Correct
<1>4. TypeOK /\ ReadyQueueOK
  BY <1>3 DEF TypeOK, ReadyQueueOK
<1>5. Concatenated = << >>
  <2>1. Concatenated \in Seq(Task) /\ \A t \in Task : t \notin ToSet(Concatenated)
    BY <1>1, <1>4, Mapped
  <2>2. QED
    BY <2>1, HeadIsEntry
<1>6. QED
  BY <1>2, <1>5, Zenon DEF Prec!Init

LEMMA PrecSteps == IInv /\ IInv' /\ [Next]_svars => [Prec!Next]_(Prec!pvars)
  BY PrecStep DEF IInv

\* The ready queue of task.c is a list in the order of precedence with p_schedtsk
\* at its head: every function moves the one task it is called for (a rotation:
\* the first of the priority) and no other, for any tasks and priorities.
THEOREM Scheduler_ImplementsPrecedence == Spec => ImplementsPrecedence
<1>1. Init => Prec!Init
  BY PrecInit
<1>2. QED
  BY <1>1, PrecSteps, InvariantHolds, PTL DEF Spec, ImplementsPrecedence, Prec!Spec

-----------------------------------------------------------------------------
(***************************************************************************)
(* The word that represents a set of priorities, by its bits and by its    *)
(* four groups of four bits, which bitmap_search looks at one by one.      *)
(***************************************************************************)
Bit(S, i) == IF i \in S THEN 1 ELSE 0
Nibble(S, i) == Bit(S, i) + 2 * Bit(S, i + 1) + 4 * Bit(S, i + 2) + 8 * Bit(S, i + 3)
Word(S) == Nibble(S, 0) + 16 * Nibble(S, 4) + 256 * Nibble(S, 8) + 4096 * Nibble(S, 12)

\* Four bits make a number below 16.
LEMMA NibbleRange ==
  ASSUME NEW S, NEW i
  PROVE  Nibble(S, i) \in 0 .. 15 /\ Bit(S, i) \in 0 .. 1
<1>1. \A j : Bit(S, j) \in 0 .. 1
  BY DEF Bit
<1>2. QED
  BY <1>1, SMT DEF Nibble

\* w divided by p is x, and low remains.
Divided(w, p, low, x) ==
  p \in Nat \ {0} /\ low \in 0 .. p - 1 /\ x \in Nat /\ w = low + p * x

\* x is the quotient ...
LEMMA Quotient ==
  ASSUME NEW p, NEW low, NEW x, NEW w, Divided(w, p, low, x)
  PROVE  w \div p = x
  BY Z3 DEF Divided

\* ... and low the remainder.
LEMMA Remainder ==
  ASSUME NEW p, NEW low, NEW x, NEW w, Divided(w, p, low, x)
  PROVE  w % p = low
  BY Z3 DEF Divided

\* The lowest bit of a number is what remains of it modulo 2.
LEMMA LowBit ==
  ASSUME NEW b \in 0 .. 1, NEW x \in Nat
  PROVE  (b + 2 * x) % 2 = b
  BY Z3

\* p counts the lowest of four bits; low is below them, high above.
Composed(w, low, p, b0, b1, b2, b3, high) ==
  w = low + p * (b0 + 2 * b1 + 4 * b2 + 8 * b3 + 16 * high)

\* w consists of four groups of four bits.
FourNibbles(w, n0, n4, n8, n12) ==
  /\ n0 \in 0 .. 15 /\ n4 \in 0 .. 15 /\ n8 \in 0 .. 15 /\ n12 \in 0 .. 15
  /\ w = n0 + 16 * n4 + 256 * n8 + 4096 * n12

\* The word of a set does.
LEMMA WordOfNibbles ==
  ASSUME NEW S
  PROVE  FourNibbles(Word(S), Nibble(S, 0), Nibble(S, 4), Nibble(S, 8), Nibble(S, 12))
  BY NibbleRange DEF FourNibbles, Word

\* Such a word has 16 bits, and is 0 if all groups are.
LEMMA NibblesRange ==
  ASSUME NEW w, NEW n0, NEW n4, NEW n8, NEW n12, FourNibbles(w, n0, n4, n8, n12)
  PROVE  /\ w \in Nat /\ w <= 65535
         /\ w = 0 <=> n0 = 0 /\ n4 = 0 /\ n8 = 0 /\ n12 = 0
  BY DEF FourNibbles

\* The word fits into 16 bits.
LEMMA WordRange ==
  ASSUME NEW S
  PROVE  Word(S) \in Nat /\ Word(S) <= 65535
  BY WordOfNibbles, NibblesRange

\* Each of four bits is found by dividing by its value.
LEMMA FourBits ==
  ASSUME NEW p \in Nat \ {0}, NEW low \in 0 .. p - 1, NEW high \in Nat,
         NEW b0 \in 0 .. 1, NEW b1 \in 0 .. 1, NEW b2 \in 0 .. 1, NEW b3 \in 0 .. 1,
         NEW w \in Nat, Composed(w, low, p, b0, b1, b2, b3, high)
  PROVE  /\ (w \div p) % 2 = b0
         /\ (w \div (2 * p)) % 2 = b1
         /\ (w \div (4 * p)) % 2 = b2
         /\ (w \div (8 * p)) % 2 = b3
<1> DEFINE x3 == b3 + 2 * high
           x2 == b2 + 2 * x3
           x1 == b1 + 2 * x2
<1>0. w = low + p * (b0 + 2 * b1 + 4 * b2 + 8 * b3 + 16 * high)
  BY DEF Composed
<1>1. x3 \in Nat /\ x2 \in Nat /\ x1 \in Nat
  OBVIOUS
<1>2. w \div p = b0 + 2 * x1
  <2>1. b0 + 2 * x1 \in Nat
    BY <1>1
  <2>2. Divided(w, p, low, b0 + 2 * x1)
    BY <1>0, <2>1 DEF Divided
  <2>3. QED
    BY <2>2, Quotient, Zenon
<1>3. w \div (2 * p) = b1 + 2 * x2
  <2>1. low + p * b0 \in Nat /\ b1 + 2 * x2 \in Nat /\ 2 * p \in Nat \ {0}
    BY <1>1
  <2>2. Divided(w, 2 * p, low + p * b0, b1 + 2 * x2)
    BY <1>0, <2>1 DEF Divided
  <2>3. QED
    BY <2>2, Quotient, Zenon
<1>4. w \div (4 * p) = b2 + 2 * x3
  <2>1. low + p * (b0 + 2 * b1) \in Nat /\ b2 + 2 * x3 \in Nat /\ 4 * p \in Nat \ {0}
    BY <1>1
  <2>2. Divided(w, 4 * p, low + p * (b0 + 2 * b1), b2 + 2 * x3)
    BY <1>0, <2>1 DEF Divided
  <2>3. QED
    BY <2>2, Quotient, Zenon
<1>5. w \div (8 * p) = b3 + 2 * high
  <2>1. /\ low + p * (b0 + 2 * b1 + 4 * b2) \in Nat /\ b3 + 2 * high \in Nat
        /\ 8 * p \in Nat \ {0}
    OBVIOUS
  <2>2. Divided(w, 8 * p, low + p * (b0 + 2 * b1 + 4 * b2), b3 + 2 * high)
    BY <1>0, <2>1 DEF Divided
  <2>3. QED
    BY <2>2, Quotient, Zenon
<1> HIDE DEF x1, x2, x3
<1>6. QED
  BY <1>1, <1>2, <1>3, <1>4, <1>5, LowBit

\* The bits i to i + 3 of the word w, the lowest of which counts p, are those of S.
BitsOf(w, S, i, p) ==
  /\ (w \div p) % 2 = Bit(S, i)
  /\ (w \div (2 * p)) % 2 = Bit(S, i + 1)
  /\ (w \div (4 * p)) % 2 = Bit(S, i + 2)
  /\ (w \div (8 * p)) % 2 = Bit(S, i + 3)

\* The bits of the word of S are those of S.
LEMMA WordBits ==
  ASSUME NEW S
  PROVE  /\ BitsOf(Word(S), S, 0, 1)
         /\ BitsOf(Word(S), S, 4, 16)
         /\ BitsOf(Word(S), S, 8, 256)
         /\ BitsOf(Word(S), S, 12, 4096)
<1> DEFINE n0 == Nibble(S, 0)
           n4 == Nibble(S, 4)
           n8 == Nibble(S, 8)
           n12 == Nibble(S, 12)
           w == Word(S)
<1>1. n0 \in 0 .. 15 /\ n4 \in 0 .. 15 /\ n8 \in 0 .. 15 /\ n12 \in 0 .. 15
  BY NibbleRange
<1>2. w = n0 + 16 * n4 + 256 * n8 + 4096 * n12
  BY DEF Word
<1>3. ASSUME NEW i \in Nat, NEW p \in Nat \ {0}, NEW low \in 0 .. p - 1, NEW high \in Nat,
             w = low + p * (Nibble(S, i) + 16 * high)
      PROVE  BitsOf(w, S, i, p)
  <2>1. /\ Bit(S, i) \in 0 .. 1 /\ Bit(S, i + 1) \in 0 .. 1
        /\ Bit(S, i + 2) \in 0 .. 1 /\ Bit(S, i + 3) \in 0 .. 1
    BY NibbleRange
  <2>2. Composed(w, low, p, Bit(S, i), Bit(S, i + 1), Bit(S, i + 2), Bit(S, i + 3), high)
    BY <1>3 DEF Nibble, Composed
  <2> HIDE DEF n0, n4, n8, n12, w
  <2>3. w \in Nat
    BY <1>1, <1>2
  <2>4. QED
    BY <2>1, <2>2, <2>3, FourBits DEF BitsOf
<1> HIDE DEF n0, n4, n8, n12, w
<1>4. ASSUME NEW p, p = 1, NEW low, low = 0 PROVE BitsOf(w, S, 0, p)
  <2>1. w = low + p * (n0 + 16 * (n4 + 16 * n8 + 256 * n12))
    BY <1>1, <1>2, <1>4
  <2>2. /\ p \in Nat \ {0} /\ low \in 0 .. p - 1
        /\ n4 + 16 * n8 + 256 * n12 \in Nat /\ 0 \in Nat
    BY <1>1, <1>4
  <2>3. QED
    BY <1>3, <2>1, <2>2 DEF n0
<1>5. ASSUME NEW p, p = 16 PROVE BitsOf(w, S, 4, p)
  <2>1. w = n0 + p * (n4 + 16 * (n8 + 16 * n12))
    BY <1>1, <1>2, <1>5
  <2>2. p \in Nat \ {0} /\ n0 \in 0 .. p - 1 /\ n8 + 16 * n12 \in Nat /\ 4 \in Nat
    BY <1>1, <1>5
  <2>3. QED
    BY <1>3, <2>1, <2>2 DEF n4
<1>6. ASSUME NEW p, p = 256 PROVE BitsOf(w, S, 8, p)
  <2>1. w = (n0 + 16 * n4) + p * (n8 + 16 * n12)
    BY <1>1, <1>2, <1>6
  <2>2. p \in Nat \ {0} /\ n0 + 16 * n4 \in 0 .. p - 1 /\ n12 \in Nat /\ 8 \in Nat
    BY <1>1, <1>6
  <2>3. QED
    BY <1>3, <2>1, <2>2 DEF n8
<1>7. ASSUME NEW p, p = 4096, NEW high, high = 0 PROVE BitsOf(w, S, 12, p)
  <2>1. w = (n0 + 16 * n4 + 256 * n8) + p * (n12 + 16 * high)
    BY <1>1, <1>2, <1>7
  <2>2. /\ p \in Nat \ {0} /\ n0 + 16 * n4 + 256 * n8 \in 0 .. p - 1
        /\ high \in Nat /\ 12 \in Nat
    BY <1>1, <1>7
  <2>3. QED
    BY <1>3, <2>1, <2>2 DEF n12
<1>8. QED
  BY <1>4, <1>5, <1>6, <1>7 DEF w

\* p is 2 to the power of pri.
Powers(pri, p) ==
  \/ pri = 0 /\ p = 1
  \/ pri = 1 /\ p = 2
  \/ pri = 2 /\ p = 4
  \/ pri = 3 /\ p = 8
  \/ pri = 4 /\ p = 16
  \/ pri = 5 /\ p = 32
  \/ pri = 6 /\ p = 64
  \/ pri = 7 /\ p = 128
  \/ pri = 8 /\ p = 256
  \/ pri = 9 /\ p = 512
  \/ pri = 10 /\ p = 1024
  \/ pri = 11 /\ p = 2048
  \/ pri = 12 /\ p = 4096
  \/ pri = 13 /\ p = 8192
  \/ pri = 14 /\ p = 16384
  \/ pri = 15 /\ p = 32768

\* PRIMAP_BIT gives it.
LEMMA TwoPowers ==
  ASSUME NEW pri \in 0 .. 15
  PROVE  Powers(pri, PRIMAP_BIT(pri))
<1>1. /\ PRIMAP_BIT(0) = 1
      /\ PRIMAP_BIT(1) = 2
      /\ PRIMAP_BIT(2) = 4
      /\ PRIMAP_BIT(3) = 8
      /\ PRIMAP_BIT(4) = 16
      /\ PRIMAP_BIT(5) = 32
      /\ PRIMAP_BIT(6) = 64
      /\ PRIMAP_BIT(7) = 128
      /\ PRIMAP_BIT(8) = 256
      /\ PRIMAP_BIT(9) = 512
      /\ PRIMAP_BIT(10) = 1024
      /\ PRIMAP_BIT(11) = 2048
      /\ PRIMAP_BIT(12) = 4096
      /\ PRIMAP_BIT(13) = 8192
      /\ PRIMAP_BIT(14) = 16384
      /\ PRIMAP_BIT(15) = 32768
  BY DEF PRIMAP_BIT
<1>2. QED
  BY <1>1, SMT DEF Powers

\* The test of a bit of ready_primap is the test of the priority.
LEMMA OneBit ==
  ASSUME NEW S, NEW pri \in 0 .. 15
  PROVE  IsSet(Word(S), pri) <=> pri \in S
<1>2. (Word(S) \div PRIMAP_BIT(pri)) % 2 = Bit(S, pri)
  BY TwoPowers, WordBits, SMT DEF BitsOf, Powers
<1>3. QED
  BY <1>2 DEF IsSet, Bit

\* Words that differ in one bit differ by its value.
LEMMA BitChange ==
  ASSUME NEW S, NEW S2, NEW pri \in 0 .. 15, \A i : i # pri => (i \in S2 <=> i \in S),
         pri \in S2, pri \notin S
  PROVE  Word(S2) = Word(S) + PRIMAP_BIT(pri)
<1>1. \A i : Bit(S2, i) = IF i = pri THEN 1 ELSE Bit(S, i)
  BY DEF Bit
<1>2. \A i \in 0 .. 15 : Bit(S, i) \in Nat
  BY DEF Bit
<1>3. Bit(S, pri) = 0
  BY DEF Bit
<1>4. Word(S2) - Word(S) = PRIMAP_BIT(pri)
  <2> DEFINE d == [i \in 0 .. 15 |-> Bit(S2, i) - Bit(S, i)]
  <2>1. Word(S2) - Word(S) = (d[0] + 2 * d[1] + 4 * d[2] + 8 * d[3])
        + 16 * (d[4] + 2 * d[5] + 4 * d[6] + 8 * d[7])
        + 256 * (d[8] + 2 * d[9] + 4 * d[10] + 8 * d[11])
        + 4096 * (d[12] + 2 * d[13] + 4 * d[14] + 8 * d[15])
    BY <1>2, <1>1 DEF Word, Nibble
  <2>2. \A i \in 0 .. 15 : d[i] = IF i = pri THEN 1 ELSE 0
    BY <1>1, <1>2, <1>3
  <2> HIDE DEF d
  <2>3. QED
    BY <2>1, <2>2, TwoPowers, SMT DEF Powers
<1>5. PRIMAP_BIT(pri) \in Nat
  BY TwoPowers DEF Powers
<1>6. Word(S) \in Nat /\ Word(S2) \in Nat
  BY WordRange
<1>7. QED
  BY <1>4, <1>5, <1>6

\* primap_set adds a priority, also one that is there.
LEMMA BitSet ==
  ASSUME NEW S, NEW pri \in 0 .. 15
  PROVE  primap_set(Word(S), pri) = Word(S \cup {pri})
<1>1. CASE pri \in S
  <2>1. S \cup {pri} = S
    BY <1>1
  <2>2. QED
    BY <1>1, <2>1, OneBit DEF primap_set
<1>2. CASE pri \notin S
  <2>1. Word(S \cup {pri}) = Word(S) + PRIMAP_BIT(pri)
    BY <1>2, BitChange
  <2>2. Word(S \cup {pri}) \in Nat /\ Word(S \cup {pri}) <= 65535
    BY WordRange
  <2>3. 2 ^ 16 = 65536
    BY SMT
  <2>4. \A w \in Nat : w <= 65535 => w % 65536 = w
    OBVIOUS
  <2>5. QED
    BY <1>2, <2>1, <2>2, <2>3, <2>4, OneBit DEF primap_set
<1>3. QED
  BY <1>1, <1>2

\* primap_clear removes one.
LEMMA BitClear ==
  ASSUME NEW S, NEW pri \in 0 .. 15
  PROVE  primap_clear(Word(S), pri) = Word(S \ {pri})
<1>1. CASE pri \notin S
  <2>1. S \ {pri} = S
    BY <1>1
  <2>2. QED
    BY <1>1, <2>1, OneBit DEF primap_clear
<1>2. CASE pri \in S
  <2>1. Word(S) = Word(S \ {pri}) + PRIMAP_BIT(pri)
    BY <1>2, BitChange
  <2>2. Word(S \ {pri}) \in Nat
    BY WordRange
  <2>3. PRIMAP_BIT(pri) \in Nat
    BY TwoPowers DEF Powers
  <2>4. QED
    BY <1>2, <2>1, <2>2, <2>3, OneBit DEF primap_clear
<1>3. QED
  BY <1>1, <1>2

\* bitmap_search_table has the lowest bit of each number below 16.
LEMMA TableFirst ==
  \A n \in 1 .. 15 : bitmap_search_table[n] = IF n % 2 = 1 THEN 0
                                              ELSE IF n % 4 = 2 THEN 1
                                              ELSE IF n % 8 = 4 THEN 2 ELSE 3
  BY SMT DEF bitmap_search_table

\* r is the lowest bit of the group that starts at i.
FirstOf(S, i, r) == r \in 0 .. 3 /\ i + r \in S /\ \A j \in 0 .. r - 1 : i + j \notin S

\* The table finds it.
LEMMA NibbleSearch ==
  ASSUME NEW S, NEW i \in Nat
  PROVE  /\ Nibble(S, i) = 0 <=> \A j \in 0 .. 3 : i + j \notin S
         /\ Nibble(S, i) # 0 => FirstOf(S, i, bitmap_search_table[Nibble(S, i)])
<1> DEFINE b0 == Bit(S, i)
           b1 == Bit(S, i + 1)
           b2 == Bit(S, i + 2)
           b3 == Bit(S, i + 3)
           n == Nibble(S, i)
<1>1. b0 \in 0 .. 1 /\ b1 \in 0 .. 1 /\ b2 \in 0 .. 1 /\ b3 \in 0 .. 1
  BY NibbleRange
<1>2. n = b0 + 2 * b1 + 4 * b2 + 8 * b3
  BY DEF Nibble
<1>3. /\ b0 = 1 <=> i \in S
      /\ b1 = 1 <=> i + 1 \in S
      /\ b2 = 1 <=> i + 2 \in S
      /\ b3 = 1 <=> i + 3 \in S
  BY DEF Bit
<1> HIDE DEF b0, b1, b2, b3, n
<1>4. n = 0 <=> \A j \in 0 .. 3 : i + j \notin S
  <2>1. n = 0 <=> b0 = 0 /\ b1 = 0 /\ b2 = 0 /\ b3 = 0
    BY <1>1, <1>2
  <2>2. (\A j \in 0 .. 3 : i + j \notin S)
          <=> i \notin S /\ i + 1 \notin S /\ i + 2 \notin S /\ i + 3 \notin S
    <3>1. ASSUME i \notin S /\ i + 1 \notin S /\ i + 2 \notin S /\ i + 3 \notin S,
                 NEW j \in 0 .. 3
          PROVE  i + j \notin S
      <4>1. j = 0 \/ j = 1 \/ j = 2 \/ j = 3
        OBVIOUS
      <4>2. QED
        BY <4>1, <3>1
    <3>2. i + 0 = i
      OBVIOUS
    <3>3. QED
      BY <3>1, <3>2
  <2>3. QED
    BY <1>1, <1>3, <2>1, <2>2
<1>5. ASSUME n # 0 PROVE FirstOf(S, i, bitmap_search_table[n])
  <2>1. n \in 1 .. 15
    BY <1>1, <1>2, <1>5
  <2>2. bitmap_search_table[n] = IF b0 = 1 THEN 0 ELSE IF b1 = 1 THEN 1
                                 ELSE IF b2 = 1 THEN 2 ELSE 3
    BY <2>1, <1>1, <1>2, TableFirst
  <2>3. CASE b0 = 1
    BY <2>2, <2>3, <1>3 DEF FirstOf
  <2>4. CASE b0 = 0 /\ b1 = 1
    BY <2>2, <2>4, <1>3 DEF FirstOf
  <2>5. CASE b0 = 0 /\ b1 = 0 /\ b2 = 1
    <3>1. i \notin S /\ i + 1 \notin S /\ i + 2 \in S
      BY <2>5, <1>3
    <3>2. \A j \in 0 .. 1 : j = 0 \/ j = 1
      OBVIOUS
    <3>3. QED
      BY <2>2, <2>5, <3>1, <3>2 DEF FirstOf
  <2>6. CASE b0 = 0 /\ b1 = 0 /\ b2 = 0
    <3>1. i \notin S /\ i + 1 \notin S /\ i + 2 \notin S /\ i + 3 \in S
      BY <1>1, <1>2, <1>5, <2>6, <1>3
    <3>2. \A j \in 0 .. 2 : j = 0 \/ j = 1 \/ j = 2
      OBVIOUS
    <3>3. QED
      BY <2>2, <2>6, <3>1, <3>2 DEF FirstOf
  <2>7. QED
    BY <1>1, <2>3, <2>4, <2>5, <2>6
<1>6. QED
  BY <1>4, <1>5 DEF n

\* What bitmap_search computes, without halving the word.
FirstNibble(n0, n4, n8, n12) ==
  IF n0 # 0 THEN bitmap_search_table[n0]
  ELSE IF n4 # 0 THEN 4 + bitmap_search_table[n4]
  ELSE IF n8 # 0 THEN 8 + bitmap_search_table[n8]
  ELSE 12 + bitmap_search_table[n12]

\* bitmap_search looks up the lowest group that is not 0.
LEMMA SearchWord ==
  ASSUME NEW w, NEW n0, NEW n4, NEW n8, NEW n12, FourNibbles(w, n0, n4, n8, n12)
  PROVE  bitmap_search(w) = FirstNibble(n0, n4, n8, n12)
<1> DEFINE high == n8 + 16 * n12
<1>0. /\ n0 \in 0 .. 15 /\ n4 \in 0 .. 15 /\ n8 \in 0 .. 15 /\ n12 \in 0 .. 15
      /\ w \in Nat /\ w = n0 + 16 * n4 + 256 * n8 + 4096 * n12
  BY NibblesRange DEF FourNibbles
<1>1. w % 256 = n0 + 16 * n4 /\ w \div 256 = high
  <2>1. n0 + 16 * n4 \in Nat /\ high \in Nat
    BY <1>0
  <2>2. Divided(w, 256, n0 + 16 * n4, high)
    BY <1>0, <2>1 DEF Divided
  <2> HIDE DEF high
  <2>3. w \div 256 = high
    BY SMTT(60), <2>2, Quotient
  <2>4. w % 256 = n0 + 16 * n4
    BY <2>2, Remainder, Zenon
  <2>5. QED
    BY <2>3, <2>4
<1>2. w % 16 = n0 /\ w \div 16 = n4 + 16 * high
  <2>1. n4 + 16 * high \in Nat
    BY <1>0
  <2>2. Divided(w, 16, n0, n4 + 16 * high)
    BY <1>0, <2>1 DEF Divided
  <2>3. QED
    BY <2>2, Quotient, Remainder, Zenon
<1>3. high % 16 = n8 /\ high \div 16 = n12
  <2>1. high \in Nat
    BY <1>0
  <2>2. Divided(high, 16, n8, n12)
    BY <1>0, <2>1 DEF Divided
  <2>3. QED
    BY <2>2, Quotient, Remainder, Zenon
<1>4. (n4 + 16 * high) % 16 = n4
  <2>1. high \in Nat /\ n4 + 16 * high \in Nat
    BY <1>0
  <2>2. Divided(n4 + 16 * high, 16, n4, high)
    BY <1>0, <2>1 DEF Divided
  <2>3. QED
    BY <2>2, Remainder, Zenon
<1>5. n12 % 16 = n12
  BY <1>0
<1>6. \A n \in 0 .. 15 : n # 0 => bitmap_search_table[n] \in Nat
  BY TableFirst
<1> HIDE DEF high
<1>7. CASE n0 # 0
  <2>1. w % 256 # 0
    BY <1>0, <1>1, <1>7
  <2>2. bitmap_search(w) = 0 + 0 + bitmap_search_table[n0]
    BY <2>1, <1>2, <1>7 DEF bitmap_search
  <2>3. QED
    BY <1>0, <2>2, <1>6, <1>7 DEF FirstNibble
<1>8. CASE n0 = 0 /\ n4 # 0
  <2>1. w % 256 # 0
    BY <1>0, <1>1, <1>8
  <2>2. bitmap_search(w) = 0 + 4 + bitmap_search_table[n4]
    BY <2>1, <1>2, <1>4, <1>8 DEF bitmap_search
  <2>3. QED
    BY <1>0, <2>2, <1>8 DEF FirstNibble
<1>9. CASE n0 = 0 /\ n4 = 0 /\ n8 # 0
  <2>1. w % 256 = 0
    BY <1>0, <1>1, <1>9
  <2>2. bitmap_search(w) = 8 + 0 + bitmap_search_table[n8]
    BY <2>1, <1>1, <1>3, <1>9 DEF bitmap_search
  <2>3. QED
    BY <1>0, <2>2, <1>9 DEF FirstNibble
<1>10. CASE n0 = 0 /\ n4 = 0 /\ n8 = 0
  <2>1. w % 256 = 0
    BY <1>0, <1>1, <1>10
  <2>2. bitmap_search(w) = 8 + 4 + bitmap_search_table[n12]
    BY <2>1, <1>1, <1>3, <1>5, <1>10 DEF bitmap_search
  <2>3. QED
    BY <1>0, <2>2, <1>10 DEF FirstNibble
<1>11. QED
  BY <1>0, <1>7, <1>8, <1>9, <1>10

\* It finds the highest priority, the least number.
LEMMA SearchIsFirst ==
  ASSUME NEW S \in SUBSET (0 .. 15), S # {}
  PROVE  bitmap_search(Word(S)) = Min(S)
<1> DEFINE r == bitmap_search(Word(S))
<1>1. \A i : Nibble(S, i) \in 0 .. 15
  BY NibbleRange
<1>3. r = FirstNibble(Nibble(S, 0), Nibble(S, 4), Nibble(S, 8), Nibble(S, 12))
  BY WordOfNibbles, SearchWord
<1>4. \A i \in Nat, j \in Nat :
        Nibble(S, i) = 0 /\ i <= j /\ j <= i + 3 => j \notin S
  <2>1. TAKE i \in Nat, j \in Nat
  <2>2. HAVE Nibble(S, i) = 0 /\ i <= j /\ j <= i + 3
  <2>3. j - i \in 0 .. 3 /\ i + (j - i) = j
    BY <2>2
  <2>4. QED
    BY <2>2, <2>3, NibbleSearch
<1>5. ASSUME NEW i \in Nat, Nibble(S, i) # 0, r = i + bitmap_search_table[Nibble(S, i)],
             \A j \in 0 .. i - 1 : j \notin S
      PROVE  r \in S /\ \A j \in S : r <= j
  <2> DEFINE at == bitmap_search_table[Nibble(S, i)]
  <2>1. FirstOf(S, i, at)
    BY <1>5, NibbleSearch
  <2> HIDE DEF at
  <2>2. at \in 0 .. 3 /\ i + at \in S /\ \A j \in 0 .. at - 1 : i + j \notin S
    BY <2>1 DEF FirstOf
  <2>3. ASSUME NEW j \in S, j < i + at
        PROVE  FALSE
    <3>1. j \in Nat
      OBVIOUS
    <3>2. j >= i
      BY <3>1, <1>5
    <3>3. j - i \in 0 .. at - 1 /\ i + (j - i) = j
      BY <3>1, <3>2, <2>2, <2>3
    <3>4. QED
      BY <3>3, <2>2
  <2>4. r = i + at
    BY <1>5 DEF at
  <2> HIDE DEF r
  <2>5. QED
    BY <2>2, <2>3, <2>4
<1>6. r \in S /\ \A j \in S : r <= j
  <2> HIDE DEF r
  <2>1. CASE Nibble(S, 0) # 0
    <3>1. bitmap_search_table[Nibble(S, 0)] \in Nat
      BY <2>1, <1>1, TableFirst
    <3>2. QED
      BY <2>1, <3>1, <1>3, <1>5 DEF FirstNibble
  <2>2. CASE Nibble(S, 0) = 0 /\ Nibble(S, 4) # 0
    <3>1. \A j \in 0 .. 4 - 1 : j \notin S
      BY <2>2, <1>4
    <3>2. QED
      BY <2>2, <3>1, <1>3, <1>5 DEF FirstNibble
  <2>3. CASE Nibble(S, 0) = 0 /\ Nibble(S, 4) = 0 /\ Nibble(S, 8) # 0
    <3>1. \A j \in 0 .. 8 - 1 : j \notin S
      BY <2>3, <1>4
    <3>2. QED
      BY <2>3, <3>1, <1>3, <1>5 DEF FirstNibble
  <2>4. CASE Nibble(S, 0) = 0 /\ Nibble(S, 4) = 0 /\ Nibble(S, 8) = 0
    <3>1. \A j \in 0 .. 12 - 1 : j \notin S
      BY <2>4, <1>4
    <3>2. PICK i \in S : TRUE
      OBVIOUS
    <3>3. i \in 12 .. 15
      BY <3>1
    <3>4. Nibble(S, 12) # 0
      BY <3>2, <3>3, <1>4
    <3>5. QED
      BY <2>4, <3>1, <3>4, <1>3, <1>5 DEF FirstNibble
  <2>5. QED
    BY <2>1, <2>2, <2>3, <2>4
<1> HIDE DEF r
<1>7. \A y \in S : (\A j \in S : y <= j) => y = r
  <2>1. \A y \in S : y \in Nat
    OBVIOUS
  <2>2. QED
    BY <1>6, <2>1
<1>8. Min(S) = r
  BY <1>6, <1>7 DEF Min
<1>9. QED
  BY <1>8 DEF r

\* primap_empty is right.
LEMMA ZeroIsEmpty ==
  ASSUME NEW S \in SUBSET (0 .. 15)
  PROVE  Word(S) = 0 <=> S = {}
<1>2. Word(S) = 0 <=> /\ Nibble(S, 0) = 0 /\ Nibble(S, 4) = 0
                      /\ Nibble(S, 8) = 0 /\ Nibble(S, 12) = 0
  BY WordOfNibbles, NibblesRange
<1>3. ASSUME Word(S) = 0, NEW i \in S
      PROVE  FALSE
  <2>1. i \in 0 .. 3 \/ i \in 4 .. 7 \/ i \in 8 .. 11 \/ i \in 12 .. 15
    OBVIOUS
  <2>2. PICK n \in {0, 4, 8, 12} : i - n \in 0 .. 3
    BY <2>1
  <2>3. n + (i - n) = i
    BY <2>2
  <2>4. Nibble(S, n) = 0
    BY <1>2, <1>3
  <2>5. QED
    BY <2>2, <2>3, <2>4, NibbleSearch
<1>4. S = {} => Word(S) = 0
  BY <1>2, NibbleSearch
<1>5. QED
  BY <1>3, <1>4

-----------------------------------------------------------------------------
\* The word is the one of the priorities whose lists are not empty.
BitmapInv == nonEmpty \in SUBSET (0 .. 15) /\ ready_primap = Word(nonEmpty)

\* ready_primap is 0 exactly when all lists are empty; otherwise bitmap_search
\* finds the highest priority with a task, for every sequence of primap_set and
\* primap_clear and up to sixteen priorities.
THEOREM Bitmap_SearchFindsHighest == BitmapInit /\ [][BitmapNext]_bvars => []SearchFindsHighest
<1>1. BitmapInit => BitmapInv
  BY ZeroIsEmpty DEF BitmapInit, BitmapInv
<1>2. BitmapInv /\ [BitmapNext]_bvars => BitmapInv'
  <2> SUFFICES ASSUME BitmapInv, [BitmapNext]_bvars
               PROVE  BitmapInv'
    OBVIOUS
  <2> USE DEF BitmapInv
  <2>1. ASSUME NEW pri \in 0 .. MaxBit, Fill(pri)
        PROVE  BitmapInv'
    <3>1. pri \in 0 .. 15
      BY MaxBitAssumption
    <3>2. primap_set(Word(nonEmpty), pri) = Word(nonEmpty \cup {pri})
      BY <3>1, BitSet
    <3>3. QED
      BY <2>1, <3>1, <3>2 DEF Fill
  <2>2. ASSUME NEW pri \in 0 .. MaxBit, Drain(pri)
        PROVE  BitmapInv'
    <3>1. pri \in 0 .. 15
      BY MaxBitAssumption
    <3>2. primap_clear(Word(nonEmpty), pri) = Word(nonEmpty \ {pri})
      BY <3>1, BitClear
    <3>3. QED
      BY <2>2, <3>1, <3>2 DEF Drain
  <2>3. CASE UNCHANGED bvars
    BY <2>3 DEF bvars
  <2>4. QED
    BY <2>1, <2>2, <2>3 DEF BitmapNext
<1>3. BitmapInv => SearchFindsHighest
  BY ZeroIsEmpty, SearchIsFirst DEF BitmapInv, SearchFindsHighest
<1>4. QED
  BY <1>1, <1>2, <1>3, PTL
=============================================================================
