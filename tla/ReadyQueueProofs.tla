-------------------------- MODULE ReadyQueueProofs --------------------------
(***************************************************************************)
(* What each operator of module ReadyQueue does to a correct ready queue,  *)
(* for any tasks and any number of priorities.                             *)
(***************************************************************************)
EXTENDS ReadyQueue, SequenceTheorems, WellFoundedInduction, TLAPS

\* bitmap_search finds a bit when there is one, and no lower bit is set.
LEMMA SearchFindsMinimum ==
  ASSUME NEW primap \in SUBSET Nat, primap # {}
  PROVE  /\ primap_search(primap) \in primap
         /\ \A r \in primap : primap_search(primap) <= r
<1>1. \E p \in primap : \A r \in primap : ~(<< r, p >> \in OpToRel(<, Nat))
  BY NatLessThanWellFounded, WFMin, Zenon
<1>2. PICK p \in primap : \A r \in primap : ~(<< r, p >> \in OpToRel(<, Nat))
  BY <1>1
<1>3. ASSUME NEW r \in primap PROVE ~(r < p)
  <2>1. r \in Nat /\ p \in Nat
    BY Zenon
  <2>2. ~(<< r, p >> \in {ss \in Nat \X Nat : ss[1] < ss[2]})
    BY <1>2, Zenon DEF OpToRel
  <2>3. QED
    BY <2>1, <2>2
<1>4. QED
  BY <1>3, \A r \in primap : p <= r DEF primap_search

-----------------------------------------------------------------------------
(***************************************************************************)
(* Lists without repetition.                                               *)
(***************************************************************************)
\* The first entry of a list is an entry of it.
LEMMA HeadIsEntry ==
  ASSUME NEW S, NEW q \in Seq(S), q # << >>
  PROVE  Head(q) \in ToSet(q) /\ Head(q) \in S /\ Head(q) = q[1]
<1>1. 1 \in DOMAIN q /\ Head(q) = q[1] /\ q[1] \in S
  OBVIOUS
<1>2. QED
  BY <1>1 DEF ToSet

\* Inserting an entry at any place.
LEMMA InsertAtEntries ==
  ASSUME NEW S, NEW q \in Seq(S), NEW n \in 1 .. Len(q) + 1, NEW t \in S
  PROVE  LET r == InsertAt(q, n, t)
         IN  /\ r \in Seq(S) /\ Len(r) = Len(q) + 1
             /\ \A i \in 1 .. Len(r) : r[i] = IF i < n THEN q[i]
                                              ELSE IF i = n THEN t ELSE q[i - 1]
<1> DEFINE a == SubSeq(q, 1, n - 1)
           b == SubSeq(q, n, Len(q))
           c == a \o << t >>
           r == InsertAt(q, n, t)
<1>1. /\ a \in Seq(S) /\ Len(a) = n - 1
      /\ \A i \in 1 .. n - 1 : a[i] = q[i]
  <2>1. \A i \in 1 .. n - 1 : q[i] \in S
    OBVIOUS
  <2>2. QED
    BY <2>1, SubSeqProperties, Z3
<1>2. /\ b \in Seq(S) /\ Len(b) = Len(q) - n + 1
      /\ \A i \in 1 .. Len(q) - n + 1 : b[i] = q[n + i - 1]
  <2>1. \A i \in n .. Len(q) : q[i] \in S
    OBVIOUS
  <2>2. QED
    BY <2>1, SubSeqProperties, Z3
<1>3. r = c \o b
  BY DEF InsertAt
<1> HIDE DEF a, b
<1>4. /\ c \in Seq(S) /\ Len(c) = n
      /\ \A i \in 1 .. n : c[i] = IF i < n THEN q[i] ELSE t
  <2>1. << t >> \in Seq(S) /\ Len(<< t >>) = 1 /\ << t >>[1] = t
    OBVIOUS
  <2>2. /\ c \in Seq(S) /\ Len(c) = Len(a) + 1
        /\ \A i \in 1 .. Len(a) + 1 :
             c[i] = IF i <= Len(a) THEN a[i] ELSE << t >>[i - Len(a)]
    BY <1>1, <2>1, ConcatProperties
  <2> HIDE DEF c
  <2>3. QED
    BY <1>1, <2>1, <2>2
<1> HIDE DEF c, r
<1>5. /\ r \in Seq(S) /\ Len(r) = Len(c) + Len(b)
      /\ \A i \in 1 .. Len(c) + Len(b) :
           r[i] = IF i <= Len(c) THEN c[i] ELSE b[i - Len(c)]
  BY <1>2, <1>3, <1>4, ConcatProperties
<1>6. Len(r) = Len(q) + 1
  BY <1>2, <1>4, <1>5
<1>7. ASSUME NEW i \in 1 .. Len(r)
      PROVE  r[i] = IF i < n THEN q[i] ELSE IF i = n THEN t ELSE q[i - 1]
  <2>1. CASE i <= n
    BY <1>2, <1>4, <1>5, <2>1
  <2>2. CASE ~(i <= n)
    <3>1. i - n \in 1 .. Len(q) - n + 1 /\ r[i] = b[i - n]
      BY <1>2, <1>4, <1>5, <1>6, <2>2
    <3>2. b[i - n] = q[n + (i - n) - 1]
      BY <1>2, <3>1
    <3>3. QED
      BY <2>2, <3>1, <3>2
  <2>3. QED
    BY <2>1, <2>2
<1>8. QED
  BY <1>5, <1>6, <1>7 DEF r

\* Removing an entry closes the gap: the entries behind it move up by one.
LEMMA RemoveAtEntries ==
  ASSUME NEW S, NEW q \in Seq(S), NEW n \in 1 .. Len(q)
  PROVE  LET r == RemoveAt(q, n)
         IN  /\ r \in Seq(S) /\ Len(r) = Len(q) - 1
             /\ \A i \in 1 .. Len(r) : r[i] = IF i < n THEN q[i] ELSE q[i + 1]
<1> DEFINE a == SubSeq(q, 1, n - 1)
           b == SubSeq(q, n + 1, Len(q))
           r == RemoveAt(q, n)
<1>1. n \in 1 .. Len(q)
  OBVIOUS
<1>2. /\ a \in Seq(S) /\ Len(a) = n - 1
      /\ \A i \in 1 .. n - 1 : a[i] = q[i]
  <2>1. \A i \in 1 .. n - 1 : q[i] \in S
    BY <1>1
  <2>2. QED
    BY <1>1, <2>1, SubSeqProperties, Z3
<1>3. /\ b \in Seq(S) /\ Len(b) = Len(q) - n
      /\ \A i \in 1 .. Len(q) - n : b[i] = q[n + i]
  <2>1. \A i \in n + 1 .. Len(q) : q[i] \in S
    BY <1>1
  <2>2. QED
    BY <1>1, <2>1, SubSeqProperties, Z3
<1>4. r = a \o b
  BY DEF RemoveAt
<1> HIDE DEF a, b, r
<1>5. /\ r \in Seq(S) /\ Len(r) = Len(q) - 1
      /\ \A i \in 1 .. Len(r) : r[i] = IF i < n THEN q[i] ELSE q[i + 1]
  <2>1. /\ a \o b \in Seq(S) /\ Len(a \o b) = Len(a) + Len(b)
        /\ \A i \in 1 .. Len(a) + Len(b) :
             (a \o b)[i] = IF i <= Len(a) THEN a[i] ELSE b[i - Len(a)]
    BY <1>2, <1>3, ConcatProperties, Zenon
  <2>2. ASSUME NEW i \in 1 .. Len(q) - 1
        PROVE  (a \o b)[i] = IF i < n THEN q[i] ELSE q[i + 1]
    <3>1. (a \o b)[i] = IF i <= n - 1 THEN a[i] ELSE b[i - (n - 1)]
      BY <1>1, <1>2, <1>3, <2>1
    <3>2. CASE i < n
      BY <1>1, <1>2, <3>1, <3>2
    <3>3. CASE ~(i < n)
      <4>1. i - (n - 1) \in 1 .. Len(q) - n
        BY <1>1, <3>3
      <4>2. b[i - (n - 1)] = q[n + (i - (n - 1))]
        BY <1>3, <4>1
      <4>3. QED
        BY <1>1, <3>1, <3>3, <4>2
    <3>4. QED
      BY <3>2, <3>3
  <2>3. r \in Seq(S) /\ Len(r) = Len(q) - 1
    BY <1>1, <1>2, <1>3, <1>4, <2>1
  <2>4. QED
    BY <1>4, <2>2, <2>3, Zenon
<1>6. QED
  BY <1>5 DEF r

\* Entering a list at its end, and leaving it from the front.
LEMMA AppendIsInsert ==
  ASSUME NEW S, NEW q \in Seq(S), NEW t \in S
  PROVE  Append(q, t) = InsertAt(q, Len(q) + 1, t)
<1> DEFINE r == Append(q, t)
           x == InsertAt(q, Len(q) + 1, t)
<1>1. /\ r \in Seq(S) /\ Len(r) = Len(q) + 1
      /\ \A i \in 1 .. Len(q) : r[i] = q[i]
      /\ r[Len(q) + 1] = t
  BY AppendProperties
<1>2. Len(q) + 1 \in 1 .. Len(q) + 1 /\ Len(q) \in Nat
  OBVIOUS
<1>3. /\ x \in Seq(S) /\ Len(x) = Len(q) + 1
      /\ \A i \in 1 .. Len(x) : x[i] = IF i < Len(q) + 1 THEN q[i]
                                       ELSE IF i = Len(q) + 1 THEN t ELSE q[i - 1]
  BY SMTT(60), <1>2, InsertAtEntries
<1> HIDE DEF r, x
<1>4. ASSUME NEW i \in 1 .. Len(r) PROVE r[i] = x[i]
  <2>1. i < Len(q) + 1 \/ i = Len(q) + 1
    BY <1>1, <1>2
  <2>2. QED
    BY <1>1, <1>2, <1>3, <2>1
<1>5. r = x
  BY <1>1, <1>3, <1>4, SeqEqual
<1>6. QED
  BY <1>5 DEF r, x

LEMMA TailIsRemove ==
  ASSUME NEW S, NEW q \in Seq(S), q # << >>
  PROVE  Tail(q) = RemoveAt(q, 1)
<1> DEFINE r == Tail(q)
           x == RemoveAt(q, 1)
<1>1. /\ r \in Seq(S) /\ Len(r) = Len(q) - 1
      /\ \A i \in 1 .. Len(r) : r[i] = q[i + 1]
  BY HeadTailProperties
<1>2. 1 \in 1 .. Len(q) /\ Len(q) \in Nat
  OBVIOUS
<1>3. /\ x \in Seq(S) /\ Len(x) = Len(q) - 1
      /\ \A i \in 1 .. Len(x) : x[i] = IF i < 1 THEN q[i] ELSE q[i + 1]
  BY <1>2, RemoveAtEntries
<1> HIDE DEF r, x
<1>4. \A i \in 1 .. Len(r) : r[i] = x[i]
  BY <1>1, <1>2, <1>3
<1>5. r = x
  BY <1>1, <1>3, <1>4, SeqEqual
<1>6. QED
  BY <1>5 DEF r, x

\* Unlinking t removes one of its entries.
LEMMA QueueDeleteEntries ==
  ASSUME NEW S, NEW q \in Seq(S), NEW t, t \in ToSet(q)
  PROVE  \E n \in 1 .. Len(q) :
           LET r == queue_delete(q, t)
           IN  /\ q[n] = t /\ r = RemoveAt(q, n)
               /\ r \in Seq(S) /\ Len(r) = Len(q) - 1
               /\ \A i \in 1 .. Len(r) : r[i] = IF i < n THEN q[i] ELSE q[i + 1]
<1> DEFINE n == CHOOSE i \in DOMAIN q : q[i] = t
<1>1. n \in 1 .. Len(q) /\ q[n] = t
  BY DEF ToSet
<1>2. queue_delete(q, t) = RemoveAt(q, n)
  BY DEF queue_delete
<1> HIDE DEF n
<1>3. LET r == RemoveAt(q, n)
      IN  /\ r \in Seq(S) /\ Len(r) = Len(q) - 1
          /\ \A i \in 1 .. Len(r) : r[i] = IF i < n THEN q[i] ELSE q[i + 1]
  BY <1>1, RemoveAtEntries
<1>4. QED
  BY <1>1, <1>2, <1>3, Zenon

\* Unlinking t from a list removes it and keeps the other entries; the first
\* entry stays the first unless it is the one that leaves.
LEMMA QueueDelete ==
  ASSUME NEW S, NEW q \in Seq(S), NEW t, t \in ToSet(q), IsInjective(q)
  PROVE  LET r == queue_delete(q, t)
         IN  /\ r \in Seq(S)
             /\ IsInjective(r)
             /\ ToSet(r) = ToSet(q) \ {t}
             /\ Head(q) # t => r # << >> /\ Head(r) = Head(q)
<1> DEFINE r == queue_delete(q, t)
<1>1. PICK n \in 1 .. Len(q) :
         /\ q[n] = t
         /\ r \in Seq(S) /\ Len(r) = Len(q) - 1
         /\ \A i \in 1 .. Len(r) : r[i] = IF i < n THEN q[i] ELSE q[i + 1]
  BY QueueDeleteEntries
<1> HIDE DEF r
<1>2. \A i, j \in 1 .. Len(q) : q[i] = q[j] => i = j
  BY DEF IsInjective
<1>3. IsInjective(r)
  BY <1>1, <1>2 DEF IsInjective
<1>4. ToSet(r) \subseteq ToSet(q) \ {t}
  BY <1>1, <1>2 DEF ToSet
<1>5. ASSUME NEW u \in ToSet(q), u # t
      PROVE  u \in ToSet(r)
  <2>1. PICK i \in 1 .. Len(q) : q[i] = u
    BY DEF ToSet
  <2>2. CASE i < n
    BY <2>1, <2>2, <1>1 DEF ToSet
  <2>3. CASE i > n
    <3>1. i - 1 \in 1 .. Len(r) /\ r[i - 1] = q[i]
      BY <2>3, <1>1
    <3>2. QED
      BY <2>1, <3>1 DEF ToSet
  <2>4. QED
    BY <2>1, <2>2, <2>3, <1>1, <1>5
<1>6. ASSUME Head(q) # t
       PROVE  r # << >> /\ Head(r) = Head(q)
  <2>1. n > 1 /\ Len(q) > 1
    BY <1>1, <1>6
  <2>2. QED
    BY <2>1, <1>1
<1>7. QED
  BY <1>1, <1>3, <1>4, <1>5, <1>6 DEF r

\* A task enters a list that does not hold it as its last entry.
LEMMA QueueAppend ==
  ASSUME NEW S, NEW q \in Seq(S), NEW t \in S, t \notin ToSet(q), IsInjective(q)
  PROVE  LET r == Append(q, t)
         IN  /\ r \in Seq(S) /\ r # << >>
             /\ IsInjective(r)
             /\ ToSet(r) = ToSet(q) \cup {t}
             /\ Head(r) = IF q = << >> THEN t ELSE Head(q)
<1> DEFINE r == Append(q, t)
<1>1. /\ r \in Seq(S) /\ Len(r) = Len(q) + 1 /\ r # << >>
      /\ \A i \in 1 .. Len(q) : r[i] = q[i]
      /\ r[Len(q) + 1] = t
  BY AppendProperties
<1>2. Head(r) = IF q = << >> THEN t ELSE Head(q)
  BY HeadTailAppend
<1> HIDE DEF r
<1>3. \A i \in 1 .. Len(q) : q[i] # t
  BY DEF ToSet
<1>4. IsInjective(r)
  BY <1>1, <1>3 DEF IsInjective
<1>5. ToSet(r) = ToSet(q) \cup {t}
  BY <1>1 DEF ToSet
<1>6. QED
  BY <1>1, <1>2, <1>4, <1>5 DEF r

\* ... or as its first entry.
LEMMA QueuePrepend ==
  ASSUME NEW S, NEW q \in Seq(S), NEW t \in S, t \notin ToSet(q), IsInjective(q)
  PROVE  LET r == << t >> \o q
         IN  /\ r \in Seq(S) /\ r # << >>
             /\ IsInjective(r)
             /\ ToSet(r) = ToSet(q) \cup {t}
             /\ Head(r) = t
<1> DEFINE r == << t >> \o q
<1>1. << t >> \in Seq(S) /\ Len(<< t >>) = 1 /\ << t >>[1] = t
  OBVIOUS
<1>2. /\ r \in Seq(S) /\ Len(r) = Len(q) + 1
      /\ \A i \in 1 .. Len(q) + 1 : r[i] = IF i = 1 THEN t ELSE q[i - 1]
  <2>1. /\ r \in Seq(S) /\ Len(r) = 1 + Len(q)
        /\ \A i \in 1 .. 1 + Len(q) : r[i] = IF i <= 1 THEN << t >>[i] ELSE q[i - 1]
    BY <1>1, ConcatProperties
  <2> HIDE DEF r
  <2>2. QED
    BY <1>1, <2>1
<1> HIDE DEF r
<1>3. \A i \in 1 .. Len(q) : q[i] # t
  BY DEF ToSet
<1>4. IsInjective(r)
  <2>1. \A i, j \in 1 .. Len(q) : q[i] = q[j] => i = j
    BY DEF IsInjective
  <2>2. ASSUME NEW i \in 1 .. Len(q) + 1, NEW j \in 1 .. Len(q) + 1, r[i] = r[j]
        PROVE  i = j
    <3>1. i # 1 => i - 1 \in 1 .. Len(q) /\ r[i] = q[i - 1]
      BY <1>2
    <3>2. j # 1 => j - 1 \in 1 .. Len(q) /\ r[j] = q[j - 1]
      BY <1>2
    <3>3. r[1] = t
      BY <1>2
    <3>4. QED
      BY <1>3, <2>1, <2>2, <3>1, <3>2, <3>3
  <2>3. QED
    BY <1>2, <2>2 DEF IsInjective
<1>5. ToSet(r) \subseteq ToSet(q) \cup {t}
  BY <1>2 DEF ToSet
<1>6. t \in ToSet(r)
  BY <1>2 DEF ToSet
<1>7. ASSUME NEW u \in ToSet(q)
      PROVE  u \in ToSet(r)
  <2>1. PICK i \in 1 .. Len(q) : q[i] = u
    BY DEF ToSet
  <2>2. i + 1 \in 1 .. Len(r) /\ r[i + 1] = u
    BY <1>2, <2>1
  <2>3. QED
    BY <1>2, <2>2 DEF ToSet
<1>8. r # << >> /\ Head(r) = t
  BY <1>2
<1>9. ToSet(r) = ToSet(q) \cup {t}
  BY <1>5, <1>6, <1>7
<1>10. QED
  BY <1>2, <1>4, <1>8, <1>9 DEF r

\* A rotation keeps the entries of a list; its second entry becomes the first.
LEMMA QueueRotate ==
  ASSUME NEW S, NEW q \in Seq(S), Len(q) >= 2, IsInjective(q)
  PROVE  LET r == Append(Tail(q), Head(q))
         IN  /\ r \in Seq(S) /\ r # << >>
             /\ IsInjective(r)
             /\ ToSet(r) = ToSet(q)
             /\ Head(r) \in ToSet(q)
<1> DEFINE w == Tail(q)
           r == Append(w, Head(q))
<1>1. /\ q # << >> /\ Head(q) = q[1] /\ Head(q) \in S
      /\ w \in Seq(S) /\ Len(w) = Len(q) - 1
      /\ \A i \in 1 .. Len(w) : w[i] = q[i + 1]
  BY HeadTailProperties
<1>2. \A i, j \in 1 .. Len(q) : q[i] = q[j] => i = j
  BY DEF IsInjective
<1> HIDE DEF w
<1>3. IsInjective(w) /\ Head(q) \notin ToSet(w)
  <2>1. ASSUME NEW i \in 1 .. Len(w), NEW j \in 1 .. Len(w), w[i] = w[j]
        PROVE  i = j
    <3>1. i + 1 \in 1 .. Len(q) /\ j + 1 \in 1 .. Len(q) /\ q[i + 1] = q[j + 1]
      BY <1>1, <2>1
    <3>2. QED
      BY <1>2, <3>1
  <2>2. ASSUME NEW i \in 1 .. Len(w)
        PROVE  w[i] # Head(q)
    <3>1. i + 1 \in 1 .. Len(q) /\ 1 \in 1 .. Len(q) /\ w[i] = q[i + 1]
      BY <1>1
    <3>2. QED
      BY <1>1, <1>2, <3>1
  <2>3. QED
    BY <1>1, <2>1, <2>2 DEF IsInjective, ToSet
<1>4. /\ r \in Seq(S) /\ r # << >> /\ IsInjective(r)
      /\ ToSet(r) = ToSet(w) \cup {Head(q)}
      /\ Head(r) \in ToSet(r)
  <2>1. /\ r \in Seq(S) /\ r # << >> /\ IsInjective(r)
        /\ ToSet(r) = ToSet(w) \cup {Head(q)}
    BY <1>1, <1>3, QueueAppend
  <2> HIDE DEF r
  <2>2. QED
    BY <2>1, HeadIsEntry
<1>5. ToSet(w) \cup {Head(q)} = ToSet(q)
  <2>1. ToSet(w) \cup {Head(q)} \subseteq ToSet(q)
    BY <1>1 DEF ToSet
  <2>2. ASSUME NEW u \in ToSet(q), u # Head(q)
        PROVE  u \in ToSet(w)
    <3>1. PICK i \in 1 .. Len(q) : q[i] = u
      BY DEF ToSet
    <3>2. i - 1 \in 1 .. Len(w) /\ w[i - 1] = u
      BY <1>1, <2>2, <3>1
    <3>3. QED
      BY <1>1, <3>2 DEF ToSet
  <2>3. QED
    BY <2>1, <2>2
<1>6. QED
  BY <1>4, <1>5 DEF r, w

-----------------------------------------------------------------------------
(***************************************************************************)
(* The functions of task.c.                                                *)
(***************************************************************************)
\* make_runnable, for a task that is not runnable.
LEMMA MakeRunnable_Correct ==
  ASSUME NEW rq \in ReadyQueueType, NEW runnable \in SUBSET Task,
         ReadyQueueInv(rq, runnable),
         NEW t \in Task, t \notin runnable
  PROVE  /\ make_runnable(rq, t) \in ReadyQueueType
         /\ ReadyQueueInv(make_runnable(rq, t), runnable \cup {t})
<1> DEFINE pri == rq.priority[t]
           q   == rq.ready_queue[pri]
           r   == Append(q, t)
           rq2 == make_runnable(rq, t)
<1>1. /\ rq.ready_queue \in [Pri -> Seq(Task)] /\ rq.ready_primap \in SUBSET Pri
      /\ rq.schedtsk \in Task \cup {NoTask} /\ rq.priority \in [Task -> Pri]
      /\ pri \in Pri /\ q \in Seq(Task)
  BY DEF ReadyQueueType
<1>2. /\ QueuedWhereRunnable(rq, runnable) /\ QueuedOnce(rq)
      /\ PrimapExact(rq) /\ SchedtskIsFirst(rq)
  BY DEF ReadyQueueInv
<1>3. t \notin ToSet(q) /\ IsInjective(q)
  BY <1>1, <1>2 DEF QueuedWhereRunnable, QueuedOnce
<1>4. /\ r \in Seq(Task) /\ r # << >> /\ IsInjective(r)
      /\ ToSet(r) = ToSet(q) \cup {t}
      /\ Head(r) = IF q = << >> THEN t ELSE Head(q)
  BY <1>1, <1>3, QueueAppend
<1>5. /\ rq2.ready_queue = [rq.ready_queue EXCEPT ![pri] = r]
      /\ rq2.ready_primap = rq.ready_primap \cup {pri}
      /\ rq2.schedtsk = IF rq.schedtsk = NoTask \/ pri < rq.priority[rq.schedtsk]
                        THEN t ELSE rq.schedtsk
      /\ rq2.priority = rq.priority
  BY DEF make_runnable, ReadyQueueType
<1>6. rq2 \in ReadyQueueType
  BY <1>1, <1>4 DEF make_runnable, ReadyQueueType
<1> HIDE DEF r, rq2
<1> HIDE DEF pri, q
<1>7. /\ \A p \in Pri : rq2.ready_queue[p] = IF p = pri THEN r ELSE rq.ready_queue[p]
      /\ rq2.ready_primap = rq.ready_primap \cup {pri}
      /\ rq2.schedtsk = IF rq.schedtsk = NoTask \/ pri < rq.priority[rq.schedtsk]
                        THEN t ELSE rq.schedtsk
      /\ rq2.priority = rq.priority
  BY <1>1, <1>5
<1>8. QueuedWhereRunnable(rq2, runnable \cup {t})
  <2>1. ASSUME NEW u \in Task, NEW p \in Pri
        PROVE  u \in ToSet(rq2.ready_queue[p]) <=>
                 u \in runnable \cup {t} /\ p = rq2.priority[u]
    BY <1>2, <1>4, <1>7, <2>1 DEF QueuedWhereRunnable, pri, q
  <2>2. QED
    BY <2>1 DEF QueuedWhereRunnable
<1>9. QueuedOnce(rq2)
  BY <1>2, <1>4, <1>7 DEF QueuedOnce
<1>10. PrimapExact(rq2)
  BY <1>2, <1>4, <1>7 DEF PrimapExact
<1>11. SchedtskIsFirst(rq2)
  <2>1. \A p \in rq2.ready_primap : p \in Nat
    BY <1>1, <1>7 DEF Pri
  <2>2. CASE rq.schedtsk = NoTask
    <3>1. rq.ready_primap = {}
      BY <1>2, <2>2 DEF SchedtskIsFirst
    <3>2. q = << >>
      BY <1>1, <1>2, <3>1 DEF PrimapExact, q
    <3>3. rq2.schedtsk = t /\ rq2.ready_queue[pri] = r /\ rq2.ready_primap = {pri}
      BY <1>1, <1>7, <2>2, <3>1
    <3>4. pri <= pri
      BY <1>1 DEF Pri
    <3>5. QED
      BY <1>4, <1>7, <3>2, <3>3, <3>4, NoTaskAssumption DEF SchedtskIsFirst, pri
  <2>3. CASE rq.schedtsk # NoTask
    <3> DEFINE s == rq.schedtsk
               sp == rq.priority[s]
    <3>1. /\ s \in Task /\ sp \in Pri /\ sp \in Nat /\ pri \in Nat
          /\ rq.ready_queue[sp] # << >> /\ s = Head(rq.ready_queue[sp])
          /\ \A p \in rq.ready_primap : sp <= p
      BY <1>1, <1>2, <2>3 DEF SchedtskIsFirst, Pri
    <3>2. CASE pri < sp
      <4>1. pri \notin rq.ready_primap
        BY <3>1, <3>2
      <4>2. q = << >>
        BY <1>1, <1>2, <4>1 DEF PrimapExact, q
      <4>3. rq2.schedtsk = t /\ rq2.ready_queue[pri] = r
        BY <1>1, <1>7, <3>2
      <4>4. \A p \in rq2.ready_primap : pri <= p
        BY <1>7, <2>1, <3>1, <3>2
      <4>5. QED
        BY <1>1, <1>4, <1>7, <4>2, <4>3, <4>4, NoTaskAssumption DEF SchedtskIsFirst, pri
    <3>3. CASE ~(pri < sp)
      <4>1. rq2.schedtsk = s
        BY <1>7, <2>3, <3>3
      <4>2. rq2.ready_queue[sp] # << >> /\ Head(rq2.ready_queue[sp]) = s
        BY <1>4, <1>7, <3>1 DEF q
      <4>3. \A p \in rq2.ready_primap : sp <= p
        BY <1>7, <2>1, <3>1, <3>3
      <4>4. QED
        BY <1>7, <2>3, <4>1, <4>2, <4>3 DEF SchedtskIsFirst
    <3>4. QED
      BY <3>2, <3>3
  <2>4. QED
    BY <2>2, <2>3
<1>12. QED
  BY <1>6, <1>8, <1>9, <1>10, <1>11 DEF ReadyQueueInv, rq2

\* make_non_runnable, for a runnable task.
LEMMA MakeNonRunnable_Correct ==
  ASSUME NEW rq \in ReadyQueueType, NEW runnable \in SUBSET Task,
         ReadyQueueInv(rq, runnable),
         NEW t \in runnable
  PROVE  /\ make_non_runnable(rq, t) \in ReadyQueueType
         /\ ReadyQueueInv(make_non_runnable(rq, t), runnable \ {t})
<1> DEFINE pri    == rq.priority[t]
           q      == rq.ready_queue[pri]
           r      == queue_delete(q, t)
           queue  == [rq.ready_queue EXCEPT ![pri] = r]
           primap == rq.ready_primap \ (IF r = << >> THEN {pri} ELSE {})
           rq2    == make_non_runnable(rq, t)
<1>1. /\ rq.ready_queue \in [Pri -> Seq(Task)] /\ rq.ready_primap \in SUBSET Pri
      /\ rq.schedtsk \in Task \cup {NoTask} /\ rq.priority \in [Task -> Pri]
      /\ t \in Task /\ pri \in Pri /\ q \in Seq(Task)
  BY DEF ReadyQueueType
<1>2. /\ QueuedWhereRunnable(rq, runnable) /\ QueuedOnce(rq)
      /\ PrimapExact(rq) /\ SchedtskIsFirst(rq)
  BY DEF ReadyQueueInv
<1>3. t \in ToSet(q) /\ IsInjective(q)
  BY <1>1, <1>2 DEF QueuedWhereRunnable, QueuedOnce
<1>4. /\ r \in Seq(Task) /\ IsInjective(r)
      /\ ToSet(r) = ToSet(q) \ {t}
      /\ Head(q) # t => r # << >> /\ Head(r) = Head(q)
  BY <1>1, <1>3, QueueDelete
<1>5. rq2 = [rq EXCEPT !.ready_queue = queue,
                       !.ready_primap = primap,
                       !.schedtsk = IF @ # t THEN @
                                    ELSE IF r # << >> THEN Head(r)
                                    ELSE IF primap = {} THEN NoTask
                                    ELSE search_schedtsk(queue, primap)]
  BY Zenon DEF make_non_runnable
<1> HIDE DEF r, rq2
<1>6. /\ queue \in [Pri -> Seq(Task)] /\ primap \in SUBSET Pri
      /\ \A p \in Pri : queue[p] = IF p = pri THEN r ELSE rq.ready_queue[p]
  BY <1>1, <1>4
<1> HIDE DEF pri, q
<1>7. \A p \in Pri : p \in primap <=> queue[p] # << >>
  <2>1. pri \in rq.ready_primap
    BY <1>1, <1>2, <1>3 DEF PrimapExact, q, ToSet
  <2>2. QED
    BY <1>2, <1>6, <2>1 DEF PrimapExact
<1>8. primap # {} =>
        LET m == primap_search(primap)
        IN  /\ m \in primap /\ \A p \in primap : m <= p
            /\ queue[m] # << >>
            /\ search_schedtsk(queue, primap) = Head(queue[m])
  <2>1. primap \in SUBSET Nat
    BY <1>6 DEF Pri
  <2> HIDE DEF primap, queue
  <2>2. QED
    BY <1>6, <1>7, <2>1, SearchFindsMinimum DEF search_schedtsk
<1> HIDE DEF primap, queue
<1>9. /\ rq2.ready_queue = queue /\ rq2.ready_primap = primap
      /\ rq2.priority = rq.priority
      /\ rq2.schedtsk = IF rq.schedtsk # t THEN rq.schedtsk
                        ELSE IF r # << >> THEN Head(r)
                        ELSE IF primap = {} THEN NoTask
                        ELSE search_schedtsk(queue, primap)
  <2> HIDE DEF queue, primap
  <2>1. QED
    BY <1>5 DEF ReadyQueueType
\* Whoever is first in a list has the priority of that list.
<1>10. ASSUME NEW p \in Pri, queue[p] # << >>
       PROVE  Head(queue[p]) \in Task /\ rq.priority[Head(queue[p])] = p
  <2>1. Head(queue[p]) \in ToSet(queue[p]) /\ Head(queue[p]) \in Task
    BY <1>6, <1>10, HeadIsEntry
  <2>2. ToSet(queue[p]) \subseteq ToSet(rq.ready_queue[p])
    BY <1>4, <1>6 DEF q
  <2>3. QED
    BY <1>2, <2>1, <2>2 DEF QueuedWhereRunnable
<1>11. rq2.schedtsk \in Task \cup {NoTask}
  <2>1. r # << >> => Head(r) \in Task
    BY <1>4, HeadIsEntry
  <2>2. primap # {} => search_schedtsk(queue, primap) \in Task
    BY <1>6, <1>8, <1>10
  <2>3. QED
    BY <1>1, <1>9, <2>1, <2>2
<1>12. rq2 \in ReadyQueueType
  BY <1>5, <1>6, <1>9, <1>11 DEF ReadyQueueType
<1>13. QueuedWhereRunnable(rq2, runnable \ {t})
  <2>1. ASSUME NEW u \in Task, NEW p \in Pri
        PROVE  u \in ToSet(rq2.ready_queue[p]) <=>
                 u \in runnable \ {t} /\ p = rq2.priority[u]
    BY <1>2, <1>4, <1>6, <1>9 DEF QueuedWhereRunnable, pri, q
  <2>2. QED
    BY <2>1 DEF QueuedWhereRunnable
<1>14. QueuedOnce(rq2)
  BY <1>2, <1>4, <1>6, <1>9 DEF QueuedOnce
<1>15. PrimapExact(rq2)
  BY <1>7, <1>9 DEF PrimapExact
<1>16. SchedtskIsFirst(rq2)
  <2>1. rq.schedtsk = NoTask => rq.ready_primap = {}
    BY <1>2 DEF SchedtskIsFirst
  <2>2. rq.schedtsk # NoTask
    <3>1. pri \in rq.ready_primap
      BY <1>1, <1>2, <1>3 DEF PrimapExact, q, ToSet
    <3>2. QED
      BY <2>1, <3>1
  <2> DEFINE s == rq.schedtsk
             sp == rq.priority[s]
  <2>3. /\ s \in Task /\ sp \in Pri
        /\ rq.ready_queue[sp] # << >> /\ s = Head(rq.ready_queue[sp])
        /\ \A p \in rq.ready_primap : sp <= p
    BY <1>1, <1>2, <2>2 DEF SchedtskIsFirst
  <2>4. primap \subseteq rq.ready_primap
    BY DEF primap
  <2>5. CASE s # t
    <3>1. queue[sp] # << >> /\ Head(queue[sp]) = s
      BY <1>4, <1>6, <2>3, <2>5 DEF q
    <3>2. QED
      BY <1>9, <2>2, <2>3, <2>4, <2>5, <3>1 DEF SchedtskIsFirst
  <2>6. CASE s = t
    <3>1. sp = pri
      BY <2>6 DEF pri
    <3>2. CASE r # << >>
      <4>1. queue[pri] = r /\ rq2.schedtsk = Head(r)
        BY <1>1, <1>6, <1>9, <2>6, <3>2
      <4>2. Head(r) \in Task /\ rq.priority[Head(r)] = pri
        BY <1>1, <1>10, <3>2, <4>1
      <4>3. QED
        BY <1>9, <2>3, <2>4, <3>1, <3>2, <4>1, <4>2, NoTaskAssumption DEF SchedtskIsFirst
    <3>3. CASE r = << >> /\ primap = {}
      BY <1>9, <2>6, <3>3 DEF SchedtskIsFirst
    <3>4. CASE r = << >> /\ primap # {}
      <4> DEFINE m == primap_search(primap)
      <4>1. /\ m \in primap /\ \A p \in primap : m <= p
            /\ queue[m] # << >> /\ rq2.schedtsk = Head(queue[m])
        BY <1>8, <1>9, <2>6, <3>4
      <4> HIDE DEF m
      <4>2. m \in Pri
        BY <1>6, <4>1
      <4>3. Head(queue[m]) \in Task /\ rq.priority[Head(queue[m])] = m
        BY <1>10, <4>1, <4>2
      <4>4. QED
        BY <1>9, <4>1, <4>3, NoTaskAssumption DEF SchedtskIsFirst
    <3>5. QED
      BY <3>2, <3>3, <3>4
  <2>7. QED
    BY <2>5, <2>6
<1>17. QED
  BY <1>12, <1>13, <1>14, <1>15, <1>16 DEF ReadyQueueInv, rq2

\* requeue, for a runnable task, in both modes.
LEMMA Requeue_Correct ==
  ASSUME NEW rq \in ReadyQueueType, NEW runnable \in SUBSET Task,
         ReadyQueueInv(rq, runnable),
         NEW t \in runnable, NEW newpri \in Pri, NEW mtxmode \in BOOLEAN
  PROVE  /\ requeue(rq, t, newpri, mtxmode) \in ReadyQueueType
         /\ ReadyQueueInv(requeue(rq, t, newpri, mtxmode), runnable)
<1> DEFINE oldpri == rq.priority[t]
           q      == rq.ready_queue[oldpri]
           left   == queue_delete(q, t)
           others == [rq.ready_queue EXCEPT ![oldpri] = left]
           clear  == rq.ready_primap \ (IF left = << >> THEN {oldpri} ELSE {})
           q2     == others[newpri]
           r2     == IF mtxmode THEN << t >> \o q2 ELSE Append(q2, t)
           queue  == [others EXCEPT ![newpri] = r2]
           primap == clear \cup {newpri}
           above  == IF mtxmode THEN newpri <= rq.priority[rq.schedtsk]
                                ELSE newpri < rq.priority[rq.schedtsk]
           rq2    == requeue(rq, t, newpri, mtxmode)
<1>1. /\ rq.ready_queue \in [Pri -> Seq(Task)] /\ rq.ready_primap \in SUBSET Pri
      /\ rq.schedtsk \in Task \cup {NoTask} /\ rq.priority \in [Task -> Pri]
      /\ t \in Task /\ oldpri \in Pri /\ q \in Seq(Task)
  BY DEF ReadyQueueType
<1>2. /\ QueuedWhereRunnable(rq, runnable) /\ QueuedOnce(rq)
      /\ PrimapExact(rq) /\ SchedtskIsFirst(rq)
  BY DEF ReadyQueueInv
<1>3. t \in ToSet(q) /\ IsInjective(q)
  BY <1>1, <1>2 DEF QueuedWhereRunnable, QueuedOnce
<1>4. /\ left \in Seq(Task) /\ IsInjective(left)
      /\ ToSet(left) = ToSet(q) \ {t}
      /\ Head(q) # t => left # << >> /\ Head(left) = Head(q)
  BY <1>1, <1>3, QueueDelete
<1>5. rq2 = [rq EXCEPT !.ready_queue = queue,
                       !.ready_primap = primap,
                       !.priority[t] = newpri,
                       !.schedtsk = IF @ = t
                                    THEN IF newpri >= oldpri
                                         THEN search_schedtsk(queue, primap) ELSE @
                                    ELSE IF above THEN t ELSE @]
  BY Zenon DEF requeue
<1> HIDE DEF left, rq2
<1>6. /\ others \in [Pri -> Seq(Task)]
      /\ \A p \in Pri : others[p] = IF p = oldpri THEN left ELSE rq.ready_queue[p]
  BY <1>1, <1>4
<1>7. \A p \in Pri : t \notin ToSet(others[p]) /\ IsInjective(others[p])
  BY <1>1, <1>2, <1>4, <1>6 DEF QueuedWhereRunnable, QueuedOnce
<1> HIDE DEF others
<1>8. /\ r2 \in Seq(Task) /\ r2 # << >> /\ IsInjective(r2)
      /\ ToSet(r2) = ToSet(q2) \cup {t}
      /\ Head(r2) = IF mtxmode \/ q2 = << >> THEN t ELSE Head(q2)
  <2>1. q2 \in Seq(Task) /\ t \notin ToSet(q2) /\ IsInjective(q2)
    BY <1>6, <1>7
  <2> HIDE DEF q2
  <2>2. CASE mtxmode
    <3>1. r2 = << t >> \o q2
      BY <2>2
    <3>2. QED
      BY <1>1, <2>1, <2>2, <3>1, QueuePrepend
  <2>3. CASE ~mtxmode
    <3>1. r2 = Append(q2, t)
      BY <2>3
    <3>2. QED
      BY <1>1, <2>1, <2>3, <3>1, QueueAppend
  <2>4. QED
    BY <2>2, <2>3
<1> HIDE DEF r2
<1>9. /\ queue \in [Pri -> Seq(Task)] /\ primap \in SUBSET Pri
      /\ \A p \in Pri : queue[p] = IF p = newpri THEN r2 ELSE others[p]
  BY <1>1, <1>6, <1>8
<1>10. \A p \in Pri : p \in primap <=> queue[p] # << >>
  <2>1. \A p \in Pri : p \in clear <=> others[p] # << >>
    <3>1. oldpri \in rq.ready_primap
      BY <1>1, <1>2, <1>3 DEF PrimapExact, ToSet
    <3>2. QED
      BY <1>2, <1>6, <3>1 DEF PrimapExact
  <2>2. QED
    BY <1>8, <1>9, <2>1
<1> HIDE DEF oldpri, q, q2
<1>11. LET m == primap_search(primap)
       IN  /\ m \in primap /\ \A p \in primap : m <= p
           /\ queue[m] # << >>
           /\ search_schedtsk(queue, primap) = Head(queue[m])
  <2>1. primap \in SUBSET Nat /\ primap # {}
    BY <1>9 DEF Pri
  <2> HIDE DEF primap, queue
  <2>2. QED
    BY <1>9, <1>10, <2>1, SearchFindsMinimum DEF search_schedtsk
<1>12. newpri \in primap /\ primap \subseteq rq.ready_primap \cup {newpri}
  OBVIOUS
<1> HIDE DEF primap, queue, above
<1>13. /\ rq2.ready_queue = queue /\ rq2.ready_primap = primap
       /\ rq2.priority = [rq.priority EXCEPT ![t] = newpri]
       /\ rq2.schedtsk = IF rq.schedtsk = t
                         THEN IF newpri >= oldpri THEN search_schedtsk(queue, primap)
                              ELSE rq.schedtsk
                         ELSE IF above THEN t ELSE rq.schedtsk
  BY <1>5 DEF ReadyQueueType
<1>14. /\ rq2.priority \in [Task -> Pri]
       /\ rq2.priority[t] = newpri
       /\ \A u \in Task : u # t => rq2.priority[u] = rq.priority[u]
  BY <1>1, <1>13
<1>15. QueuedWhereRunnable(rq2, runnable)
  <2>1. ASSUME NEW u \in Task, NEW p \in Pri
        PROVE  u \in ToSet(queue[p]) <=> u \in runnable /\ p = rq2.priority[u]
    <3>1. u \in ToSet(others[p]) <=> u \in runnable /\ u # t /\ p = rq.priority[u]
      BY ZenonT(60), <1>1, <1>2, <1>4, <1>6 DEF QueuedWhereRunnable, oldpri, q
    <3>2. u \in ToSet(queue[p]) <=> (u \in ToSet(others[p]) \/ (u = t /\ p = newpri))
      BY <1>7, <1>8, <1>9 DEF q2
    <3>3. QED
      BY <1>14, <3>1, <3>2
  <2>2. QED
    BY <1>13, <2>1 DEF QueuedWhereRunnable
<1>16. QueuedOnce(rq2)
  BY <1>7, <1>8, <1>9, <1>13 DEF QueuedOnce
<1>17. PrimapExact(rq2)
  BY <1>10, <1>13 DEF PrimapExact
\* Whoever is first in a list has the priority of that list.
<1>18. ASSUME NEW p \in Pri, queue[p] # << >>
       PROVE  Head(queue[p]) \in Task /\ rq2.priority[Head(queue[p])] = p
  <2>1. Head(queue[p]) \in ToSet(queue[p]) /\ Head(queue[p]) \in Task
    BY <1>9, <1>18, HeadIsEntry
  <2>2. QED
    BY <1>13, <1>15, <2>1 DEF QueuedWhereRunnable
<1>19. /\ rq.schedtsk \in Task
       /\ rq.ready_queue[rq.priority[rq.schedtsk]] # << >>
       /\ rq.schedtsk = Head(rq.ready_queue[rq.priority[rq.schedtsk]])
       /\ \A p \in rq.ready_primap : rq.priority[rq.schedtsk] <= p
  <2>1. oldpri \in rq.ready_primap
    BY <1>1, <1>2, <1>3 DEF PrimapExact, ToSet, q
  <2>2. QED
    BY <1>1, <1>2, <2>1 DEF SchedtskIsFirst
<1>20. \A p \in Pri : p \in Nat
  BY DEF Pri
<1>21. SchedtskIsFirst(rq2)
  <2> DEFINE s == rq.schedtsk
             sp == rq.priority[s]
             m == primap_search(primap)
  <2>1. sp \in Pri /\ sp \in Nat /\ newpri \in Nat /\ oldpri \in Nat
    BY <1>1, <1>19, <1>20
  <2>2. CASE s = t /\ newpri >= oldpri
    <3>1. /\ m \in primap /\ (\A p \in primap : m <= p)
          /\ queue[m] # << >> /\ rq2.schedtsk = Head(queue[m])
      BY <1>11, <1>13, <2>2
    <3> HIDE DEF m
    <3>2. Head(queue[m]) \in Task /\ rq2.priority[Head(queue[m])] = m
      BY <1>9, <1>18, <3>1
    <3>3. QED
      BY <1>13, <3>1, <3>2, NoTaskAssumption DEF SchedtskIsFirst
  \* It was the first and goes up: nobody else is there.
  <2>3. CASE s = t /\ ~(newpri >= oldpri)
    <3>1. newpri \notin rq.ready_primap /\ newpri # oldpri
      BY <1>19, <2>1, <2>3 DEF oldpri
    <3>2. q2 = << >>
      BY <1>2, <1>6, <3>1 DEF PrimapExact, q2
    <3>3. rq2.schedtsk = t /\ queue[newpri] = r2 /\ Head(r2) = t
      BY <1>8, <1>9, <1>13, <2>3, <3>2
    <3>4. \A p \in primap : newpri <= p
      BY <1>12, <1>19, <1>20, <2>1, <2>3, <1>1 DEF oldpri
    <3>5. QED
      BY <1>1, <1>8, <1>13, <1>14, <3>3, <3>4, NoTaskAssumption DEF SchedtskIsFirst
  <2>4. CASE s # t /\ above
    <3>1. mtxmode \/ q2 = << >>
      <4>1. ASSUME ~mtxmode PROVE q2 = << >>
        <5>1. newpri < sp
          BY <2>4, <4>1 DEF above
        <5>2. newpri \notin rq.ready_primap
          BY <1>19, <2>1, <5>1
        <5>3. rq.ready_queue[newpri] = << >>
          BY <1>2, <5>2 DEF PrimapExact
        <5>4. newpri # oldpri
          <6>1. t \notin ToSet(rq.ready_queue[newpri])
            BY <5>3 DEF ToSet
          <6>2. QED
            BY <1>3, <6>1 DEF q
        <5>5. QED
          BY <1>6, <5>3, <5>4 DEF q2
      <4>2. QED
        BY <4>1
    <3>2. rq2.schedtsk = t /\ queue[newpri] = r2 /\ Head(r2) = t
      BY <1>8, <1>9, <1>13, <2>4, <3>1
    <3>3. newpri <= sp
      BY <2>1, <2>4 DEF above
    <3>4. \A p \in primap : newpri <= p
      BY <1>1, <1>12, <1>19, <1>20, <2>1, <3>3
    <3>5. QED
      BY <1>1, <1>8, <1>13, <1>14, <3>2, <3>4, NoTaskAssumption DEF SchedtskIsFirst
  <2>5. CASE s # t /\ ~above
    <3>1. rq2.schedtsk = s /\ rq2.priority[s] = sp
      BY <1>13, <1>14, <1>19, <2>5
    <3>2. sp <= newpri /\ (mtxmode => sp # newpri)
      BY <2>1, <2>5 DEF above
    <3>3. others[sp] # << >> /\ Head(others[sp]) = s
      BY <1>4, <1>6, <1>19, <2>1, <2>5 DEF q
    <3>4. queue[sp] # << >> /\ Head(queue[sp]) = s
      <4>1. CASE sp = newpri
        BY <1>8, <1>9, <2>1, <3>2, <3>3, <4>1 DEF q2
      <4>2. CASE sp # newpri
        BY <1>9, <2>1, <3>3, <4>2
      <4>3. QED
        BY <4>1, <4>2
    <3>5. \A p \in primap : sp <= p
      BY <1>12, <1>19, <3>2
    <3>6. QED
      BY <1>13, <1>19, <3>1, <3>4, <3>5, NoTaskAssumption DEF SchedtskIsFirst
  <2>6. QED
    BY <2>2, <2>3, <2>4, <2>5
<1>22. rq2 \in ReadyQueueType
  <2>1. search_schedtsk(queue, primap) \in Task
    BY <1>9, <1>11, <1>18
  <2>2. QED
    BY <1>1, <1>5, <1>9, <2>1 DEF ReadyQueueType
<1>23. QED
  BY <1>15, <1>16, <1>17, <1>21, <1>22 DEF ReadyQueueInv, rq2

\* The priority of a task that is not runnable plays no part in the ready queue.
LEMMA SetPriority_Correct ==
  ASSUME NEW rq \in ReadyQueueType, NEW runnable \in SUBSET Task,
         ReadyQueueInv(rq, runnable),
         NEW t \in Task, t \notin runnable, NEW newpri \in Pri
  PROVE  /\ [rq EXCEPT !.priority[t] = newpri] \in ReadyQueueType
         /\ ReadyQueueInv([rq EXCEPT !.priority[t] = newpri], runnable)
<1> DEFINE rq2 == [rq EXCEPT !.priority[t] = newpri]
<1>1. /\ rq.ready_queue \in [Pri -> Seq(Task)] /\ rq.ready_primap \in SUBSET Pri
      /\ rq.schedtsk \in Task \cup {NoTask} /\ rq.priority \in [Task -> Pri]
  BY DEF ReadyQueueType
<1>2. /\ QueuedWhereRunnable(rq, runnable) /\ QueuedOnce(rq)
      /\ PrimapExact(rq) /\ SchedtskIsFirst(rq)
  BY DEF ReadyQueueInv
<1>3. rq2 \in ReadyQueueType
  BY <1>1 DEF ReadyQueueType
<1>4. /\ rq2.ready_queue = rq.ready_queue /\ rq2.ready_primap = rq.ready_primap
      /\ rq2.schedtsk = rq.schedtsk
      /\ \A u \in runnable : rq2.priority[u] = rq.priority[u]
      /\ \A u \in Task : u # t => rq2.priority[u] = rq.priority[u]
  BY <1>1 DEF ReadyQueueType
<1> HIDE DEF rq2
<1>5. QueuedWhereRunnable(rq2, runnable)
  BY <1>2, <1>4 DEF QueuedWhereRunnable
<1>6. QueuedOnce(rq2) /\ PrimapExact(rq2)
  BY <1>2, <1>4 DEF QueuedOnce, PrimapExact
<1>7. SchedtskIsFirst(rq2)
  <2>1. CASE rq.schedtsk = NoTask
    BY <1>2, <1>4, <2>1 DEF SchedtskIsFirst
  <2>2. CASE rq.schedtsk # NoTask
    <3>1. rq.schedtsk \in Task /\ rq.priority[rq.schedtsk] \in Pri
      BY <1>1, <2>2
    <3>2. rq.schedtsk \in ToSet(rq.ready_queue[rq.priority[rq.schedtsk]])
      BY <1>1, <1>2, <2>2, <3>1, HeadIsEntry DEF SchedtskIsFirst
    <3>3. rq.schedtsk \in runnable
      BY <1>2, <3>1, <3>2 DEF QueuedWhereRunnable
    <3>4. QED
      BY <1>2, <1>4, <2>2, <3>3 DEF SchedtskIsFirst
  <2>3. QED
    BY <2>1, <2>2
<1>8. QED
  BY <1>3, <1>5, <1>6, <1>7 DEF ReadyQueueInv, rq2

\* rotate_ready_queue, of any list.
LEMMA Rotate_Correct ==
  ASSUME NEW rq \in ReadyQueueType, NEW runnable \in SUBSET Task,
         ReadyQueueInv(rq, runnable),
         NEW pri \in Pri
  PROVE  /\ rotate_ready_queue(rq, pri) \in ReadyQueueType
         /\ ReadyQueueInv(rotate_ready_queue(rq, pri), runnable)
<1> DEFINE q   == rq.ready_queue[pri]
           r   == Append(Tail(q), Head(q))
           rq2 == [rq EXCEPT !.ready_queue[pri] = r,
                             !.schedtsk = IF @ = Head(q) THEN Head(r) ELSE @]
<1>1. /\ rq.ready_queue \in [Pri -> Seq(Task)] /\ rq.ready_primap \in SUBSET Pri
      /\ rq.schedtsk \in Task \cup {NoTask} /\ rq.priority \in [Task -> Pri]
      /\ q \in Seq(Task)
  BY DEF ReadyQueueType
<1>2. /\ QueuedWhereRunnable(rq, runnable) /\ QueuedOnce(rq)
      /\ PrimapExact(rq) /\ SchedtskIsFirst(rq)
  BY DEF ReadyQueueInv
<1>3. CASE Len(q) < 2
  BY <1>3, Zenon DEF rotate_ready_queue
<1>4. CASE ~(Len(q) < 2)
  <2>1. rotate_ready_queue(rq, pri) = rq2
    BY <1>4, Zenon DEF rotate_ready_queue
  <2>2. Len(q) >= 2 /\ q # << >> /\ IsInjective(q)
    BY <1>1, <1>2, <1>4 DEF QueuedOnce
  <2>3. /\ r \in Seq(Task) /\ r # << >> /\ IsInjective(r)
        /\ ToSet(r) = ToSet(q) /\ Head(r) \in ToSet(q)
    BY <1>1, <2>2, QueueRotate
  <2>4. Head(q) \in ToSet(q) /\ Head(q) \in Task
    BY <1>1, <2>2, HeadIsEntry
  <2> HIDE DEF r
  <2>5. Head(r) \in Task
    BY <2>3, HeadIsEntry
  <2>6. /\ rq2.ready_queue = [rq.ready_queue EXCEPT ![pri] = r]
        /\ rq2.ready_primap = rq.ready_primap /\ rq2.priority = rq.priority
        /\ rq2.schedtsk = IF rq.schedtsk = Head(q) THEN Head(r) ELSE rq.schedtsk
    BY DEF ReadyQueueType
  <2>7. rq2 \in ReadyQueueType
    BY <1>1, <2>3, <2>5 DEF ReadyQueueType
  <2> HIDE DEF rq2, q
  <2>8. \A p \in Pri : rq2.ready_queue[p] = IF p = pri THEN r ELSE rq.ready_queue[p]
    BY <1>1, <2>6
  <2>9. QueuedWhereRunnable(rq2, runnable)
    BY <1>2, <2>3, <2>6, <2>8 DEF QueuedWhereRunnable, q
  <2>10. QueuedOnce(rq2)
    BY <1>2, <2>3, <2>8 DEF QueuedOnce
  <2>11. PrimapExact(rq2)
    BY <1>2, <2>2, <2>3, <2>6, <2>8 DEF PrimapExact, q
  <2>12. rq.priority[Head(q)] = pri /\ rq.priority[Head(r)] = pri
    BY <1>2, <2>3, <2>4, <2>5 DEF QueuedWhereRunnable, q
  <2>13. SchedtskIsFirst(rq2)
    <3>1. rq.schedtsk # NoTask
      <4>1. pri \in rq.ready_primap
        BY <1>2, <2>2 DEF PrimapExact, q
      <4>2. QED
        BY <1>2, <4>1 DEF SchedtskIsFirst
    <3>2. CASE rq.schedtsk = Head(q)
      BY <1>2, <2>3, <2>5, <2>6, <2>8, <2>12, <3>1, <3>2, NoTaskAssumption
         DEF SchedtskIsFirst
    <3>3. CASE rq.schedtsk # Head(q)
      <4>1. rq.schedtsk \in Task /\ rq.priority[rq.schedtsk] \in Pri
        BY <1>1, <3>1
      <4>2. rq.priority[rq.schedtsk] # pri
        BY <1>2, <3>1, <3>3 DEF SchedtskIsFirst, q
      <4>3. QED
        BY <1>2, <2>6, <2>8, <3>1, <3>3, <4>1, <4>2 DEF SchedtskIsFirst
    <3>4. QED
      BY <3>2, <3>3
  <2>14. QED
    BY <2>1, <2>7, <2>9, <2>10, <2>11, <2>13 DEF ReadyQueueInv
<1>5. QED
  BY <1>3, <1>4

\* The empty ready queue.
LEMMA EmptyReadyQueue_Correct ==
  ASSUME NEW ipriority \in [Task -> Pri]
  PROVE  /\ EmptyReadyQueue(ipriority) \in ReadyQueueType
         /\ ReadyQueueInv(EmptyReadyQueue(ipriority), {})
  BY DEF EmptyReadyQueue, ReadyQueueType, ReadyQueueInv, QueuedWhereRunnable,
         QueuedOnce, PrimapExact, SchedtskIsFirst, ToSet, IsInjective

\* p_schedtsk is a runnable task, or NULL when there is none.
LEMMA SchedtskIsRunnable ==
  ASSUME NEW rq \in ReadyQueueType, NEW runnable \in SUBSET Task,
         ReadyQueueInv(rq, runnable)
  PROVE  /\ rq.schedtsk # NoTask => rq.schedtsk \in runnable
         /\ rq.schedtsk = NoTask => runnable = {}
<1>1. /\ rq.ready_queue \in [Pri -> Seq(Task)] /\ rq.ready_primap \in SUBSET Pri
      /\ rq.schedtsk \in Task \cup {NoTask} /\ rq.priority \in [Task -> Pri]
  BY DEF ReadyQueueType
<1>2. QueuedWhereRunnable(rq, runnable) /\ PrimapExact(rq) /\ SchedtskIsFirst(rq)
  BY DEF ReadyQueueInv
<1>3. ASSUME rq.schedtsk # NoTask PROVE rq.schedtsk \in runnable
  <2> DEFINE q == rq.ready_queue[rq.priority[rq.schedtsk]]
  <2>1. rq.schedtsk \in Task /\ rq.priority[rq.schedtsk] \in Pri
    BY <1>1, <1>3
  <2>2. q \in Seq(Task) /\ q # << >> /\ rq.schedtsk = Head(q)
    BY <1>1, <1>2, <1>3, <2>1 DEF SchedtskIsFirst
  <2>3. rq.schedtsk \in ToSet(q)
    <3> HIDE DEF q
    <3>1. QED
      BY <2>2, HeadIsEntry
  <2>4. QED
    BY <1>2, <2>1, <2>3 DEF QueuedWhereRunnable
<1>4. ASSUME rq.schedtsk = NoTask, NEW t \in runnable PROVE FALSE
  <2>1. rq.priority[t] \in Pri /\ t \in ToSet(rq.ready_queue[rq.priority[t]])
    BY <1>1, <1>2 DEF QueuedWhereRunnable
  <2>2. rq.ready_primap = {}
    BY <1>2, <1>4 DEF SchedtskIsFirst
  <2>3. rq.ready_queue[rq.priority[t]] = << >>
    BY <1>2, <2>1, <2>2 DEF PrimapExact
  <2>4. QED
    BY <2>1, <2>3 DEF ToSet
<1>5. QED
  BY <1>3, <1>4

\* A mutex that raises the task of the highest precedence leaves it there.
LEMMA RaiseKeepsSchedtsk ==
  ASSUME NEW rq \in ReadyQueueType, NEW t \in Task, NEW newpri \in Pri,
         newpri < rq.priority[t], rq.schedtsk = t
  PROVE  requeue(rq, t, newpri, TRUE).schedtsk = t
<1>1. rq.priority[t] \in Nat /\ newpri \in Nat
  BY DEF ReadyQueueType, Pri
<1>2. ~(newpri >= rq.priority[t])
  BY <1>1
<1>3. QED
  BY <1>2 DEF requeue, ReadyQueueType

\* What requeue does to the priorities.
LEMMA RequeuePriority ==
  ASSUME NEW rq \in ReadyQueueType, NEW t \in Task, NEW newpri \in Pri,
         NEW mtxmode \in BOOLEAN
  PROVE  requeue(rq, t, newpri, mtxmode).priority = [rq.priority EXCEPT ![t] = newpri]
  BY DEF requeue, ReadyQueueType
=============================================================================
