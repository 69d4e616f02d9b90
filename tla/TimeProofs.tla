----------------------------- MODULE TimeProofs -----------------------------
(***************************************************************************)
(* The heap of time events, the timer interrupt over it, and get_utm.      *)
(*                                                                         *)
(* The operators of the heap are recursive functions over its nodes.  What *)
(* one computes follows from the least node at which it would not: so a    *)
(* hole stops where it should, its move keeps the heap's order and every   *)
(* index, and insertion and deletion change one event and no other.        *)
(*                                                                         *)
(* Inductive for the timer is TimeInv: times relative to min_time lie in a *)
(* window of TMAX_RELTIM + 1 after the current time, and one that is due   *)
(* came in the tick being processed, so that no event is ever taken for    *)
(* one that is 2^32 away, and each has a countdown that only the tick      *)
(* changes.                                                                *)
(*                                                                         *)
(* Inductive for get_utm is where next_time stands: a tick behind the one  *)
(* being counted as long as that has been requested, or accepted and not   *)
(* served.                                                                 *)
(***************************************************************************)
EXTENDS SystemTime, PerfTime, WellFoundedInduction, TLAPS

\* A set of numbers has a least one: how the recursive functions of the heap are
\* reasoned about, from a least index at which they would go wrong.
LEMMA LeastNumber ==
  ASSUME NEW S \in SUBSET Nat, S # {}
  PROVE  \E n \in S : \A m \in S : n <= m
<1>1. \E n \in S : \A m \in S : ~(<< m, n >> \in OpToRel(<, Nat))
  BY NatLessThanWellFounded, WFMin, Zenon
<1>2. PICK n \in S : \A m \in S : ~(<< m, n >> \in OpToRel(<, Nat))
  BY <1>1
<1>3. ASSUME NEW m \in S PROVE n <= m
  <2>1. m \in Nat /\ n \in Nat
    BY Zenon
  <2>2. ~(<< m, n >> \in {ss \in Nat \X Nat : ss[1] < ss[2]})
    BY <1>2, Zenon DEF OpToRel
  <2>3. QED
    BY <2>1, <2>2
<1>4. QED
  BY <1>3

\* Halving.
LEMMA Parents ==
  ASSUME NEW i \in Nat
  PROVE  /\ PARENT(i) \in Nat /\ LCHILD(i) \in Nat
         /\ i > 0 => PARENT(i) < i
         /\ i > 1 => PARENT(i) >= 1
         /\ i <= 1 => PARENT(i) = 0
         /\ LCHILD(i) = 2 * i /\ PARENT(LCHILD(i)) = i /\ PARENT(LCHILD(i) + 1) = i
         /\ i = LCHILD(PARENT(i)) \/ i = LCHILD(PARENT(i)) + 1
  BY Z3 DEF PARENT, LCHILD

-----------------------------------------------------------------------------
\* The function behind SelfAndAncestors.
IsAbove(f, n) == f = [j \in 0 .. n |-> IF j = 0 THEN {} ELSE {j} \cup f[PARENT(j)]]

LEMMA AboveExists ==
  ASSUME NEW n \in Nat
  PROVE  \E f : IsAbove(f, n)
<1> DEFINE Bad == {m \in Nat : ~ \E f : IsAbove(f, m)}
<1> SUFFICES ASSUME Bad # {} PROVE FALSE
  OBVIOUS
<1>1. PICK m \in Bad : \A k \in Bad : m <= k
  BY LeastNumber, Zenon
<1>2. m \in Nat /\ ~ \E f : IsAbove(f, m)
  OBVIOUS
<1>3. CASE m = 0
  <2> DEFINE g == [j \in 0 .. 0 |-> {}]
  <2>1. IsAbove(g, 0)
    BY DEF IsAbove
  <2>2. QED
    BY <1>2, <1>3, <2>1
<1>4. CASE m > 0
  <2>1. m - 1 \in Nat /\ ~(m <= m - 1)
    BY <1>2, <1>4
  <2>2. PICK f : IsAbove(f, m - 1)
    BY <1>1, <2>1
  <2> DEFINE g == [j \in 0 .. m |-> IF j = m THEN {m} \cup f[PARENT(m)] ELSE f[j]]
  <2>3. ASSUME NEW j \in 0 .. m
        PROVE  g[j] = IF j = 0 THEN {} ELSE {j} \cup g[PARENT(j)]
    <3>1. j > 0 => PARENT(j) \in 0 .. m /\ PARENT(j) # m
      <4>1. j \in Nat /\ j <= m
        BY <1>2
      <4>2. j > 0 => PARENT(j) \in Nat /\ PARENT(j) < j
        BY <4>1, Parents
      <4>3. QED
        BY <1>2, <4>1, <4>2
    <3>2. j # m => f[j] = IF j = 0 THEN {} ELSE {j} \cup f[PARENT(j)]
      <4>1. j # m => j \in 0 .. m - 1
        BY <1>2, <1>4
      <4>2. QED
        BY <2>2, <4>1 DEF IsAbove
    <3>3. CASE j = m
      BY <1>2, <1>4, <3>1, <3>3
    <3>4. CASE j # m
      <4>1. g[j] = f[j] /\ (j > 0 => g[PARENT(j)] = f[PARENT(j)])
        BY <3>1, <3>4
      <4> HIDE DEF g
      <4>2. CASE j = 0
        BY <3>2, <3>4, <4>1, <4>2
      <4>3. CASE j # 0
        <5>1. j > 0
          BY <4>3
        <5>2. QED
          BY <3>2, <3>4, <4>1, <4>3, <5>1
      <4>4. QED
        BY <4>2, <4>3
    <3>5. QED
      BY <3>3, <3>4
  <2>4. IsAbove(g, m)
    BY <2>3 DEF IsAbove
  <2>5. QED
    BY <1>2, <2>4
<1>5. QED
  BY <1>2, <1>3, <1>4

LEMMA AboveUnique ==
  ASSUME NEW m \in Nat, NEW n \in Nat, m <= n, NEW f, NEW g, IsAbove(f, m), IsAbove(g, n),
         NEW j \in 0 .. m
  PROVE  f[j] = g[j]
<1> DEFINE Bad == {k \in Nat : k <= m /\ f[k] # g[k]}
<1> SUFFICES ASSUME Bad # {} PROVE FALSE
  OBVIOUS
<1>1. PICK k \in Bad : \A l \in Bad : k <= l
  BY LeastNumber, Zenon
<1>2. k \in Nat /\ k <= m /\ f[k] # g[k] /\ k \in 0 .. m /\ k \in 0 .. n
  OBVIOUS
<1>3. /\ f[k] = IF k = 0 THEN {} ELSE {k} \cup f[PARENT(k)]
      /\ g[k] = IF k = 0 THEN {} ELSE {k} \cup g[PARENT(k)]
  BY <1>2 DEF IsAbove
<1>4. CASE k > 0
  <2>1. PARENT(k) \in Nat /\ PARENT(k) < k
    BY <1>2, <1>4, Parents
  <2>2. f[PARENT(k)] = g[PARENT(k)]
    BY <1>1, <1>2, <2>1
  <2>3. QED
    BY <1>2, <1>3, <2>2
<1>5. QED
  BY <1>2, <1>3, <1>4

LEMMA SelfAndAncestorsStep ==
  ASSUME NEW i \in Nat
  PROVE  SelfAndAncestors(i) = IF i = 0 THEN {} ELSE {i} \cup SelfAndAncestors(PARENT(i))
<1> DEFINE f(n) == CHOOSE g : IsAbove(g, n)
<1>1. \A n \in Nat : IsAbove(f(n), n)
  BY AboveExists
<1>2. \A n : SelfAndAncestors(n) = f(n)[n]
  BY DEF SelfAndAncestors, IsAbove
<1> HIDE DEF f
<1>3. f(i)[i] = IF i = 0 THEN {} ELSE {i} \cup f(i)[PARENT(i)]
  BY <1>1 DEF IsAbove
<1>4. CASE i > 0
  <2>1. PARENT(i) \in Nat /\ PARENT(i) <= i /\ PARENT(i) \in 0 .. PARENT(i)
    BY <1>4, Parents
  <2>2. f(PARENT(i))[PARENT(i)] = f(i)[PARENT(i)]
    BY <1>1, <2>1, AboveUnique
  <2>3. QED
    BY <1>2, <1>3, <2>2
<1>5. QED
  BY <1>2, <1>3, <1>4

\* The nodes of a line go up from i by one parent at a time.
Line(S, i) ==
  /\ S \subseteq 1 .. i
  /\ i > 0 => i \in S
  /\ \A j \in S : j > 1 => PARENT(j) \in S
  /\ \A j \in S : j < i => \E k \in S : PARENT(k) = j
  /\ \A j, k \in S : k < j => k <= PARENT(j)

LEMMA LineGrows ==
  ASSUME NEW i \in Nat, i > 0, NEW S, Line(S, PARENT(i))
  PROVE  Line({i} \cup S, i)
<1> DEFINE p == PARENT(i)
           T == {i} \cup S
<1>1. p \in Nat /\ p < i /\ (i > 1 => p >= 1) /\ (i <= 1 => p = 0)
  BY Parents
<1>2. /\ S \subseteq 1 .. p
      /\ p > 0 => p \in S
      /\ \A j \in S : j > 1 => PARENT(j) \in S
      /\ \A j \in S : j < p => \E k \in S : PARENT(k) = j
      /\ \A j, k \in S : k < j => k <= PARENT(j)
  BY DEF Line
<1> HIDE DEF p
<1>3. \A j \in S : j \in Nat /\ j >= 1 /\ j <= p
  BY <1>1, <1>2
<1>4. T \subseteq 1 .. i
  BY <1>1, <1>3
<1>5. ASSUME NEW j \in T, j > 1 PROVE PARENT(j) \in T
  BY <1>1, <1>2, <1>5 DEF p
<1>6. ASSUME NEW j \in T, j < i PROVE \E k \in T : PARENT(k) = j
  <2>1. j \in S /\ j >= 1 /\ j <= p
    BY <1>3, <1>6
  <2>2. CASE j = p
    BY <2>2 DEF p
  <2>3. CASE j # p
    BY <1>1, <1>2, <1>3, <2>1, <2>3
  <2>4. QED
    BY <2>2, <2>3
<1>7. ASSUME NEW j \in T, NEW k \in T, k < j PROVE k <= PARENT(j)
  <2>1. CASE j = i
    BY <1>1, <1>3, <1>7, <2>1 DEF p
  <2>2. CASE j # i
    BY <1>1, <1>2, <1>3, <1>7, <2>2
  <2>3. QED
    BY <2>1, <2>2
<1>8. QED
  BY <1>4, <1>5, <1>6, <1>7 DEF Line

LEMMA AncestorsLine ==
  ASSUME NEW i \in Nat
  PROVE  Line(SelfAndAncestors(i), i)
<1> DEFINE Bad == {m \in Nat : ~Line(SelfAndAncestors(m), m)}
<1> SUFFICES ASSUME Bad # {} PROVE FALSE
  OBVIOUS
<1>1. PICK m \in Bad : \A k \in Bad : m <= k
  BY LeastNumber, Zenon
<1>2. m \in Nat /\ ~Line(SelfAndAncestors(m), m)
  OBVIOUS
<1>3. SelfAndAncestors(m) = IF m = 0 THEN {} ELSE {m} \cup SelfAndAncestors(PARENT(m))
  BY <1>2, SelfAndAncestorsStep
<1>4. CASE m = 0
  BY <1>2, <1>3, <1>4 DEF Line
<1>5. CASE m > 0
  <2>1. PARENT(m) \in Nat /\ PARENT(m) < m
    BY <1>2, <1>5, Parents
  <2>2. Line(SelfAndAncestors(PARENT(m)), PARENT(m))
    BY <1>1, <1>2, <2>1
  <2>3. Line({m} \cup SelfAndAncestors(PARENT(m)), m)
    BY <1>2, <1>5, <2>2, LineGrows
  <2>4. QED
    BY <1>2, <1>3, <1>5, <2>3
<1>6. QED
  BY <1>2, <1>4, <1>5

\* The way of a hole between a node and one above it.
LEMMA PathChain ==
  ASSUME NEW bottom \in Nat, NEW top \in SelfAndAncestors(bottom)
  PROVE  LET P == {i \in SelfAndAncestors(bottom) : i >= top}
         IN  /\ top \in P /\ bottom \in P /\ P \subseteq top .. bottom
             /\ top \in Nat /\ top >= 1 /\ top <= bottom
             /\ \A j \in P : j # top => PARENT(j) \in P
             /\ \A j \in P : j # bottom => \E k \in P : PARENT(k) = j
             /\ \A j, k \in P : PARENT(j) = PARENT(k) => j = k
<1> DEFINE S == SelfAndAncestors(bottom)
           P == {i \in S : i >= top}
<1>1. Line(S, bottom)
  BY AncestorsLine
<1> HIDE DEF S
<1>2. \A j \in S : j \in Nat /\ j >= 1 /\ j <= bottom
  BY <1>1 DEF Line
<1>3. top \in S /\ top \in Nat /\ top >= 1 /\ top <= bottom
  BY <1>2 DEF S
<1>4. top \in P /\ bottom \in P /\ P \subseteq top .. bottom
  <2>1. bottom \in S
    BY <1>1, <1>3 DEF Line
  <2>2. top \in P /\ bottom \in P
    BY <1>3, <2>1
  <2>3. ASSUME NEW i \in P PROVE i \in top .. bottom
    BY <1>2, <1>3
  <2>4. QED
    BY <2>2, <2>3
<1>5. ASSUME NEW j \in P, j # top PROVE PARENT(j) \in P
  BY <1>1, <1>2, <1>3, <1>5 DEF Line
<1>6. ASSUME NEW j \in P, j # bottom PROVE \E k \in P : PARENT(k) = j
  <2>1. j \in S /\ j \in Nat /\ j < bottom /\ j >= top
    BY <1>2, <1>6
  <2>2. PICK k \in S : PARENT(k) = j
    BY <1>1, <2>1 DEF Line
  <2>3. k \in Nat /\ j < k
    BY <1>2, <2>2, Parents
  <2>4. QED
    BY <1>3, <2>1, <2>2, <2>3
<1>7. ASSUME NEW j \in P, NEW k \in P, PARENT(j) = PARENT(k) PROVE j = k
  <2>1. j \in Nat /\ k \in Nat /\ j > 0 /\ k > 0 /\ j \in S /\ k \in S
    BY <1>2
  <2>2. PARENT(j) \in Nat /\ PARENT(j) < j /\ PARENT(k) < k
    BY <2>1, Parents
  <2>3. ~(k < j) /\ ~(j < k)
    BY <1>1, <1>7, <2>1, <2>2 DEF Line
  <2>4. QED
    BY <2>1, <2>3
<1>8. QED
  BY <1>3, <1>4, <1>5, <1>6, <1>7 DEF S

-----------------------------------------------------------------------------
\* A hole at i goes on up.
GoesUp(h0, i, time) == i > 1 /\ ~EVTTIM_LE(h0, h0.node[PARENT(i)].time, time)

\* The function behind tmevt_up.
IsUp(f, h0, n, time) ==
  f = [i \in 1 .. n |-> IF GoesUp(h0, i, time) THEN f[PARENT(i)] ELSE i]

LEMMA UpExists ==
  ASSUME NEW n \in Nat, NEW h0, NEW time
  PROVE  \E f : IsUp(f, h0, n, time)
<1> DEFINE Bad == {m \in Nat : ~ \E f : IsUp(f, h0, m, time)}
<1> SUFFICES ASSUME Bad # {} PROVE FALSE
  OBVIOUS
<1>1. PICK m \in Bad : \A k \in Bad : m <= k
  BY LeastNumber, Zenon
<1>2. m \in Nat /\ ~ \E f : IsUp(f, h0, m, time)
  OBVIOUS
<1>3. CASE m = 0
  <2> DEFINE g == [i \in 1 .. 0 |-> i]
  <2>1. IsUp(g, h0, 0, time)
    BY DEF IsUp
  <2>2. QED
    BY <1>2, <1>3, <2>1
<1>4. CASE m > 0
  <2>1. m - 1 \in Nat /\ ~(m <= m - 1)
    BY <1>2, <1>4
  <2>2. PICK f : IsUp(f, h0, m - 1, time)
    BY <1>1, <2>1
  <2> DEFINE g == [i \in 1 .. m |-> IF i # m THEN f[i]
                                    ELSE IF GoesUp(h0, i, time) THEN f[PARENT(i)] ELSE i]
  <2>3. ASSUME NEW i \in 1 .. m
        PROVE  g[i] = IF GoesUp(h0, i, time) THEN g[PARENT(i)] ELSE i
    <3>1. i \in Nat /\ i >= 1 /\ i <= m /\ (i # m => i \in 1 .. m - 1)
      BY <1>2, <1>4
    <3>2. GoesUp(h0, i, time) => PARENT(i) \in 1 .. m /\ PARENT(i) # m
      <4>1. i \in Nat /\ i > 0
        BY <3>1
      <4>2. PARENT(i) \in Nat /\ PARENT(i) < i /\ (i > 1 => PARENT(i) >= 1)
        BY <4>1, Parents
      <4>3. QED
        BY <1>2, <3>1, <4>2 DEF GoesUp
    <3>3. i # m => f[i] = IF GoesUp(h0, i, time) THEN f[PARENT(i)] ELSE i
      BY <2>2, <3>1 DEF IsUp
    <3>4. /\ g[i] = IF i # m THEN f[i]
                    ELSE IF GoesUp(h0, i, time) THEN f[PARENT(i)] ELSE i
          /\ GoesUp(h0, i, time) => g[PARENT(i)] = f[PARENT(i)]
      BY <3>2
    <3> HIDE DEF g
    <3>5. QED
      BY <3>3, <3>4, Zenon
  <2>4. IsUp(g, h0, m, time)
    BY <2>3 DEF IsUp
  <2>5. QED
    BY <1>2, <2>4
<1>5. QED
  BY <1>2, <1>3, <1>4

\* Where a hole that moves up comes to its end.
UpEnd(h0, index, time, to) ==
  /\ to \in SelfAndAncestors(index)
  /\ ~GoesUp(h0, to, time)
  /\ \A j \in SelfAndAncestors(index) : j > to => GoesUp(h0, j, time)

LEMMA UpStops ==
  ASSUME NEW h0, NEW time, NEW index \in Nat, index >= 1
  PROVE  UpEnd(h0, index, time, tmevt_up(h0, index, time))
<1> DEFINE f == CHOOSE g : IsUp(g, h0, index, time)
<1>1. IsUp(f, h0, index, time)
  BY UpExists
<1>2. tmevt_up(h0, index, time) = f[index]
  BY Zenon DEF tmevt_up, IsUp, GoesUp
<1> HIDE DEF f
<1> DEFINE Bad == {m \in Nat : m >= 1 /\ m <= index /\ ~UpEnd(h0, m, time, f[m])}
<1>3. Bad = {}
  <2> SUFFICES ASSUME Bad # {} PROVE FALSE
    OBVIOUS
  <2>1. PICK m \in Bad : \A k \in Bad : m <= k
    BY LeastNumber, Zenon
  <2>2. m \in Nat /\ m >= 1 /\ m <= index /\ ~UpEnd(h0, m, time, f[m]) /\ m \in 1 .. index
    OBVIOUS
  <2> DEFINE p == PARENT(m)
  <2>3. p \in Nat /\ p < m /\ (m > 1 => p >= 1)
    BY <2>2, Parents
  <2>4. SelfAndAncestors(m) = {m} \cup SelfAndAncestors(p)
    BY <2>2, SelfAndAncestorsStep
  <2>5. f[m] = IF GoesUp(h0, m, time) THEN f[p] ELSE m
    BY <1>1, <2>2 DEF IsUp
  <2>6. \A j \in SelfAndAncestors(m) : j \in Nat /\ j <= m
    BY <2>2, AncestorsLine DEF Line
  <2> HIDE DEF p
  <2>7. CASE GoesUp(h0, m, time)
    <3>1. p >= 1 /\ ~(m <= p)
      BY <2>2, <2>3, <2>7 DEF GoesUp
    <3>2. UpEnd(h0, p, time, f[p])
      BY <2>1, <2>2, <2>3, <3>1
    <3>3. UpEnd(h0, m, time, f[p])
      BY <2>4, <2>7, <3>2 DEF UpEnd
    <3>4. QED
      BY <2>2, <2>5, <2>7, <3>3
  <2>8. CASE ~GoesUp(h0, m, time)
    <3>1. \A j \in SelfAndAncestors(m) : ~(j > m)
      BY <2>2, <2>6
    <3>2. UpEnd(h0, m, time, m)
      BY <2>4, <2>8, <3>1 DEF UpEnd
    <3>3. QED
      BY <2>2, <2>5, <2>8, <3>2
  <2>9. QED
    BY <2>7, <2>8
<1>4. QED
  BY <1>2, <1>3

-----------------------------------------------------------------------------
\* A hole at i goes on down, to its earlier child.
GoesDown(h0, i, time, last) ==
  LCHILD(i) <= last /\ EVTTIM_LT(h0, h0.node[EarlierChild(h0, i, last)].time, time)

LEMMA Children ==
  ASSUME NEW h0, NEW i \in Nat, i >= 1, NEW last \in Nat, LCHILD(i) <= last
  PROVE  /\ EarlierChild(h0, i, last) \in {LCHILD(i), LCHILD(i) + 1}
         /\ EarlierChild(h0, i, last) \in Nat
         /\ EarlierChild(h0, i, last) > i
         /\ EarlierChild(h0, i, last) <= last
         /\ PARENT(EarlierChild(h0, i, last)) = i
<1>1. LCHILD(i) = 2 * i /\ PARENT(LCHILD(i)) = i /\ PARENT(LCHILD(i) + 1) = i
  BY Parents
<1>2. \/ EarlierChild(h0, i, last) = LCHILD(i)
      \/ EarlierChild(h0, i, last) = LCHILD(i) + 1 /\ LCHILD(i) + 1 <= last
  BY DEF EarlierChild
<1>3. QED
  BY <1>1, <1>2

\* The function behind tmevt_down.
IsDown(f, h0, first, time, last) ==
  f = [i \in first .. last + 1 |-> IF GoesDown(h0, i, time, last)
                                   THEN f[EarlierChild(h0, i, last)] ELSE i]

LEMMA DownExists ==
  ASSUME NEW h0, NEW time, NEW last \in Nat, NEW first \in Nat, first >= 1, first <= last + 1
  PROVE  \E f : IsDown(f, h0, first, time, last)
<1> DEFINE Bad == {k \in Nat : k <= last /\ ~ \E f : IsDown(f, h0, last + 1 - k, time, last)}
<1>1. Bad = {}
  <2> SUFFICES ASSUME Bad # {} PROVE FALSE
    OBVIOUS
  <2>1. PICK k \in Bad : \A l \in Bad : k <= l
    BY LeastNumber, Zenon
  <2> DEFINE a == last + 1 - k
  <2>2. k \in Nat /\ k <= last /\ ~ \E f : IsDown(f, h0, a, time, last)
    OBVIOUS
  <2>3. a \in Nat /\ a >= 1 /\ a <= last + 1
    BY <2>2
  <2>4. CASE k = 0
    <3> DEFINE g == [i \in a .. last + 1 |-> i]
    <3>1. ASSUME NEW i \in a .. last + 1 PROVE ~GoesDown(h0, i, time, last)
      <4>1. i = last + 1
        BY <2>4
      <4>2. ~(2 * i <= last)
        BY <4>1
      <4>3. QED
        BY <4>2 DEF GoesDown, LCHILD
    <3>2. IsDown(g, h0, a, time, last)
      BY <3>1 DEF IsDown
    <3>3. QED
      BY <2>2, <3>2
  <2>5. CASE k > 0
    <3>1. k - 1 \in Nat /\ k - 1 <= last /\ ~(k <= k - 1) /\ last + 1 - (k - 1) = a + 1
      BY <2>2, <2>5
    <3>2. PICK f : IsDown(f, h0, a + 1, time, last)
      <4>1. \E f : IsDown(f, h0, last + 1 - (k - 1), time, last)
        BY <2>1, <3>1
      <4>2. QED
        BY <3>1, <4>1
    <3> HIDE DEF a
    <3> DEFINE g == [i \in a .. last + 1 |->
                       IF i # a THEN f[i]
                       ELSE IF GoesDown(h0, i, time, last)
                       THEN f[EarlierChild(h0, i, last)] ELSE i]
    <3>3. ASSUME NEW i \in a .. last + 1
          PROVE  g[i] = IF GoesDown(h0, i, time, last)
                        THEN g[EarlierChild(h0, i, last)] ELSE i
      <4> DEFINE c == EarlierChild(h0, i, last)
      <4>1. i \in Nat /\ i >= 1 /\ i >= a /\ (i # a => i \in a + 1 .. last + 1)
        BY <2>3
      <4>2. GoesDown(h0, i, time, last) => c \in a .. last + 1 /\ c # a
        <5>1. LCHILD(i) <= last => c \in Nat /\ c > i /\ c <= last
          BY <4>1, Children
        <5> HIDE DEF c
        <5>2. QED
          BY <2>3, <4>1, <5>1 DEF GoesDown
      <4>3. i # a => f[i] = IF GoesDown(h0, i, time, last) THEN f[c] ELSE i
        BY <3>2, <4>1 DEF IsDown
      <4> HIDE DEF c
      <4>4. GoesDown(h0, i, time, last) => g[c] = f[c]
        BY <4>2
      <4>5. g[i] = IF i # a THEN f[i] ELSE IF GoesDown(h0, i, time, last) THEN f[c] ELSE i
        BY DEF c
      <4> HIDE DEF g
      <4>6. g[i] = IF GoesDown(h0, i, time, last) THEN g[c] ELSE i
        BY <4>3, <4>4, <4>5, Zenon
      <4>7. QED
        BY <4>6 DEF c
    <3>4. IsDown(g, h0, a, time, last)
      BY <3>3 DEF IsDown
    <3>5. QED
      BY <2>2, <3>4 DEF a
  <2>6. QED
    BY <2>2, <2>4, <2>5
<1>2. last + 1 - first \in Nat /\ last + 1 - first <= last /\ last + 1 - (last + 1 - first) = first
  OBVIOUS
<1>3. \E f : IsDown(f, h0, last + 1 - (last + 1 - first), time, last)
  BY <1>1, <1>2
<1>4. QED
  BY <1>2, <1>3

\* Where a hole that moves down comes to its end.
DownEnd(h0, index, time, last, to) ==
  /\ to \in Nat /\ to >= index /\ (to > index => to <= last)
  /\ index \in SelfAndAncestors(to)
  /\ ~GoesDown(h0, to, time, last)
  /\ \A j \in SelfAndAncestors(to) :
       j > index => GoesDown(h0, PARENT(j), time, last) /\ j = EarlierChild(h0, PARENT(j), last)

\* One place further up.
LEMMA DownFromParent ==
  ASSUME NEW h0, NEW time, NEW last \in Nat, NEW i \in Nat, i >= 1, NEW to,
         GoesDown(h0, i, time, last),
         DownEnd(h0, EarlierChild(h0, i, last), time, last, to)
  PROVE  DownEnd(h0, i, time, last, to)
<1> DEFINE c == EarlierChild(h0, i, last)
           S == SelfAndAncestors(to)
<1>1. c \in Nat /\ c > i /\ c <= last /\ PARENT(c) = i
  BY Children DEF GoesDown
<1>2. /\ to \in Nat /\ to >= c /\ (to > c => to <= last)
      /\ c \in S
      /\ ~GoesDown(h0, to, time, last)
      /\ \A j \in S : j > c => /\ GoesDown(h0, PARENT(j), time, last)
                               /\ j = EarlierChild(h0, PARENT(j), last)
  BY DEF DownEnd
<1>3. Line(S, to)
  BY <1>2, AncestorsLine
<1> HIDE DEF S
<1>4. i \in S
  BY <1>1, <1>2, <1>3 DEF Line
<1>5. ASSUME NEW j \in S, j > i
      PROVE  /\ GoesDown(h0, PARENT(j), time, last)
             /\ j = EarlierChild(h0, PARENT(j), last)
  <2>1. j \in Nat
    BY <1>2, <1>3 DEF Line
  <2>2. CASE j > c
    BY <1>2, <2>2
  <2>3. CASE j = c
    BY <1>1, <2>3
  <2>4. CASE j < c
    <3>1. j <= PARENT(c)
      BY <1>2, <1>3, <2>4 DEF Line
    <3>2. QED
      BY <1>1, <1>5, <2>1, <3>1
  <2>5. QED
    BY <1>1, <2>1, <2>2, <2>3, <2>4
<1> HIDE DEF c
<1>6. to >= i /\ (to > i => to <= last)
  BY <1>1, <1>2
<1>7. QED
  BY <1>2, <1>4, <1>5, <1>6 DEF DownEnd, S

LEMMA DownStops ==
  ASSUME NEW h0, NEW time, NEW last \in Nat, NEW index \in Nat, index >= 1, index <= last + 1
  PROVE  DownEnd(h0, index, time, last, tmevt_down(h0, index, time, last))
<1> DEFINE f == CHOOSE g : IsDown(g, h0, index, time, last)
<1>1. IsDown(f, h0, index, time, last)
  BY DownExists
<1>2. tmevt_down(h0, index, time, last) = f[index]
  BY Zenon DEF tmevt_down, IsDown, GoesDown
<1> HIDE DEF f
<1> DEFINE Bad == {k \in Nat : k <= last + 1 - index
                                 /\ ~DownEnd(h0, last + 1 - k, time, last, f[last + 1 - k])}
<1>3. Bad = {}
  <2> SUFFICES ASSUME Bad # {} PROVE FALSE
    OBVIOUS
  <2>1. PICK k \in Bad : \A l \in Bad : k <= l
    BY LeastNumber, Zenon
  <2> DEFINE i == last + 1 - k
             c == EarlierChild(h0, i, last)
  <2>2. k \in Nat /\ k <= last + 1 - index /\ ~DownEnd(h0, i, time, last, f[i])
    OBVIOUS
  <2>3. i \in Nat /\ i >= 1 /\ i >= index /\ i <= last + 1 /\ i \in index .. last + 1
    BY <2>2
  <2>4. f[i] = IF GoesDown(h0, i, time, last) THEN f[c] ELSE i
    BY <1>1, <2>3 DEF IsDown
  <2>5. CASE GoesDown(h0, i, time, last)
    <3>1. c \in Nat /\ c > i /\ c <= last
      BY <2>3, <2>5, Children DEF GoesDown
    <3>2. /\ last + 1 - c \in Nat /\ last + 1 - c <= last + 1 - index
          /\ ~(k <= last + 1 - c) /\ last + 1 - (last + 1 - c) = c
      <4> HIDE DEF c
      <4>1. QED
        BY <2>2, <2>3, <3>1
    <3>3. DownEnd(h0, c, time, last, f[c])
      <4> HIDE DEF c
      <4>1. last + 1 - c \notin Bad
        BY <2>1, <3>2
      <4>2. DownEnd(h0, last + 1 - (last + 1 - c), time, last, f[last + 1 - (last + 1 - c)])
        BY <3>2, <4>1
      <4>3. QED
        BY <3>2, <4>2
    <3> HIDE DEF i
    <3>4. DownEnd(h0, i, time, last, f[c])
      BY <2>3, <2>5, <3>3, DownFromParent
    <3>5. QED
      BY <2>2, <2>4, <2>5, <3>4
  <2>6. CASE ~GoesDown(h0, i, time, last)
    <3> HIDE DEF i
    <3>1. Line(SelfAndAncestors(i), i)
      BY <2>3, AncestorsLine
    <3>2. i \in SelfAndAncestors(i) /\ \A j \in SelfAndAncestors(i) : ~(j > i)
      BY <2>3, <3>1 DEF Line
    <3>3. DownEnd(h0, i, time, last, i)
      BY <2>3, <2>6, <3>2 DEF DownEnd
    <3>4. QED
      BY <2>2, <2>4, <2>6, <3>3
  <2>7. QED
    BY <2>5, <2>6
<1>4. PICK k \in Nat : k = last + 1 - index
  OBVIOUS
<1>5. k \notin Bad
  BY <1>3
<1> HIDE DEF Bad
<1>6. DownEnd(h0, last + 1 - k, time, last, f[last + 1 - k])
  BY <1>4, <1>5 DEF Bad
<1>7. last + 1 - k = index
  BY <1>4
<1>8. QED
  BY <1>2, <1>6, <1>7

-----------------------------------------------------------------------------
(***************************************************************************)
(* What the move of a hole does.                                           *)
(***************************************************************************)
Node == [time : EVTTIM, tmevtb : Event]

HeapType(h0) ==
  h0 \in [node : Seq(Node), index : [Event -> Nat], min_time : EVTTIM,
          current_time : EVTTIM, next_time : EVTTIM, next_subtime : 0 .. TIC_DENO - 1]

SameClock(h0, g) ==
  /\ g.min_time = h0.min_time /\ g.current_time = h0.current_time
  /\ g.next_time = h0.next_time /\ g.next_subtime = h0.next_subtime

\* The parts of MoveHole.
Before(from, to, i) ==
  IF from > to THEN PARENT(i) ELSE CHOOSE j \in Path(from, to) : PARENT(j) = i
NewNode(h0, from, to, e) ==
  [i \in DOMAIN h0.node |->
     IF i = to THEN e
     ELSE IF i \in Path(from, to) THEN h0.node[Before(from, to, i)] ELSE h0.node[i]]
MovedTo(h0, from, to, e, ev) ==
  {i \in Path(from, to) : NewNode(h0, from, to, e)[i].tmevtb = ev}

\* The nodes of the way go by one place each, from the hole's end to its start.
Shifts(from, to, m) ==
  /\ Path(from, to) \subseteq 1 .. m /\ from \in Path(from, to) /\ to \in Path(from, to)
  /\ \A i \in Path(from, to) \ {to} : Before(from, to, i) \in Path(from, to) \ {from}
  /\ \A i, k \in Path(from, to) \ {to} :
       Before(from, to, i) = Before(from, to, k) => i = k
  /\ \A j \in Path(from, to) \ {from} : \E i \in Path(from, to) \ {to} :
       Before(from, to, i) = j

LEMMA ShiftsUp ==
  ASSUME NEW from \in Nat, NEW to \in SelfAndAncestors(from), NEW m \in Nat, from <= m
  PROVE  /\ Shifts(from, to, m)
         /\ \A i \in Path(from, to) \ {to} :
              Before(from, to, i) = PARENT(i) /\ i \in SelfAndAncestors(from) /\ i > to
<1> DEFINE P == {i \in SelfAndAncestors(from) : i >= to}
<1>1. /\ to \in P /\ from \in P /\ P \subseteq to .. from
      /\ to \in Nat /\ to >= 1 /\ to <= from
      /\ \A j \in P : j # to => PARENT(j) \in P
      /\ \A j \in P : j # from => \E k \in P : PARENT(k) = j
      /\ \A j, k \in P : PARENT(j) = PARENT(k) => j = k
  BY PathChain
<1>2. Path(from, to) = P
  BY <1>1 DEF Path
<1>3. P \subseteq SelfAndAncestors(from)
  OBVIOUS
<1> HIDE DEF P
<1>4. \A i \in P : i \in Nat /\ i >= to /\ i <= from /\ i >= 1 /\ i <= m
  BY <1>1
<1>5. \A i \in P \ {to} : Before(from, to, i) = PARENT(i) /\ i > to
  BY <1>1, <1>4 DEF Before
<1>6. \A i \in P \ {to} : PARENT(i) \in P \ {from}
  <2>1. \A i \in P : PARENT(i) < i
    BY <1>4, Parents
  <2>2. QED
    BY <1>1, <1>4, <2>1
<1>7. \A j \in P \ {from} : \E i \in P \ {to} : PARENT(i) = j
  <2> SUFFICES ASSUME NEW j \in P \ {from}
               PROVE  \E i \in P \ {to} : PARENT(i) = j
    OBVIOUS
  <2>1. PICK i \in P : PARENT(i) = j
    BY <1>1
  <2>2. i # to
    BY <1>1, <1>4, <2>1, Parents
  <2>3. QED
    BY <2>1, <2>2
<1>8. Shifts(from, to, m)
  <2>1. P \subseteq 1 .. m
    BY <1>4
  <2>2. /\ \A i \in P \ {to} : Before(from, to, i) \in P \ {from}
        /\ \A i, k \in P \ {to} : Before(from, to, i) = Before(from, to, k) => i = k
        /\ \A j \in P \ {from} : \E i \in P \ {to} : Before(from, to, i) = j
    BY <1>1, <1>5, <1>6, <1>7
  <2>3. QED
    BY <1>1, <1>2, <2>1, <2>2, Zenon DEF Shifts
<1>9. QED
  BY <1>2, <1>3, <1>5, <1>8

LEMMA ShiftsDown ==
  ASSUME NEW to \in Nat, NEW from \in SelfAndAncestors(to), NEW m \in Nat, to <= m
  PROVE  /\ Shifts(from, to, m)
         /\ \A i \in Path(from, to) \ {to} :
              /\ PARENT(Before(from, to, i)) = i
              /\ Before(from, to, i) \in SelfAndAncestors(to) /\ Before(from, to, i) > from
         /\ \A i \in Path(from, to) \ {from} :
              PARENT(i) \in Path(from, to) \ {to} /\ Before(from, to, PARENT(i)) = i
         /\ \A i \in Path(from, to) : i \in SelfAndAncestors(to) /\ i >= from
<1> DEFINE P == {i \in SelfAndAncestors(to) : i >= from}
           b(i) == CHOOSE j \in P : PARENT(j) = i
<1>1. /\ to \in P /\ from \in P /\ P \subseteq from .. to
      /\ from \in Nat /\ from >= 1 /\ from <= to
      /\ \A j \in P : j # from => PARENT(j) \in P
      /\ \A j \in P : j # to => \E k \in P : PARENT(k) = j
      /\ \A j, k \in P : PARENT(j) = PARENT(k) => j = k
  BY PathChain
<1>2. Path(from, to) = P
  BY <1>1 DEF Path
<1>3. \A i \in P : i \in SelfAndAncestors(to) /\ i >= from
  OBVIOUS
<1> HIDE DEF P
<1>4. \A i \in P : i \in Nat /\ i >= from /\ i <= to /\ i >= 1 /\ i <= m
  BY <1>1
<1>5. \A i \in P : PARENT(i) \in Nat /\ PARENT(i) < i
  BY <1>4, Parents
<1>6. \A i : Before(from, to, i) = b(i)
  BY <1>1, <1>2 DEF Before
<1>7. \A i \in P \ {to} : b(i) \in P /\ PARENT(b(i)) = i
  BY <1>1
<1> HIDE DEF b
<1>8. \A i \in P \ {to} : b(i) \in P \ {from} /\ b(i) > from
  <2> SUFFICES ASSUME NEW i \in P \ {to}
               PROVE  b(i) \in P \ {from} /\ b(i) > from
    OBVIOUS
  <2>1. b(i) \in P /\ PARENT(b(i)) = i
    BY <1>7
  <2>2. b(i) \in Nat /\ PARENT(b(i)) < b(i) /\ i \in Nat /\ i >= from
    BY <1>4, <1>5, <2>1
  <2>3. b(i) > from
    BY <1>1, <2>1, <2>2
  <2>4. QED
    BY <1>1, <2>1, <2>3
<1>9. \A j \in P \ {from} : PARENT(j) \in P \ {to} /\ b(PARENT(j)) = j
  <2> SUFFICES ASSUME NEW j \in P \ {from}
               PROVE  PARENT(j) \in P \ {to} /\ b(PARENT(j)) = j
    OBVIOUS
  <2>1. PARENT(j) \in P \ {to}
    BY <1>1, <1>4, <1>5
  <2>2. b(PARENT(j)) \in P /\ PARENT(b(PARENT(j))) = PARENT(j)
    BY <1>7, <2>1
  <2>3. QED
    BY <1>1, <2>1, <2>2
<1>10. \A i, k \in P \ {to} : b(i) = b(k) => i = k
  BY <1>7
<1>11. Shifts(from, to, m)
  <2>1. P \subseteq 1 .. m
    BY <1>4
  <2>2. /\ \A i \in P \ {to} : Before(from, to, i) \in P \ {from}
        /\ \A i, k \in P \ {to} : Before(from, to, i) = Before(from, to, k) => i = k
        /\ \A j \in P \ {from} : \E i \in P \ {to} : Before(from, to, i) = j
    BY <1>6, <1>8, <1>9, <1>10
  <2>3. QED
    BY <1>1, <1>2, <2>1, <2>2, Zenon DEF Shifts
<1>12. QED
  BY <1>2, <1>3, <1>6, <1>7, <1>8, <1>9, <1>11

\* Every event of the first m nodes but the one at the hole knows its node, and the
\* event ev is at none of them.
HoleAt(h0, m, from, ev) ==
  /\ m \in Nat /\ m <= Len(h0.node) /\ from \in 1 .. m
  /\ \A i \in (1 .. m) \ {from} : h0.index[h0.node[i].tmevtb] = i
  /\ \A ev2 \in Event :
       h0.index[ev2] \in (1 .. m) \ {from} => h0.node[h0.index[ev2]].tmevtb = ev2
  /\ h0.index[ev] \notin (1 .. m) \ {from}

\* Afterwards e is at to and the others are where they were or have moved.
Filled(h0, g, m, from, to, e) ==
  /\ HeapType(g) /\ SameClock(h0, g) /\ Len(g.node) = Len(h0.node)
  /\ \A i \in 1 .. m : g.index[g.node[i].tmevtb] = i
  /\ \A i \in 1 .. m : g.node[i].tmevtb = e.tmevtb
                         \/ h0.index[g.node[i].tmevtb] \in (1 .. m) \ {from}
  /\ g.index[e.tmevtb] = to /\ g.node[to] = e
  /\ \A ev2 \in Event \ {e.tmevtb} :
       IF h0.index[ev2] \in (1 .. m) \ {from}
       THEN g.index[ev2] \in 1 .. m /\ g.node[g.index[ev2]] = h0.node[h0.index[ev2]]
       ELSE g.index[ev2] = h0.index[ev2]

IsMoved(h0, from, to, e, g) ==
  /\ SameClock(h0, g) /\ g = [h0 EXCEPT !.node = g.node, !.index = g.index]
  /\ g.node = NewNode(h0, from, to, e)
  /\ g.index = [ev \in Event |-> IF MovedTo(h0, from, to, e, ev) = {} THEN h0.index[ev]
                                 ELSE CHOOSE i \in MovedTo(h0, from, to, e, ev) : TRUE]

LEMMA MoveHoleIs ==
  ASSUME NEW h0, HeapType(h0), NEW from, NEW to, NEW e
  PROVE  IsMoved(h0, from, to, e, MoveHole(h0, from, to, e))
<1> DEFINE moved(ev) == MovedTo(h0, from, to, e, ev)
           index == [ev \in Event |-> IF moved(ev) = {} THEN h0.index[ev]
                                      ELSE CHOOSE i \in moved(ev) : TRUE]
<1>1. MoveHole(h0, from, to, e) = [h0 EXCEPT !.node = NewNode(h0, from, to, e), !.index = index]
  BY Zenon DEF MoveHole, NewNode, MovedTo, Before
<1> HIDE DEF index
<1>2. /\ SameClock(h0, MoveHole(h0, from, to, e))
      /\ MoveHole(h0, from, to, e).node = NewNode(h0, from, to, e)
      /\ MoveHole(h0, from, to, e).index = index
  BY <1>1 DEF HeapType, SameClock
<1>3. QED
  BY <1>1, <1>2 DEF index, IsMoved

LEMMA MoveHoleFills ==
  ASSUME NEW h0, HeapType(h0), NEW m, NEW from, NEW to, NEW e \in Node,
         HoleAt(h0, m, from, e.tmevtb), Shifts(from, to, m)
  PROVE  Filled(h0, MoveHole(h0, from, to, e), m, from, to, e)
<1> DEFINE g == MoveHole(h0, from, to, e)
           P == Path(from, to)
           b(i) == Before(from, to, i)
           nn == NewNode(h0, from, to, e)
           moved(ev) == MovedTo(h0, from, to, e, ev)
           ix == h0.index
           ev == e.tmevtb
           n == Len(h0.node)
           Others == (1 .. m) \ {from}
<1>1. /\ SameClock(h0, g) /\ g = [h0 EXCEPT !.node = g.node, !.index = g.index]
      /\ g.node = nn
      /\ g.index = [ev2 \in Event |-> IF moved(ev2) = {} THEN ix[ev2]
                                      ELSE CHOOSE i \in moved(ev2) : TRUE]
  <2>1. IsMoved(h0, from, to, e, g)
    BY MoveHoleIs
  <2>2. QED
    BY <2>1, Zenon DEF IsMoved
<1> HIDE DEF g
<1>2. h0.node \in Seq(Node) /\ ix \in [Event -> Nat] /\ n \in Nat /\ DOMAIN h0.node = 1 .. n
      /\ \A i \in 1 .. n : h0.node[i] \in Node
  BY DEF HeapType
<1>3. m \in Nat /\ m <= n /\ from \in 1 .. m /\ 1 .. m \subseteq 1 .. n
  BY <1>2 DEF HoleAt
<1>4. /\ P \subseteq 1 .. m /\ from \in P /\ to \in P
      /\ \A i \in P \ {to} : b(i) \in P \ {from}
      /\ \A i, k \in P \ {to} : b(i) = b(k) => i = k
      /\ \A j \in P \ {from} : \E i \in P \ {to} : b(i) = j
  BY DEF Shifts
<1>5. /\ \A i \in Others : ix[h0.node[i].tmevtb] = i
      /\ \A ev2 \in Event : ix[ev2] \in Others => h0.node[ix[ev2]].tmevtb = ev2
      /\ ix[ev] \notin Others
  BY DEF HoleAt
<1>6. /\ DOMAIN nn = 1 .. n
      /\ \A i \in 1 .. n : nn[i] = IF i = to THEN e
                                   ELSE IF i \in P THEN h0.node[b(i)] ELSE h0.node[i]
  BY <1>2 DEF NewNode
<1>7. \A ev2 : moved(ev2) = {i \in P : nn[i].tmevtb = ev2}
  BY DEF MovedTo
<1> HIDE DEF P, b, nn, moved, ix, n, ev, Others
<1>8. /\ nn[to] = e
      /\ \A i \in P \ {to} : nn[i] = h0.node[b(i)] /\ b(i) \in Others /\ b(i) \in P
      /\ \A i \in (1 .. m) \ P : nn[i] = h0.node[i] /\ i \in Others
  BY <1>3, <1>4, <1>6 DEF Others
<1>9. Others \subseteq 1 .. n
  BY <1>3 DEF Others
<1>10. \A i \in 1 .. n : nn[i] \in Node
  BY <1>2, <1>4, <1>6, <1>8, <1>9
<1>11. nn \in Seq(Node) /\ Len(nn) = n
  <2>1. nn \in [1 .. n -> Node]
    BY <1>6, <1>10 DEF nn, NewNode
  <2>2. QED
    BY <1>2, <2>1
<1>12. /\ nn[to].tmevtb = ev /\ ev \in Event
       /\ \A i \in P \ {to} : nn[i].tmevtb \in Event /\ ix[nn[i].tmevtb] = b(i)
       /\ \A i \in (1 .. m) \ P : nn[i].tmevtb \in Event /\ ix[nn[i].tmevtb] = i
  <2>1. nn[to].tmevtb = ev /\ ev \in Event
    BY <1>8 DEF ev, Node
  <2>2. \A i \in Others : h0.node[i].tmevtb \in Event
    BY <1>2, <1>9 DEF Node
  <2>3. QED
    BY <1>5, <1>8, <2>1, <2>2
<1>13. \A i, k \in P : nn[i].tmevtb = nn[k].tmevtb => i = k
  BY <1>4, <1>5, <1>8, <1>12
<1>14. \A i \in P : moved(nn[i].tmevtb) = {i}
  BY <1>7, <1>13
<1>15. \A i \in P : nn[i].tmevtb \in Event
  BY <1>12
<1>16. \A i \in P : g.index[nn[i].tmevtb] = i
  <2> SUFFICES ASSUME NEW i \in P
               PROVE  g.index[nn[i].tmevtb] = i
    OBVIOUS
  <2>1. (CHOOSE k \in {i} : TRUE) = i /\ {i} # {}
    OBVIOUS
  <2>2. QED
    BY <1>1, <1>14, <1>15, <2>1
<1>17. ASSUME NEW ev2 \in Event, ev2 # ev, ix[ev2] \notin Others
       PROVE  g.index[ev2] = ix[ev2]
  <2>1. moved(ev2) = {}
    BY <1>7, <1>8, <1>12, <1>17
  <2>2. QED
    BY <1>1, <2>1
<1>18. ASSUME NEW ev2 \in Event, ev2 # ev, ix[ev2] \in Others
       PROVE  g.index[ev2] \in 1 .. m /\ nn[g.index[ev2]] = h0.node[ix[ev2]]
  <2>1. CASE ix[ev2] \in P
    <3>1. PICK i \in P \ {to} : b(i) = ix[ev2]
      BY <1>4, <1>18, <2>1 DEF Others
    <3>2. nn[i] = h0.node[ix[ev2]] /\ nn[i].tmevtb = ev2
      BY <1>5, <1>8, <1>18, <3>1
    <3>3. g.index[ev2] = i
      BY <1>16, <3>1, <3>2
    <3>4. QED
      BY <1>4, <3>1, <3>2, <3>3
  <2>2. CASE ix[ev2] \notin P
    <3>1. ix[ev2] \in (1 .. m) \ P
      BY <1>18, <2>2 DEF Others
    <3>2. moved(ev2) = {}
      BY <1>7, <1>8, <1>12, <1>18, <2>2
    <3>3. g.index[ev2] = ix[ev2]
      BY <1>1, <3>2
    <3>4. QED
      BY <1>8, <3>1, <3>3
  <2>3. QED
    BY <2>1, <2>2
<1>19. \A i \in 1 .. m : g.index[nn[i].tmevtb] = i
  <2> SUFFICES ASSUME NEW i \in 1 .. m, i \notin P
               PROVE  g.index[nn[i].tmevtb] = i
    BY <1>16
  <2>1. i \in (1 .. m) \ P /\ i \in Others
    BY <1>8
  <2>2. moved(nn[i].tmevtb) = {}
    BY <1>5, <1>7, <1>8, <1>12, <2>1
  <2>3. QED
    BY <1>1, <1>12, <2>1, <2>2
<1>20. g.index \in [Event -> Nat]
  <2> SUFFICES ASSUME NEW ev2 \in Event
               PROVE  g.index[ev2] \in Nat
    BY <1>1
  <2>1. CASE ev2 = ev
    BY <1>3, <1>4, <1>8, <1>16, <2>1 DEF ev
  <2>2. CASE ev2 # ev
    BY <1>2, <1>17, <1>18, <2>2
  <2>3. QED
    BY <2>1, <2>2
<1>21. HeapType(g)
  BY <1>1, <1>11, <1>20 DEF HeapType
<1>22. g.index[ev] = to
  BY <1>4, <1>12, <1>16
<1>23. \A i \in 1 .. m : nn[i].tmevtb = ev \/ ix[nn[i].tmevtb] \in Others
  BY <1>8, <1>12
<1>24. QED
  BY <1>1, <1>8, <1>11, <1>17, <1>18, <1>19, <1>21, <1>22, <1>23
     DEF Filled, ev, ix, n, Others, g

-----------------------------------------------------------------------------
(***************************************************************************)
(* The order of the heap: times are compared by how long they are after    *)
(* min_time.                                                               *)
(***************************************************************************)
Key(h0, time) == Minus(time, h0.min_time)

LEMMA Modulus ==
  ASSUME NEW a \in Nat, NEW n \in Nat, n > 0
  PROVE  /\ a % n \in Nat /\ a % n < n
         /\ a < n => a % n = a
         /\ a >= n /\ a < n + n => a % n = a - n
<1>1. a % n \in Nat /\ a % n < n
  BY Z3
<1>2. a < n => a % n = a
  BY Z3
<1>3. a >= n /\ a < n + n => a % n = a - n
  BY Z3
<1>4. QED
  BY <1>1, <1>2, <1>3

\* Subtraction of times.
LEMMA Differences ==
  ASSUME NEW a \in EVTTIM, NEW b \in EVTTIM
  PROVE  /\ Minus(a, b) \in EVTTIM
         /\ Minus(a, b) = IF b <= a THEN a - b ELSE a + EVTTIM_MOD - b
<1>1. EVTTIM_MOD \in Nat /\ EVTTIM_MOD > 0
  BY TimeEventAssumption
<1>2. a \in Nat /\ b \in Nat /\ a < EVTTIM_MOD /\ b < EVTTIM_MOD
  BY <1>1 DEF EVTTIM
<1> DEFINE d == a + EVTTIM_MOD - b
<1>3. d \in Nat /\ d < EVTTIM_MOD + EVTTIM_MOD
      /\ (b <= a => d >= EVTTIM_MOD /\ d - EVTTIM_MOD = a - b)
      /\ (~(b <= a) => d < EVTTIM_MOD)
  BY <1>1, <1>2
<1> HIDE DEF d
<1>4. /\ d % EVTTIM_MOD \in Nat /\ d % EVTTIM_MOD < EVTTIM_MOD
      /\ d < EVTTIM_MOD => d % EVTTIM_MOD = d
      /\ d >= EVTTIM_MOD => d % EVTTIM_MOD = d - EVTTIM_MOD
  BY <1>1, <1>3, Modulus
<1>5. Minus(a, b) = d % EVTTIM_MOD
  BY DEF Minus, d
<1>6. Minus(a, b) \in EVTTIM
  BY <1>1, <1>4, <1>5 DEF EVTTIM
<1>7. Minus(a, b) = IF b <= a THEN a - b ELSE d
  BY <1>3, <1>4, <1>5
<1>8. QED
  BY <1>6, <1>7 DEF d

LEMMA Sums ==
  ASSUME NEW a \in EVTTIM, NEW b \in EVTTIM
  PROVE  /\ Plus(a, b) \in EVTTIM
         /\ Plus(a, b) = IF a + b < EVTTIM_MOD THEN a + b ELSE (a + b) - EVTTIM_MOD
<1>1. EVTTIM_MOD \in Nat /\ EVTTIM_MOD > 0
  BY TimeEventAssumption
<1>2. a \in Nat /\ b \in Nat /\ a < EVTTIM_MOD /\ b < EVTTIM_MOD
  BY <1>1 DEF EVTTIM
<1> DEFINE d == a + b
<1>3. d \in Nat /\ d < EVTTIM_MOD + EVTTIM_MOD
  BY <1>1, <1>2
<1> HIDE DEF d
<1>4. /\ d % EVTTIM_MOD \in Nat /\ d % EVTTIM_MOD < EVTTIM_MOD
      /\ d < EVTTIM_MOD => d % EVTTIM_MOD = d
      /\ d >= EVTTIM_MOD => d % EVTTIM_MOD = d - EVTTIM_MOD
  BY <1>1, <1>3, Modulus
<1>5. Plus(a, b) = d % EVTTIM_MOD
  BY DEF Plus, d
<1>6. Plus(a, b) \in EVTTIM
  BY <1>1, <1>4, <1>5 DEF EVTTIM
<1>7. Plus(a, b) = IF d < EVTTIM_MOD THEN d ELSE d - EVTTIM_MOD
  BY <1>1, <1>3, <1>4, <1>5
<1>8. QED
  BY <1>6, <1>7 DEF d

LEMMA KeysAreNumbers ==
  ASSUME NEW h0, HeapType(h0)
  PROVE  /\ \A time \in EVTTIM : Key(h0, time) \in Nat
         /\ \A i \in 1 .. Len(h0.node) : h0.node[i] \in Node /\ h0.node[i].time \in EVTTIM
                                          /\ h0.node[i].tmevtb \in Event
         /\ \A s, t : EVTTIM_LE(h0, s, t) <=> Key(h0, s) <= Key(h0, t)
         /\ \A s, t : EVTTIM_LT(h0, s, t) <=> Key(h0, s) < Key(h0, t)
<1>1. ASSUME NEW time \in EVTTIM PROVE Key(h0, time) \in Nat
  <2>1. Minus(time, h0.min_time) \in EVTTIM
    BY Differences DEF HeapType
  <2>2. QED
    BY <2>1, TimeEventAssumption DEF Key, EVTTIM
<1>2. h0.node \in Seq(Node)
  BY DEF HeapType
<1>3. \A i \in 1 .. Len(h0.node) : h0.node[i] \in Node
  BY <1>2
<1>4. QED
  BY <1>1, <1>3 DEF EVTTIM_LE, EVTTIM_LT, Key, Node

\* The parents among the first m nodes are not later than their children.
Ordered(h0, m) ==
  \A i \in 2 .. m : EVTTIM_LE(h0, h0.node[PARENT(i)].time, h0.node[i].time)

\* All but the event at the hole, which has no children or gives way to its parent.
OrderedButHole(h0, m, from, time) ==
  /\ \A i \in 2 .. m : i # from =>
       EVTTIM_LE(h0, h0.node[PARENT(i)].time, h0.node[i].time)
  /\ \/ LCHILD(from) > m
     \/ /\ GoesUp(h0, from, time)
        /\ EVTTIM_LE(h0, h0.node[PARENT(from)].time, h0.node[from].time)

\* A hole moved up to where the event is not earlier than the parent.
LEMMA MoveUpOrder ==
  ASSUME NEW h0, HeapType(h0), NEW m \in Nat, m <= Len(h0.node), NEW from \in 1 .. m,
         NEW e \in Node, NEW to, UpEnd(h0, from, e.time, to),
         NEW g, HeapType(g), g.min_time = h0.min_time, g.node = NewNode(h0, from, to, e),
         OrderedButHole(h0, m, from, e.time)
  PROVE  Ordered(g, m)
<1> DEFINE P == Path(from, to)
           k(i) == Key(h0, h0.node[i].time)
           k2(i) == Key(h0, g.node[i].time)
           T == Key(h0, e.time)
<1>1. /\ to \in SelfAndAncestors(from) /\ ~GoesUp(h0, to, e.time)
      /\ \A j \in SelfAndAncestors(from) : j > to => GoesUp(h0, j, e.time)
  BY DEF UpEnd
<1>2. from \in Nat /\ from >= 1 /\ from <= m
  OBVIOUS
<1>3. to \in Nat /\ to >= 1 /\ to <= from
  <2>1. Line(SelfAndAncestors(from), from)
    BY <1>2, AncestorsLine
  <2>2. QED
    BY <1>1, <1>2, <2>1 DEF Line
<1>4. Shifts(from, to, m)
  BY <1>1, <1>2, ShiftsUp
<1>5. \A i \in P \ {to} : /\ Before(from, to, i) = PARENT(i)
                          /\ i \in SelfAndAncestors(from) /\ i > to
  BY <1>1, <1>2, ShiftsUp
<1>6. /\ P \subseteq 1 .. m /\ from \in P /\ to \in P
      /\ \A i \in P \ {to} : PARENT(i) \in P
  BY <1>4, <1>5 DEF Shifts
<1>7. /\ T \in Nat /\ \A i \in 1 .. m : k(i) \in Nat
      /\ \A s, t : EVTTIM_LE(h0, s, t) <=> Key(h0, s) <= Key(h0, t)
  BY KeysAreNumbers DEF Node
<1>8. /\ k2(to) = T
      /\ \A i \in P \ {to} : k2(i) = k(PARENT(i))
      /\ \A i \in (1 .. m) \ P : k2(i) = k(i)
  <2>1. DOMAIN h0.node = 1 .. Len(h0.node) /\ Len(h0.node) \in Nat
    BY DEF HeapType
  <2>2. 1 .. m \subseteq DOMAIN h0.node
    BY <2>1
  <2> HIDE DEF P
  <2>3. /\ g.node[to] = e
        /\ \A i \in P \ {to} : g.node[i] = h0.node[PARENT(i)]
        /\ \A i \in (1 .. m) \ P : g.node[i] = h0.node[i]
    BY <1>5, <1>6, <2>2 DEF NewNode, P
  <2>4. QED
    BY <2>3
<1>9. \A i \in 2 .. m : i # from => k(PARENT(i)) <= k(i)
  BY <1>7 DEF OrderedButHole
<1>10. \A i \in P : i > to => i > 1 /\ ~(k(PARENT(i)) <= T)
  BY <1>1, <1>3, <1>5, <1>7 DEF GoesUp
<1>11. to > 1 => k(PARENT(to)) <= T
  BY <1>1, <1>7 DEF GoesUp
<1>12. \/ LCHILD(from) > m
       \/ from > 1 /\ ~(k(PARENT(from)) <= T) /\ k(PARENT(from)) <= k(from)
  BY <1>7 DEF GoesUp, OrderedButHole
<1>13. \A i \in 1 .. m : /\ PARENT(i) \in Nat /\ PARENT(i) < i
                         /\ i > 1 => PARENT(i) >= 1 /\ PARENT(i) \in 1 .. m
                         /\ i = LCHILD(PARENT(i)) \/ i = LCHILD(PARENT(i)) + 1
  <2> SUFFICES ASSUME NEW i \in 1 .. m
               PROVE  /\ PARENT(i) \in Nat /\ PARENT(i) < i
                      /\ i > 1 => PARENT(i) >= 1
                      /\ i = LCHILD(PARENT(i)) \/ i = LCHILD(PARENT(i)) + 1
    OBVIOUS
  <2>1. i \in Nat /\ i > 0
    OBVIOUS
  <2>2. QED
    BY <2>1, Parents
<1>14. LCHILD(from) \in Nat
  BY <1>2, Parents
<1> HIDE DEF P, k, k2, T
<1>15. ASSUME NEW i \in 2 .. m PROVE k2(PARENT(i)) <= k2(i)
  <2> DEFINE p == PARENT(i)
  <2>1. i \in Nat /\ i > 1 /\ i <= m /\ p \in 1 .. m /\ p < i /\ i \in 1 .. m
    BY <1>13
  <2>2. /\ k(i) \in Nat /\ k(p) \in Nat /\ T \in Nat
        /\ p > 1 => k(PARENT(p)) \in Nat
        /\ to > 1 => k(PARENT(to)) \in Nat
    <3>1. to \in 1 .. m
      BY <1>2, <1>3
    <3>2. (p > 1 => PARENT(p) \in 1 .. m) /\ (to > 1 => PARENT(to) \in 1 .. m)
      BY <1>13, <2>1, <3>1
    <3>3. QED
      BY <1>7, <2>1, <3>2
  <2>3. CASE i \in P /\ i # to
    <3>1. k2(i) = k(p) /\ p \in P
      BY <1>6, <1>8, <2>3
    <3>2. p # from
      <4>1. i \in SelfAndAncestors(from)
        BY <1>5, <2>3 DEF P
      <4>2. i <= from
        BY <1>2, <4>1, AncestorsLine DEF Line
      <4>3. QED
        BY <1>2, <2>1, <4>2
    <3>3. CASE p = to
      BY <1>5, <1>8, <1>10, <2>2, <2>3, <3>1, <3>3 DEF P
    <3>4. CASE p # to
      <4>1. p > to
        BY <1>5, <3>1, <3>4 DEF P
      <4>2. k2(p) = k(PARENT(p)) /\ k(PARENT(p)) <= k(p)
        BY <1>3, <1>8, <1>9, <2>1, <3>1, <3>2, <3>4, <4>1
      <4>3. QED
        BY <3>1, <4>2
    <3>5. QED
      BY <3>3, <3>4
  <2>4. CASE i = to
    <3>1. p \notin P
      BY <1>3, <1>5, <2>1, <2>4 DEF P
    <3>2. k2(p) = k(p) /\ k2(i) = T
      BY <1>8, <2>1, <2>4, <3>1
    <3>3. QED
      BY <1>11, <2>1, <2>4, <3>2
  <2>5. CASE i \notin P
    <3>1. k2(i) = k(i) /\ i # from /\ k(p) <= k(i)
      BY <1>6, <1>8, <1>9, <2>1, <2>5
    <3>2. CASE p \notin P
      BY <1>8, <2>1, <3>1, <3>2
    <3>3. CASE p \in P
      <4>1. p = from => ~(LCHILD(from) > m)
        BY <1>13, <1>14, <2>1
      <4>2. CASE p = to
        <5>1. CASE to = from
          BY <1>1, <1>7, <1>12, <4>1, <4>2, <5>1, <1>11, <2>2
        <5>2. CASE to # from
          <6>1. PICK j \in P \ {to} : PARENT(j) = to
            BY <1>4, <1>5, <1>6, <5>2 DEF Shifts, P
          <6>2. ~(k(to) <= T)
            BY <1>5, <1>10, <6>1 DEF P
          <6>3. QED
            BY <1>8, <2>2, <3>1, <4>2, <6>2
        <5>3. QED
          BY <5>1, <5>2
      <4>3. CASE p # to
        <5>1. p > to /\ p > 1 /\ k2(p) = k(PARENT(p))
          BY <1>5, <1>8, <1>10, <3>3, <4>3 DEF P
        <5>2. k(PARENT(p)) <= k(p)
          BY <1>9, <1>12, <2>1, <4>1, <5>1
        <5>3. QED
          BY <2>2, <3>1, <5>1, <5>2
      <4>4. QED
        BY <4>2, <4>3
    <3>4. QED
      BY <3>2, <3>3
  <2>6. QED
    BY <2>3, <2>4, <2>5
<1>16. \A s, t : EVTTIM_LE(g, s, t) <=> Key(h0, s) <= Key(h0, t)
  BY DEF EVTTIM_LE, Key
<1>17. QED
  BY <1>15, <1>16 DEF Ordered, k2

LEMMA EarliestChild ==
  ASSUME NEW h0, HeapType(h0), NEW m \in Nat, m <= Len(h0.node), NEW c \in 2 .. m
  PROVE  /\ LCHILD(PARENT(c)) <= m
         /\ Key(h0, h0.node[EarlierChild(h0, PARENT(c), m)].time) <= Key(h0, h0.node[c].time)
<1> DEFINE l == LCHILD(PARENT(c))
           k(i) == Key(h0, h0.node[i].time)
<1>1. l \in Nat /\ (c = l \/ c = l + 1) /\ c \in Nat /\ c >= 2 /\ c <= m
  <2>1. c \in Nat /\ c >= 2 /\ c <= m
    OBVIOUS
  <2>2. PARENT(c) \in Nat /\ (c = l \/ c = l + 1)
    BY <2>1, Parents
  <2>3. l \in Nat
    BY <2>2, Parents
  <2>4. QED
    BY <2>1, <2>2, <2>3
<1>2. l <= m /\ l >= 1
  BY <1>1
<1>3. /\ \A i \in 1 .. m : k(i) \in Nat
      /\ \A s, t : EVTTIM_LT(h0, s, t) <=> Key(h0, s) < Key(h0, t)
  BY SMTT(60), KeysAreNumbers DEF HeapType
<1>4. EarlierChild(h0, PARENT(c), m) = IF l + 1 <= m /\ k(l + 1) < k(l) THEN l + 1 ELSE l
  BY <1>3 DEF EarlierChild
<1> HIDE DEF l, k
<1>5. k(l) \in Nat /\ (l + 1 <= m => k(l + 1) \in Nat)
  BY <1>1, <1>2, <1>3
<1>6. k(EarlierChild(h0, PARENT(c), m)) <= k(c)
  BY <1>1, <1>2, <1>4, <1>5
<1>7. QED
  BY <1>2, <1>6 DEF k, l

\* A hole moved down to where the event is not later than the children.
LEMMA MoveDownOrder ==
  ASSUME NEW h0, HeapType(h0), NEW m \in Nat, m <= Len(h0.node), NEW from \in 1 .. m,
         NEW e \in Node, NEW to, DownEnd(h0, from, e.time, m, to),
         NEW g, HeapType(g), g.min_time = h0.min_time, g.node = NewNode(h0, from, to, e),
         Ordered(h0, m), ~GoesUp(h0, from, e.time)
  PROVE  Ordered(g, m)
<1> DEFINE P == Path(from, to)
           b(i) == Before(from, to, i)
           k(i) == Key(h0, h0.node[i].time)
           k2(i) == Key(h0, g.node[i].time)
           T == Key(h0, e.time)
<1>1. /\ to \in Nat /\ to >= from /\ (to > from => to <= m)
      /\ from \in SelfAndAncestors(to)
      /\ ~GoesDown(h0, to, e.time, m)
      /\ \A j \in SelfAndAncestors(to) :
           j > from => /\ GoesDown(h0, PARENT(j), e.time, m)
                       /\ j = EarlierChild(h0, PARENT(j), m)
  BY DEF DownEnd
<1>2. from \in Nat /\ from >= 1 /\ from <= m /\ to <= m /\ to >= 1
  BY <1>1
<1>3. /\ Shifts(from, to, m)
      /\ \A i \in P \ {to} : /\ PARENT(b(i)) = i
                             /\ b(i) \in SelfAndAncestors(to) /\ b(i) > from
      /\ \A i \in P \ {from} : PARENT(i) \in P \ {to} /\ b(PARENT(i)) = i
      /\ \A i \in P : i \in SelfAndAncestors(to) /\ i >= from
  BY <1>1, <1>2, ShiftsDown
<1>4. /\ P \subseteq 1 .. m /\ from \in P /\ to \in P
      /\ \A i \in P \ {to} : b(i) \in P
  BY <1>3 DEF Shifts
<1>5. /\ T \in Nat /\ \A i \in 1 .. m : k(i) \in Nat
      /\ \A s, t : EVTTIM_LE(h0, s, t) <=> Key(h0, s) <= Key(h0, t)
      /\ \A s, t : EVTTIM_LT(h0, s, t) <=> Key(h0, s) < Key(h0, t)
  BY KeysAreNumbers DEF Node
<1>6. /\ k2(to) = T
      /\ \A i \in P \ {to} : k2(i) = k(b(i))
      /\ \A i \in (1 .. m) \ P : k2(i) = k(i)
  <2>1. DOMAIN h0.node = 1 .. Len(h0.node) /\ Len(h0.node) \in Nat
    BY DEF HeapType
  <2>2. 1 .. m \subseteq DOMAIN h0.node
    BY <2>1
  <2> HIDE DEF P, b
  <2>3. /\ g.node[to] = e
        /\ \A i \in P \ {to} : g.node[i] = h0.node[b(i)]
        /\ \A i \in (1 .. m) \ P : g.node[i] = h0.node[i]
    BY <1>4, <2>2 DEF NewNode, P, b
  <2>4. QED
    BY <2>3
<1>7. \A i \in 2 .. m : k(PARENT(i)) <= k(i)
  BY <1>5 DEF Ordered
<1>8. \A i \in P \ {from} : /\ i = EarlierChild(h0, PARENT(i), m) /\ k(i) < T
  BY <1>1, <1>2, <1>3, <1>4, <1>5 DEF GoesDown
<1>9. from > 1 => k(PARENT(from)) <= T
  BY <1>2, <1>5 DEF GoesUp
<1>10. LCHILD(to) <= m => ~(k(EarlierChild(h0, to, m)) < T)
  BY <1>1, <1>5 DEF GoesDown
<1>11. \A i \in 1 .. m : /\ PARENT(i) \in Nat /\ PARENT(i) < i
                         /\ i > 1 => PARENT(i) >= 1 /\ PARENT(i) \in 1 .. m
  <2> SUFFICES ASSUME NEW i \in 1 .. m
               PROVE  /\ PARENT(i) \in Nat /\ PARENT(i) < i
                      /\ i > 1 => PARENT(i) >= 1
    OBVIOUS
  <2>1. i \in Nat /\ i > 0
    OBVIOUS
  <2>2. QED
    BY <2>1, Parents
<1>12. \A c \in 2 .. m : /\ LCHILD(PARENT(c)) <= m
                         /\ k(EarlierChild(h0, PARENT(c), m)) <= k(c)
  BY EarliestChild
<1> HIDE DEF P, b, k, k2, T
<1>13. ASSUME NEW i \in 2 .. m PROVE k2(PARENT(i)) <= k2(i)
  <2> DEFINE p == PARENT(i)
             c == EarlierChild(h0, p, m)
  <2>1. i \in Nat /\ i > 1 /\ i <= m /\ p \in 1 .. m /\ p < i /\ i \in 1 .. m
    BY <1>11
  <2>2. k(i) \in Nat /\ k(p) \in Nat /\ T \in Nat
    BY <1>5, <2>1
  <2>3. CASE i \in P /\ i # from
    <3>1. p \in P \ {to} /\ b(p) = i /\ k2(p) = k(i) /\ k(i) < T
      BY <1>3, <1>6, <1>8, <2>3 DEF P, b
    <3>2. CASE i = to
      BY <1>6, <2>2, <3>1, <3>2
    <3>3. CASE i # to
      <4>1. k2(i) = k(b(i)) /\ PARENT(b(i)) = i /\ b(i) \in P /\ b(i) > from
        BY <1>3, <1>4, <1>6, <2>3, <3>3 DEF P, b
      <4>2. b(i) \in 2 .. m
        <5>1. b(i) \in 1 .. m
          BY <1>4, <4>1
        <5>2. QED
          BY <1>2, <4>1, <5>1
      <4>3. k(i) <= k(b(i))
        BY <1>7, <4>1, <4>2
      <4>4. QED
        BY <3>1, <4>1, <4>3
    <3>4. QED
      BY <3>2, <3>3
  <2>4. CASE i = from
    <3>1. p \notin P /\ k2(p) = k(p)
      <4>1. p \notin P
        BY <1>3, <1>2, <2>1, <2>4 DEF P
      <4>2. QED
        BY <1>6, <2>1, <4>1
    <3>2. CASE i = to
      BY <1>6, <1>9, <2>1, <2>2, <2>4, <3>1, <3>2
    <3>3. CASE i # to
      <4>1. k2(i) = k(b(i)) /\ PARENT(b(i)) = i /\ b(i) \in P /\ b(i) > from
        BY <1>3, <1>4, <1>6, <2>4, <3>3 DEF P, b
      <4>2. b(i) \in 2 .. m /\ k(b(i)) \in Nat
        <5>1. b(i) \in 1 .. m
          BY <1>4, <4>1
        <5>2. QED
          BY <1>2, <1>5, <4>1, <5>1
      <4>3. k(i) <= k(b(i)) /\ k(p) <= k(i)
        BY <1>7, <4>1, <4>2
      <4>4. QED
        BY <2>2, <3>1, <4>1, <4>2, <4>3
    <3>4. QED
      BY <3>2, <3>3
  <2>5. CASE i \notin P
    <3>1. k2(i) = k(i) /\ k(p) <= k(i)
      BY <1>6, <1>7, <2>1, <2>5
    <3>2. CASE p \notin P
      BY <1>6, <2>1, <3>1, <3>2
    <3>3. CASE p = to
      <4>1. LCHILD(p) <= m /\ k(c) <= k(i)
        BY <1>12
      <4>2. LCHILD(p) \in Nat /\ c \in 1 .. m
        <5>1. p \in Nat /\ p >= 1
          BY <2>1
        <5>2. LCHILD(p) \in Nat
          BY <5>1, Parents
        <5>3. c \in Nat /\ c > p /\ c <= m
          BY <4>1, <5>1, Children
        <5> HIDE DEF c, p
        <5>4. QED
          BY <5>1, <5>2, <5>3
      <4>3. QED
        BY <1>5, <1>6, <1>10, <2>2, <3>1, <3>3, <4>1, <4>2
    <3>4. CASE p \in P /\ p # to
      <4>1. k2(p) = k(b(p)) /\ PARENT(b(p)) = p /\ b(p) \in P \ {from}
        BY <1>3, <1>4, <1>6, <2>1, <3>4 DEF P, b, Shifts
      <4>2. b(p) = c
        BY <1>8, <4>1
      <4>3. k(c) <= k(i)
        BY <1>12
      <4>4. QED
        BY <3>1, <4>1, <4>2, <4>3
    <3>5. QED
      BY <3>2, <3>3, <3>4
  <2>6. QED
    BY <1>4, <2>3, <2>4, <2>5
<1>14. \A s, t : EVTTIM_LE(g, s, t) <=> Key(h0, s) <= Key(h0, t)
  BY DEF EVTTIM_LE, Key
<1>15. QED
  BY <1>13, <1>14 DEF Ordered, k2

-----------------------------------------------------------------------------
(***************************************************************************)
(* What is put into the heap and taken out of it.                          *)
(***************************************************************************)
GoodHeap(h0) == HeapType(h0) /\ HeapOK(h0)

TimeOf(h0, ev) == h0.node[h0.index[ev]].time

\* The events other than ev are registered as before, for the same times.
OthersStay(h0, g, ev) ==
  \A ev2 \in Event \ {ev} : /\ Registered(g, ev2) <=> Registered(h0, ev2)
                            /\ Registered(h0, ev2) => TimeOf(g, ev2) = TimeOf(h0, ev2)

HasInserted(h0, g, ev, time) ==
  /\ GoodHeap(g) /\ SameClock(h0, g) /\ OthersStay(h0, g, ev)
  /\ Registered(g, ev) /\ TimeOf(g, ev) = time

HasDeleted(h0, g, ev) ==
  GoodHeap(g) /\ SameClock(h0, g) /\ OthersStay(h0, g, ev) /\ ~Registered(g, ev)

LEMMA InsertInserts ==
  ASSUME NEW h0, GoodHeap(h0), NEW ev \in Event, ~Registered(h0, ev), NEW time \in EVTTIM
  PROVE  HasInserted(h0, tmevtb_insert(h0, ev, time), ev, time)
<1> DEFINE n == Len(h0.node)
           m == n + 1
           e == [time |-> time, tmevtb |-> ev]
           h2 == [h0 EXCEPT !.node = Append(@, e)]
           to == tmevt_up(h2, m, time)
           g == tmevtb_insert(h0, ev, time)
<1>1. /\ h0.node \in Seq(Node) /\ h0.index \in [Event -> Nat] /\ n \in Nat
      /\ e \in Node /\ e.time = time /\ e.tmevtb = ev
  BY DEF GoodHeap, HeapType, Node
<1>2. /\ h2.node = Append(h0.node, e) /\ h2.index = h0.index /\ SameClock(h0, h2)
      /\ HeapType(h2)
  <2>1. Append(h0.node, e) \in Seq(Node)
    BY <1>1
  <2> HIDE DEF e
  <2>2. QED
    BY <2>1 DEF GoodHeap, HeapType, SameClock
<1>3. /\ Len(h2.node) = m /\ m \in Nat /\ m >= 1 /\ m \in 1 .. m
      /\ h2.node[m] = e /\ \A i \in 1 .. n : h2.node[i] = h0.node[i]
  BY <1>1, <1>2
<1>4. g = MoveHole(h2, m, to, e)
  BY <1>3, Zenon DEF tmevtb_insert, last_index
<1>5. UpEnd(h2, m, time, to)
  BY <1>3, UpStops
<1> HIDE DEF e, h2, to, g
<1>6. Shifts(m, to, m)
  BY <1>3, <1>5, ShiftsUp DEF UpEnd
<1>7. /\ \A i \in 2 .. n : EVTTIM_LE(h0, h0.node[PARENT(i)].time, h0.node[i].time)
      /\ \A i \in 1 .. n : h0.index[h0.node[i].tmevtb] = i
      /\ \A ev2 \in Event : h0.index[ev2] # 0 =>
           h0.index[ev2] \in 1 .. n /\ h0.node[h0.index[ev2]].tmevtb = ev2
      /\ h0.index[ev] = 0
  BY <1>1 DEF GoodHeap, HeapOK, last_index, Registered
<1>8. (1 .. m) \ {m} = 1 .. n
  BY <1>1
<1>9. HoleAt(h2, m, m, ev)
  BY <1>1, <1>2, <1>3, <1>7, <1>8 DEF HoleAt
<1>10. Filled(h2, g, m, m, to, e)
  BY <1>1, <1>2, <1>4, <1>6, <1>9, MoveHoleFills
<1>11. Ordered(g, m)
  <2>1. g.node = NewNode(h2, m, to, e) /\ g.min_time = h2.min_time /\ HeapType(g)
    <3>1. IsMoved(h2, m, to, e, g)
      BY <1>2, <1>4, MoveHoleIs
    <3>2. QED
      BY <1>10, <3>1 DEF IsMoved, Filled, SameClock
  <2>2. LCHILD(m) > m
    BY <1>3, Parents
  <2>3. \A i \in 2 .. m : i # m => EVTTIM_LE(h2, h2.node[PARENT(i)].time, h2.node[i].time)
    <3> SUFFICES ASSUME NEW i \in 2 .. n
                 PROVE  EVTTIM_LE(h2, h2.node[PARENT(i)].time, h2.node[i].time)
      BY <1>1
    <3>1. i \in Nat /\ i > 1 /\ i <= n
      BY <1>1
    <3>2. PARENT(i) \in 1 .. n
      BY <1>1, <3>1, Parents
    <3>3. h2.node[i] = h0.node[i] /\ h2.node[PARENT(i)] = h0.node[PARENT(i)]
      BY <1>3, <3>2
    <3>4. EVTTIM_LE(h0, h0.node[PARENT(i)].time, h0.node[i].time)
      BY <1>7
    <3>5. QED
      BY <1>2, <3>3, <3>4 DEF EVTTIM_LE, SameClock
  <2>4. UpEnd(h2, m, e.time, to) /\ m <= Len(h2.node)
    BY <1>1, <1>3, <1>5
  <2>5. OrderedButHole(h2, m, m, e.time)
    BY <2>2, <2>3 DEF OrderedButHole
  <2> HIDE DEF m
  <2>6. QED
    BY <1>1, <1>2, <1>3, <2>1, <2>4, <2>5, MoveUpOrder
<1>12. /\ HeapType(g) /\ SameClock(h0, g) /\ Len(g.node) = m
       /\ \A i \in 1 .. m : g.index[g.node[i].tmevtb] = i
       /\ g.index[ev] = to /\ g.node[to] = e
       /\ \A ev2 \in Event \ {ev} :
            IF h0.index[ev2] \in 1 .. n
            THEN g.index[ev2] \in 1 .. m /\ g.node[g.index[ev2]] = h2.node[h0.index[ev2]]
            ELSE g.index[ev2] = h0.index[ev2]
  BY <1>1, <1>2, <1>3, <1>8, <1>10 DEF Filled, SameClock
<1>13. to \in 1 .. m
  BY <1>6 DEF Shifts
<1>14. \A ev2 \in Event \ {ev} :
         /\ h0.index[ev2] = 0 => g.index[ev2] = 0
         /\ h0.index[ev2] # 0 =>
              /\ g.index[ev2] \in 1 .. m /\ g.index[ev2] # 0
              /\ g.node[g.index[ev2]] = h0.node[h0.index[ev2]]
              /\ g.node[g.index[ev2]].tmevtb = ev2
  <2> SUFFICES ASSUME NEW ev2 \in Event, ev2 # ev
               PROVE  /\ h0.index[ev2] = 0 => g.index[ev2] = 0
                      /\ h0.index[ev2] # 0 =>
                           /\ g.index[ev2] \in 1 .. m /\ g.index[ev2] # 0
                           /\ g.node[g.index[ev2]] = h0.node[h0.index[ev2]]
                           /\ g.node[g.index[ev2]].tmevtb = ev2
    OBVIOUS
  <2>1. CASE h0.index[ev2] = 0
    BY <1>12, <2>1
  <2>2. CASE h0.index[ev2] # 0
    <3>1. h0.index[ev2] \in 1 .. n /\ h0.node[h0.index[ev2]].tmevtb = ev2
      BY <1>7, <2>2
    <3>2. h2.node[h0.index[ev2]] = h0.node[h0.index[ev2]]
      BY <1>3, <3>1
    <3>3. g.index[ev2] \in 1 .. m /\ g.node[g.index[ev2]] = h2.node[h0.index[ev2]]
      BY <1>12, <3>1
    <3>4. g.index[ev2] # 0
      BY <1>3, <3>3
    <3>5. QED
      BY <2>2, <3>1, <3>2, <3>3, <3>4
  <2>3. QED
    BY <2>1, <2>2
<1>15. HeapOK(g)
  <2>1. DOMAIN g.node = 1 .. m
    BY <1>12 DEF HeapType
  <2>2. \A ev2 \in Event : g.index[ev2] # 0 =>
          g.index[ev2] \in 1 .. m /\ g.node[g.index[ev2]].tmevtb = ev2
    BY <1>1, <1>12, <1>13, <1>14
  <2>3. QED
    BY <1>11, <1>12, <2>1, <2>2 DEF HeapOK, last_index, Registered, Ordered
<1>16. OthersStay(h0, g, ev)
  BY <1>14 DEF OthersStay, Registered, TimeOf
<1>17. Registered(g, ev) /\ TimeOf(g, ev) = time
  BY <1>1, <1>12, <1>13 DEF Registered, TimeOf
<1>18. QED
  BY <1>12, <1>15, <1>16, <1>17 DEF HasInserted, GoodHeap, g

\* The last node is dropped: its event has filled the hole.
LEMMA Truncate ==
  ASSUME NEW h0, GoodHeap(h0), NEW n, n = Len(h0.node), NEW ev \in Event,
         h0.index[ev] \in 1 .. n - 1, NEW to \in 1 .. n - 1,
         NEW f, Filled(h0, f, n - 1, h0.index[ev], to, h0.node[n]), Ordered(f, n - 1),
         NEW g, g = [f EXCEPT !.node = SubSeq(@, 1, n - 1), !.index[ev] = 0]
  PROVE  HasDeleted(h0, g, ev)
<1> DEFINE e == h0.node[n]
           m == n - 1
           ix == h0.index[ev]
<1>1. /\ n \in Nat /\ m \in Nat /\ m >= 1 /\ n = m + 1 /\ h0.index \in [Event -> Nat]
      /\ e \in Node /\ e.tmevtb \in Event /\ ix \in 1 .. m
  <2>1. h0.node \in Seq(Node) /\ h0.index \in [Event -> Nat]
    BY DEF GoodHeap, HeapType
  <2>2. n \in Nat /\ ix \in Nat
    BY <2>1
  <2>3. n \in 1 .. n
    BY <2>2
  <2>4. e \in Node
    BY <2>1, <2>3
  <2>5. QED
    BY <2>1, <2>2, <2>4 DEF Node
<1>2. /\ HeapType(f) /\ SameClock(h0, f) /\ Len(f.node) = n
      /\ \A i \in 1 .. m : f.index[f.node[i].tmevtb] = i
      /\ \A i \in 1 .. m : f.node[i].tmevtb = e.tmevtb
                             \/ h0.index[f.node[i].tmevtb] \in (1 .. m) \ {ix}
      /\ f.index[e.tmevtb] = to /\ f.node[to] = e
      /\ \A ev2 \in Event \ {e.tmevtb} :
           IF h0.index[ev2] \in (1 .. m) \ {ix}
           THEN f.index[ev2] \in 1 .. m /\ f.node[f.index[ev2]] = h0.node[h0.index[ev2]]
           ELSE f.index[ev2] = h0.index[ev2]
  BY DEF Filled
<1>3. /\ f.node \in Seq(Node) /\ f.index \in [Event -> Nat]
      /\ \A i \in 1 .. m : f.node[i] \in Node /\ f.node[i].tmevtb \in Event
  <2>1. f.node \in Seq(Node) /\ f.index \in [Event -> Nat]
    BY <1>2 DEF HeapType
  <2>2. \A i \in 1 .. m : f.node[i] \in Node
    BY <1>1, <1>2, <2>1
  <2>3. QED
    BY <2>1, <2>2 DEF Node
<1>4. /\ g.node = SubSeq(f.node, 1, m) /\ g.index = [f.index EXCEPT ![ev] = 0]
      /\ SameClock(h0, g)
  BY <1>2 DEF HeapType, SameClock
<1>5. /\ g.node \in Seq(Node) /\ Len(g.node) = m
      /\ \A i \in 1 .. m : g.node[i] = f.node[i]
  BY SMTT(60), <1>1, <1>2, <1>3, <1>4
<1>6. /\ g.index[ev] = 0 /\ g.index \in [Event -> Nat]
      /\ \A ev2 \in Event : ev2 # ev => g.index[ev2] = f.index[ev2]
  BY <1>3, <1>4
<1>7. HeapType(g)
  BY <1>2, <1>4, <1>5, <1>6 DEF HeapType
<1>8. /\ h0.index[e.tmevtb] = n /\ e.tmevtb # ev
      /\ \A ev2 \in Event : h0.index[ev2] # 0 =>
           h0.index[ev2] \in 1 .. n /\ h0.node[h0.index[ev2]].tmevtb = ev2
      /\ h0.node[ix].tmevtb = ev
  <2>1. /\ \A i \in 1 .. n : h0.index[h0.node[i].tmevtb] = i
        /\ \A ev2 \in Event : h0.index[ev2] # 0 =>
             h0.index[ev2] \in 1 .. n /\ h0.node[h0.index[ev2]].tmevtb = ev2
    BY <1>1 DEF GoodHeap, HeapType, HeapOK, last_index, Registered
  <2>2. n \in 1 .. n /\ ix # n /\ ix # 0
    BY <1>1
  <2>3. QED
    BY <2>1, <2>2
<1> HIDE DEF e, m, ix
<1>9. \A i \in 1 .. m : f.node[i].tmevtb # ev
  BY <1>2, <1>8 DEF ix
<1>10. \A ev2 \in Event \ {ev} :
         /\ h0.index[ev2] = 0 => g.index[ev2] = 0
         /\ h0.index[ev2] # 0 =>
              /\ g.index[ev2] \in 1 .. m /\ g.index[ev2] # 0
              /\ g.node[g.index[ev2]] = h0.node[h0.index[ev2]]
              /\ g.node[g.index[ev2]].tmevtb = ev2
  <2> SUFFICES ASSUME NEW ev2 \in Event, ev2 # ev
               PROVE  /\ h0.index[ev2] = 0 => g.index[ev2] = 0
                      /\ h0.index[ev2] # 0 =>
                           /\ g.index[ev2] \in 1 .. m /\ g.index[ev2] # 0
                           /\ g.node[g.index[ev2]] = h0.node[h0.index[ev2]]
                           /\ g.node[g.index[ev2]].tmevtb = ev2
    OBVIOUS
  <2>1. CASE h0.index[ev2] = 0
    <3>1. ev2 # e.tmevtb
      BY <1>1, <1>8, <2>1
    <3>2. f.index[ev2] = 0
      BY <1>1, <1>2, <2>1, <3>1
    <3>3. QED
      BY <1>6, <2>1, <3>2
  <2>2. CASE h0.index[ev2] # 0 /\ ev2 = e.tmevtb
    <3>1. g.index[ev2] = to /\ to \in 1 .. m /\ g.node[to] = e
      BY <1>2, <1>5, <1>6, <2>2 DEF m
    <3>2. h0.node[h0.index[ev2]] = e
      BY <1>8, <2>2 DEF e
    <3>3. QED
      BY <1>1, <2>2, <3>1, <3>2
  <2>3. CASE h0.index[ev2] # 0 /\ ev2 # e.tmevtb
    <3>1. h0.index[ev2] \in 1 .. n /\ h0.node[h0.index[ev2]].tmevtb = ev2
      BY <1>8, <2>3
    <3>2. h0.index[ev2] # n /\ h0.index[ev2] # ix
      BY <1>8, <2>3, <3>1 DEF e
    <3>3. h0.index[ev2] \in (1 .. m) \ {ix}
      BY <1>1, <3>1, <3>2
    <3>4. f.index[ev2] \in 1 .. m /\ f.node[f.index[ev2]] = h0.node[h0.index[ev2]]
      BY <1>2, <2>3, <3>3
    <3>5. QED
      BY <1>1, <1>5, <1>6, <2>3, <3>1, <3>4
  <2>4. QED
    BY <2>1, <2>2, <2>3
<1>11. Ordered(g, m)
  <2> SUFFICES ASSUME NEW i \in 2 .. m
               PROVE  EVTTIM_LE(g, g.node[PARENT(i)].time, g.node[i].time)
    BY DEF Ordered
  <2>1. EVTTIM_LE(f, f.node[PARENT(i)].time, f.node[i].time)
    BY DEF Ordered, m
  <2>2. i \in 1 .. m /\ PARENT(i) \in 1 .. m
    <3>1. i \in Nat /\ i > 1 /\ i <= m
      BY <1>1
    <3>2. QED
      BY <1>1, <3>1, Parents
  <2>3. QED
    BY <1>2, <1>4, <1>5, <2>1, <2>2 DEF EVTTIM_LE, SameClock
<1>12. HeapOK(g)
  <2>1. DOMAIN g.node = 1 .. m
    BY <1>5
  <2>2. \A i \in 1 .. m : g.index[g.node[i].tmevtb] = i
    <3> SUFFICES ASSUME NEW i \in 1 .. m
                 PROVE  g.index[g.node[i].tmevtb] = i
      OBVIOUS
    <3>1. g.node[i] = f.node[i] /\ f.node[i].tmevtb \in Event /\ f.node[i].tmevtb # ev
      BY <1>3, <1>5, <1>9
    <3>2. f.index[f.node[i].tmevtb] = i
      BY <1>2
    <3>3. QED
      BY <1>6, <3>1, <3>2
  <2>3. \A ev2 \in Event : g.index[ev2] # 0 =>
          g.index[ev2] \in 1 .. m /\ g.node[g.index[ev2]].tmevtb = ev2
    BY <1>6, <1>10
  <2>4. QED
    BY <1>5, <1>11, <2>1, <2>2, <2>3 DEF HeapOK, last_index, Registered, Ordered
<1>13. OthersStay(h0, g, ev)
  BY <1>10 DEF OthersStay, Registered, TimeOf
<1>14. QED
  BY <1>4, <1>6, <1>7, <1>12, <1>13 DEF HasDeleted, GoodHeap, Registered

LEMMA DeleteDeletes ==
  ASSUME NEW h0, GoodHeap(h0), NEW ev \in Event, Registered(h0, ev)
  PROVE  HasDeleted(h0, tmevtb_delete(h0, ev), ev)
<1> DEFINE n == Len(h0.node)
           m == n - 1
           ix == h0.index[ev]
           e == h0.node[n]
           up == ix > 1 /\ EVTTIM_LT(h0, e.time, h0.node[PARENT(ix)].time)
           to == IF up THEN tmevt_up(h0, PARENT(ix), e.time)
                 ELSE tmevt_down(h0, ix, e.time, m)
           f == MoveHole(h0, ix, to, e)
           g == tmevtb_delete(h0, ev)
<1>1. /\ h0.node \in Seq(Node) /\ h0.index \in [Event -> Nat] /\ n \in Nat
      /\ HeapType(h0) /\ DOMAIN h0.node = 1 .. n
  BY DEF GoodHeap, HeapType
<1>2. /\ \A i \in 2 .. n : EVTTIM_LE(h0, h0.node[PARENT(i)].time, h0.node[i].time)
      /\ \A i \in 1 .. n : h0.index[h0.node[i].tmevtb] = i
      /\ \A ev2 \in Event : h0.index[ev2] # 0 =>
           h0.index[ev2] \in 1 .. n /\ h0.node[h0.index[ev2]].tmevtb = ev2
  BY <1>1 DEF GoodHeap, HeapOK, last_index, Registered
<1>3. ix \in 1 .. n /\ h0.node[ix].tmevtb = ev
  BY <1>2 DEF Registered
<1>4. n \in 1 .. n /\ m \in Nat /\ n = m + 1 /\ e \in Node /\ e.time \in EVTTIM
  <2>1. n \in 1 .. n /\ m \in Nat /\ n = m + 1
    BY <1>1, <1>3
  <2>2. e \in Node
    BY <1>1, <2>1
  <2>3. QED
    BY <2>1, <2>2 DEF Node
<1>5. g = [(IF ix = n THEN h0 ELSE f) EXCEPT !.node = SubSeq(@, 1, m), !.index[ev] = 0]
  BY <1>3, Zenon DEF tmevtb_delete, RemoveInto, last_index
<1> HIDE DEF n, m, ix, e, up, to, f, g
<1>6. CASE ix = n
  <2>1. g = [h0 EXCEPT !.node = SubSeq(@, 1, m), !.index[ev] = 0]
    BY <1>5, <1>6, Zenon
  <2>2. /\ g.node = SubSeq(h0.node, 1, m) /\ g.index = [h0.index EXCEPT ![ev] = 0]
        /\ SameClock(h0, g)
    BY <1>1, <2>1 DEF HeapType, SameClock
  <2>3. /\ g.node \in Seq(Node) /\ Len(g.node) = m
        /\ \A i \in 1 .. m : g.node[i] = h0.node[i]
    BY <1>1, <1>4, <2>2 DEF n
  <2>4. /\ g.index[ev] = 0 /\ g.index \in [Event -> Nat]
        /\ \A ev2 \in Event : ev2 # ev => g.index[ev2] = h0.index[ev2]
    BY <1>1, <2>2
  <2>5. HeapType(g)
    BY <1>1, <2>1, <2>3, <2>4 DEF HeapType
  <2>6. \A ev2 \in Event : ev2 # ev /\ h0.index[ev2] # 0 => h0.index[ev2] \in 1 .. m
    <3> SUFFICES ASSUME NEW ev2 \in Event, ev2 # ev, h0.index[ev2] # 0
                 PROVE  h0.index[ev2] \in 1 .. m
      OBVIOUS
    <3>1. h0.index[ev2] \in 1 .. n /\ h0.node[h0.index[ev2]].tmevtb = ev2
      BY <1>2
    <3>2. h0.index[ev2] # n
      BY <1>3, <1>6, <3>1
    <3>3. QED
      BY <1>4, <3>1, <3>2
  <2>7. \A i \in 1 .. m : i \in 1 .. n /\ i # n
    BY <1>4
  <2>8. Ordered(g, m)
    <3> SUFFICES ASSUME NEW i \in 2 .. m
                 PROVE  EVTTIM_LE(g, g.node[PARENT(i)].time, g.node[i].time)
      BY DEF Ordered
    <3>1. i \in 2 .. n /\ i \in 1 .. m /\ i \in Nat /\ i > 1
      BY <1>4
    <3>2. PARENT(i) \in 1 .. m
      BY <1>4, <3>1, Parents
    <3>3. QED
      BY <1>2, <2>2, <2>3, <3>1, <3>2 DEF EVTTIM_LE, SameClock
  <2>9. \A i \in 1 .. m : g.index[g.node[i].tmevtb] = i
    <3> SUFFICES ASSUME NEW i \in 1 .. m
                 PROVE  g.index[g.node[i].tmevtb] = i
      OBVIOUS
    <3>1. g.node[i] = h0.node[i] /\ h0.index[h0.node[i].tmevtb] = i /\ i # n
      BY <1>2, <2>3, <2>7
    <3>2. h0.node[i].tmevtb \in Event /\ h0.node[i].tmevtb # ev
      BY <1>1, <1>6, <2>7, <3>1, KeysAreNumbers DEF n, ix
    <3>3. QED
      BY <2>4, <3>1, <3>2
  <2>10. \A ev2 \in Event \ {ev} :
           /\ h0.index[ev2] = 0 => g.index[ev2] = 0
           /\ h0.index[ev2] # 0 =>
                /\ g.index[ev2] \in 1 .. m /\ g.index[ev2] # 0
                /\ g.node[g.index[ev2]] = h0.node[h0.index[ev2]]
                /\ g.node[g.index[ev2]].tmevtb = ev2
    <3> SUFFICES ASSUME NEW ev2 \in Event, ev2 # ev
                 PROVE  /\ h0.index[ev2] = 0 => g.index[ev2] = 0
                        /\ h0.index[ev2] # 0 =>
                             /\ g.index[ev2] \in 1 .. m /\ g.index[ev2] # 0
                             /\ g.node[g.index[ev2]] = h0.node[h0.index[ev2]]
                             /\ g.node[g.index[ev2]].tmevtb = ev2
      OBVIOUS
    <3>1. g.index[ev2] = h0.index[ev2]
      BY <2>4
    <3>2. h0.index[ev2] # 0 =>
            /\ h0.index[ev2] \in 1 .. m
            /\ h0.node[h0.index[ev2]].tmevtb = ev2
      BY <1>2, <2>6
    <3>3. QED
      BY <2>3, <3>1, <3>2
  <2>11. HeapOK(g)
    <3>1. DOMAIN g.node = 1 .. m
      BY <2>3
    <3>2. \A ev2 \in Event : g.index[ev2] # 0 =>
            g.index[ev2] \in 1 .. m /\ g.node[g.index[ev2]].tmevtb = ev2
      BY <2>4, <2>10
    <3>3. QED
      BY <2>3, <2>8, <2>9, <3>1, <3>2 DEF HeapOK, last_index, Registered, Ordered
  <2>12. OthersStay(h0, g, ev)
    BY <2>10 DEF OthersStay, Registered, TimeOf
  <2>13. QED
    BY <2>2, <2>4, <2>5, <2>11, <2>12 DEF HasDeleted, GoodHeap, Registered, g
<1>7. CASE ix # n
  <2>1. ix \in 1 .. m /\ m >= 1 /\ 1 .. m \subseteq 1 .. n /\ m <= n /\ ix \in Nat
    BY <1>1, <1>3, <1>4, <1>7
  <2>2. HoleAt(h0, m, ix, e.tmevtb)
    <3>1. h0.index[e.tmevtb] = n
      BY <1>2, <1>4 DEF e
    <3>2. h0.index[e.tmevtb] \notin (1 .. m) \ {ix}
      BY <1>4, <3>1
    <3>3. QED
      BY <1>2, <1>4, <2>1, <3>2 DEF HoleAt, n
  <2>3. /\ GoesUp(h0, ix, e.time) <=> up
        /\ ix > 1 => PARENT(ix) \in Nat /\ PARENT(ix) >= 1 /\ PARENT(ix) < ix
        /\ ix > 1 => EVTTIM_LE(h0, h0.node[PARENT(ix)].time, h0.node[ix].time)
    <3>1. ix > 1 => PARENT(ix) \in Nat /\ PARENT(ix) >= 1 /\ PARENT(ix) < ix
      BY <2>1, Parents
    <3>2. ix > 1 => PARENT(ix) \in 1 .. n /\ ix \in 2 .. n
      BY <1>4, <2>1, <3>1
    <3>3. ix > 1 => /\ Key(h0, h0.node[PARENT(ix)].time) \in Nat
                    /\ Key(h0, e.time) \in Nat
      BY <1>1, <1>4, <3>2, KeysAreNumbers DEF n
    <3>4. ix > 1 => (EVTTIM_LT(h0, e.time, h0.node[PARENT(ix)].time)
                       <=> ~EVTTIM_LE(h0, h0.node[PARENT(ix)].time, e.time))
      BY <1>1, <3>3, KeysAreNumbers
    <3>5. QED
      BY <1>2, <3>1, <3>2, <3>4 DEF GoesUp, up
  <2>4. Ordered(h0, m)
    BY <1>2, <1>4 DEF Ordered
  <2>5. IsMoved(h0, ix, to, e, f)
    BY <1>1, MoveHoleIs DEF f
  <2>6. Shifts(ix, to, m) /\ (HeapType(f) => Ordered(f, m))
    <3>1. CASE up
      <4>1. UpEnd(h0, PARENT(ix), e.time, to)
        BY <2>3, <3>1, UpStops DEF up, to
      <4>2. SelfAndAncestors(ix) = {ix} \cup SelfAndAncestors(PARENT(ix))
        BY <2>1, SelfAndAncestorsStep
      <4>3. UpEnd(h0, ix, e.time, to)
        BY <2>3, <3>1, <4>1, <4>2 DEF UpEnd
      <4>4. Shifts(ix, to, m)
        BY <1>4, <2>1, <4>3, ShiftsUp DEF UpEnd
      <4>5. OrderedButHole(h0, m, ix, e.time)
        BY <2>1, <2>3, <2>4, <3>1 DEF OrderedButHole, Ordered, up
      <4>6. HeapType(f) => Ordered(f, m)
        BY <1>1, <1>4, <2>1, <2>5, <4>3, <4>5, MoveUpOrder DEF IsMoved, SameClock, n
      <4>7. QED
        BY <4>4, <4>6
    <3>2. CASE ~up
      <4>1. DownEnd(h0, ix, e.time, m, to)
        BY <1>4, <2>1, <3>2, DownStops DEF to
      <4>2. to \in Nat /\ to <= m /\ ix \in SelfAndAncestors(to)
        BY <2>1, <4>1 DEF DownEnd
      <4>3. Shifts(ix, to, m)
        BY <1>4, <4>2, ShiftsDown
      <4>4. HeapType(f) => Ordered(f, m)
        BY <1>1, <1>4, <2>1, <2>3, <2>4, <2>5, <3>2, <4>1, MoveDownOrder
           DEF IsMoved, SameClock, n
      <4>5. QED
        BY <4>3, <4>4
    <3>3. QED
      BY <3>1, <3>2
  <2>7. Filled(h0, f, m, ix, to, e)
    BY <1>1, <1>4, <2>2, <2>6, MoveHoleFills DEF f
  <2>8. Ordered(f, m) /\ to \in 1 .. m
    BY <2>6, <2>7 DEF Filled, Shifts
  <2>9. g = [f EXCEPT !.node = SubSeq(@, 1, m), !.index[ev] = 0]
    BY <1>5, <1>7, Zenon
  <2>10. HasDeleted(h0, g, ev)
    BY <2>1, <2>7, <2>8, <2>9, Truncate DEF n, m, ix, e
  <2>11. QED
    BY <2>10 DEF g
<1>8. QED
  BY <1>6, <1>7

\* The first node is deleted like any other.
LEMMA DeleteTopDeletes ==
  ASSUME NEW h0, GoodHeap(h0), h0.node # << >>
  PROVE  LET ev == h0.node[1].tmevtb
         IN  ev \in Event /\ HasDeleted(h0, tmevtb_delete_top(h0), ev)
<1> DEFINE ev == h0.node[1].tmevtb
<1>1. h0.node \in Seq(Node) /\ Len(h0.node) \in Nat /\ 1 \in 1 .. Len(h0.node)
  <2>1. h0.node \in Seq(Node)
    BY DEF GoodHeap, HeapType
  <2>2. QED
    BY <2>1
<1>2. h0.index[ev] = 1
  BY <1>1 DEF GoodHeap, HeapOK, last_index
<1>3. ev \in Event
  BY <1>1, KeysAreNumbers DEF GoodHeap
<1>4. Registered(h0, ev)
  BY <1>2 DEF Registered
<1> HIDE DEF ev
<1>5. tmevtb_delete(h0, ev) = tmevtb_delete_top(h0)
  <2>1. ~(1 > 1)
    OBVIOUS
  <2>2. QED
    BY <1>2, <2>1, Zenon DEF tmevtb_delete, tmevtb_delete_top
<1>6. HasDeleted(h0, tmevtb_delete_top(h0), ev)
  BY <1>3, <1>4, <1>5, DeleteDeletes
<1>7. QED
  BY <1>3, <1>6 DEF ev

\* The first event is the earliest.
LEMMA TopIsEarliest ==
  ASSUME NEW h0, GoodHeap(h0), NEW i \in 1 .. Len(h0.node)
  PROVE  Key(h0, h0.node[1].time) <= Key(h0, h0.node[i].time)
<1> DEFINE n == Len(h0.node)
           k(j) == Key(h0, h0.node[j].time)
           Bad == {j \in Nat : j \in 1 .. n /\ ~(k(1) <= k(j))}
<1>1. n \in Nat
  BY DEF GoodHeap, HeapType
<1>2. \A j \in 2 .. n : k(PARENT(j)) <= k(j)
  BY KeysAreNumbers DEF GoodHeap, HeapOK, last_index
<1>3. \A j \in 1 .. n : k(j) \in Nat
  BY KeysAreNumbers DEF GoodHeap
<1> HIDE DEF n, k
<1>4. Bad = {}
  <2> SUFFICES ASSUME Bad # {} PROVE FALSE
    OBVIOUS
  <2>1. PICK j \in Bad : \A l \in Bad : j <= l
    BY LeastNumber, Zenon
  <2>2. j \in Nat /\ j \in 1 .. n /\ ~(k(1) <= k(j))
    OBVIOUS
  <2>3. 1 \in 1 .. n /\ j # 1 /\ j \in 2 .. n
    <3>1. 1 \in 1 .. n
      BY <1>1, <2>2
    <3>2. QED
      BY <1>1, <1>3, <2>2, <3>1
  <2> DEFINE p == PARENT(j)
  <2>4. p \in Nat /\ p < j /\ p >= 1
    BY <2>2, <2>3, Parents
  <2> HIDE DEF p
  <2>5. p \in 1 .. n /\ ~(j <= p)
    BY <1>1, <2>2, <2>4
  <2>6. k(1) <= k(p)
    BY <2>1, <2>4, <2>5
  <2>7. k(p) <= k(j)
    BY <1>2, <2>3 DEF p
  <2>8. QED
    BY <1>3, <2>2, <2>3, <2>5, <2>6, <2>7
<1>5. i \in Nat /\ i \in 1 .. n
  BY <1>1 DEF n
<1>6. QED
  BY <1>4, <1>5 DEF k

-----------------------------------------------------------------------------
(***************************************************************************)
(* The clock: times in the heap are near the current time.                 *)
(***************************************************************************)
LEMMA Constants ==
  /\ EVTTIM_MOD \in Nat /\ TIC_DENO \in Nat /\ TMAX_RELTIM \in Nat
  /\ TIC_DENO >= 1 /\ TMAX_RELTIM >= 1 /\ TMAX_RELTIM + 2 < EVTTIM_MOD
  /\ \A t \in EVTTIM : t \in Nat /\ t < EVTTIM_MOD
  /\ \A r \in RELTIM : r \in Nat /\ r <= TMAX_RELTIM /\ r \in EVTTIM
  /\ \A t \in Nat : t < EVTTIM_MOD => t \in EVTTIM
<1>1. /\ EVTTIM_MOD \in Nat /\ TIC_DENO \in Nat /\ TMAX_RELTIM \in Nat
      /\ TIC_DENO >= 1 /\ TMAX_RELTIM >= 1 /\ TMAX_RELTIM + 2 < EVTTIM_MOD
  BY TimeEventAssumption, SystemTimeAssumption
<1>2. QED
  BY <1>1 DEF EVTTIM, RELTIM

\* Distances from b.
LEMMA Distances ==
  ASSUME NEW t \in EVTTIM, NEW s \in EVTTIM, NEW b \in EVTTIM, Minus(s, b) <= Minus(t, b)
  PROVE  Minus(t, s) = Minus(t, b) - Minus(s, b)
<1>1. /\ EVTTIM_MOD \in Nat /\ t \in Nat /\ s \in Nat /\ b \in Nat
      /\ t < EVTTIM_MOD /\ s < EVTTIM_MOD /\ b < EVTTIM_MOD
  BY Constants
<1>2. /\ Minus(t, b) = IF b <= t THEN t - b ELSE t + EVTTIM_MOD - b
      /\ Minus(s, b) = IF b <= s THEN s - b ELSE s + EVTTIM_MOD - b
      /\ Minus(t, s) = IF s <= t THEN t - s ELSE t + EVTTIM_MOD - s
  BY Differences
<1>3. QED
  BY <1>1, <1>2

LEMMA DistanceOfSum ==
  ASSUME NEW t \in EVTTIM, NEW b \in EVTTIM, NEW r \in EVTTIM, Minus(t, b) + r < EVTTIM_MOD
  PROVE  Plus(t, r) \in EVTTIM /\ Minus(Plus(t, r), b) = Minus(t, b) + r
<1>1. /\ EVTTIM_MOD \in Nat /\ t \in Nat /\ r \in Nat /\ b \in Nat
      /\ t < EVTTIM_MOD /\ r < EVTTIM_MOD /\ b < EVTTIM_MOD
  BY Constants
<1>2. /\ Plus(t, r) \in EVTTIM
      /\ Plus(t, r) = IF t + r < EVTTIM_MOD THEN t + r ELSE (t + r) - EVTTIM_MOD
  BY Sums
<1>3. /\ Minus(t, b) = IF b <= t THEN t - b ELSE t + EVTTIM_MOD - b
      /\ Minus(Plus(t, r), b) = IF b <= Plus(t, r) THEN Plus(t, r) - b
                                ELSE Plus(t, r) + EVTTIM_MOD - b
  BY <1>2, Differences
<1>4. Plus(t, r) \in Nat
  BY <1>2, Constants
<1>5. QED
  BY <1>1, <1>2, <1>3, <1>4

-----------------------------------------------------------------------------
\* SubTicks of a heap.
SubTicksOf(h0) == (h0.next_subtime + TIC_DENO - 1) % TIC_DENO

LEMMA SubTicksAre ==
  ASSUME NEW h0, HeapType(h0)
  PROVE  /\ SubTicksOf(h0) = IF h0.next_subtime = 0 THEN TIC_DENO - 1 ELSE h0.next_subtime - 1
         /\ SubTicksOf(h0) \in Nat /\ SubTicksOf(h0) < TIC_DENO
<1> DEFINE s == h0.next_subtime
           d == TIC_DENO
           a == s + d - 1
<1>1. s \in Nat /\ s < d /\ d \in Nat /\ d >= 1
  BY Constants DEF HeapType
<1> HIDE DEF s, d
<1>2. a \in Nat /\ a < d + d /\ (s = 0 => a < d /\ a = d - 1) /\ (s # 0 => a >= d /\ a - d = s - 1)
  BY <1>1
<1> HIDE DEF a
<1>3. /\ a < d => a % d = a
      /\ a >= d => a % d = a - d
  BY <1>1, <1>2, Modulus
<1>4. a % d = IF s = 0 THEN d - 1 ELSE s - 1
  BY <1>1, <1>2, <1>3
<1>5. a % d \in Nat /\ a % d < d
  BY <1>1, <1>4
<1>6. QED
  BY <1>4, <1>5 DEF SubTicksOf, s, d, a

\* The ticks left until time, as TicksLeft counts them.
LeftFor(h0, ph, time) ==
  IF ~EVTTIM_LE(h0, time, h0.current_time)
  THEN Minus(time, h0.current_time) * TIC_DENO - SubTicksOf(h0)
  ELSE IF ph = "idle" THEN 1 ELSE 0

LeftIn(h0, ph, e) == IF ~Registered(h0, e) THEN NoTicks ELSE LeftFor(h0, ph, TimeOf(h0, e))

LEMMA TicksLeftIs ==
  ASSUME NEW e
  PROVE  TicksLeft(e) = LeftIn(h, phase, e) /\ TicksLeft(e)' = LeftIn(h', phase', e)
BY Zenon DEF TicksLeft, LeftIn, LeftFor, SubTicks, SubTicksOf, TimeOf

\* How long the current time and another one are after min_time.
Now(h0) == Key(h0, h0.current_time)

\* A time that is due came in the tick being processed; if not, it was the one
\* before the first tick, or it is the time of the first tick and was due at boot.
InWindow(h0, ph, time) ==
  /\ time \in EVTTIM
  /\ Key(h0, time) <= Now(h0) + TMAX_RELTIM + 1
  /\ Key(h0, time) <= Now(h0) =>
       \/ Key(h0, time) = Now(h0) /\ SubTicksOf(h0) \in 0 .. 1
                                  /\ (ph = "idle" => SubTicksOf(h0) = 0)
       \/ Key(h0, time) + 1 = Now(h0) /\ TIC_DENO = 1

\* next_time is the time of the next tick, and min_time that of the last one that
\* has been processed.
ClockOK(h0, ph) ==
  /\ h0.next_time = IF h0.next_subtime = 0 THEN Plus(h0.current_time, 1) ELSE h0.current_time
  /\ Now(h0) \in 0 .. 1 /\ (ph = "idle" => Now(h0) = 0)

\* A time that has come did so in the tick being processed, or before.
Due(h0, time)  == Key(h0, time) <= Now(h0)
Late(h0, time) == Key(h0, time) < Now(h0) \/ SubTicksOf(h0) # 0

OnTime(h0, ph, time)  == Due(h0, time) => ph # "idle" /\ ~Late(h0, time)
Overdue(h0, ph, time) == Due(h0, time) /\ (ph # "idle" => Late(h0, time))

HeapClockOK(h0, ph) ==
  /\ GoodHeap(h0) /\ ClockOK(h0, ph)
  /\ \A e \in Event : Registered(h0, e) => InWindow(h0, ph, TimeOf(h0, e))

\* base_time is the millisecond after the current one.
LEMMA BaseTime ==
  ASSUME NEW h0, HeapType(h0), NEW ph, ClockOK(h0, ph)
  PROVE  base_time(h0) = Plus(h0.current_time, 1) /\ base_time(h0) \in EVTTIM
<1>1. 1 \in EVTTIM /\ h0.current_time \in EVTTIM
  BY Constants DEF HeapType
<1>2. Plus(h0.current_time, 1) \in EVTTIM
  BY <1>1, Sums
<1>3. h0.next_subtime \in Nat
  BY Constants DEF HeapType
<1>4. base_time(h0) = Plus(h0.current_time, 1)
  BY <1>3 DEF base_time, ClockOK
<1>5. QED
  BY <1>2, <1>4

\* What the ticks left are in numbers.
LEMMA LeftForIs ==
  ASSUME NEW h0, HeapType(h0), NEW ph, ClockOK(h0, ph), NEW time \in EVTTIM
  PROVE  /\ Key(h0, time) \in Nat /\ Key(h0, time) < EVTTIM_MOD /\ Now(h0) \in Nat
         /\ LeftFor(h0, ph, time) =
              IF Key(h0, time) > Now(h0)
              THEN (Key(h0, time) - Now(h0)) * TIC_DENO - SubTicksOf(h0)
              ELSE IF ph = "idle" THEN 1 ELSE 0
<1>1. h0.current_time \in EVTTIM /\ h0.min_time \in EVTTIM
  BY DEF HeapType
<1>2. Key(h0, time) \in Nat /\ Key(h0, time) < EVTTIM_MOD /\ Now(h0) \in Nat
  BY <1>1, Differences, Constants DEF Key, Now
<1>3. EVTTIM_LE(h0, time, h0.current_time) <=> Key(h0, time) <= Now(h0)
  BY DEF EVTTIM_LE, Key, Now
<1>4. Key(h0, time) > Now(h0) => Minus(time, h0.current_time) = Key(h0, time) - Now(h0)
  BY <1>1, <1>2, Distances DEF Key, Now
<1>5. QED
  BY <1>2, <1>3, <1>4 DEF LeftFor

\* The clock does not depend on the events.
LEMMA ClockStays ==
  ASSUME NEW h0, NEW g, SameClock(h0, g), NEW ph
  PROVE  /\ ClockOK(g, ph) <=> ClockOK(h0, ph)
         /\ \A time : /\ InWindow(g, ph, time) <=> InWindow(h0, ph, time)
                      /\ LeftFor(g, ph, time) = LeftFor(h0, ph, time)
<1>1. SubTicksOf(g) = SubTicksOf(h0) /\ Now(g) = Now(h0)
      /\ \A t : Key(g, t) = Key(h0, t)
  BY DEF SameClock, SubTicksOf, Now, Key
<1>2. ClockOK(g, ph) <=> ClockOK(h0, ph)
  BY <1>1 DEF ClockOK, SameClock
<1>3. \A time : InWindow(g, ph, time) <=> InWindow(h0, ph, time)
  BY <1>1 DEF InWindow
<1>4. \A time : LeftFor(g, ph, time) = LeftFor(h0, ph, time)
  BY <1>1 DEF LeftFor, SameClock, EVTTIM_LE
<1>5. QED
  BY <1>2, <1>3, <1>4

LEMMA PunctualStays ==
  ASSUME NEW h0, NEW g, SameClock(h0, g), NEW ph, NEW time
  PROVE  /\ OnTime(h0, ph, time) => OnTime(g, ph, time)
         /\ Overdue(h0, ph, time) => Overdue(g, ph, time)
BY DEF OnTime, Overdue, Due, Late, SameClock, SubTicksOf, Now, Key

LEMMA InsertCounts ==
  ASSUME NEW h0, NEW ph, HeapClockOK(h0, ph), NEW ev \in Event, NEW time,
         InWindow(h0, ph, time), NEW g, HasInserted(h0, g, ev, time)
  PROVE  /\ HeapClockOK(g, ph)
         /\ LeftIn(g, ph, ev) = LeftFor(h0, ph, time)
         /\ \A e \in Event \ {ev} : LeftIn(g, ph, e) = LeftIn(h0, ph, e)
<1>1. /\ GoodHeap(g) /\ SameClock(h0, g) /\ OthersStay(h0, g, ev)
      /\ Registered(g, ev) /\ TimeOf(g, ev) = time
  BY DEF HasInserted
<1>2. /\ ClockOK(g, ph)
      /\ \A t : InWindow(g, ph, t) <=> InWindow(h0, ph, t)
      /\ \A t : LeftFor(g, ph, t) = LeftFor(h0, ph, t)
  BY <1>1, ClockStays DEF HeapClockOK
<1>3. \A e \in Event \ {ev} : /\ Registered(g, e) <=> Registered(h0, e)
                              /\ Registered(h0, e) => TimeOf(g, e) = TimeOf(h0, e)
  BY <1>1 DEF OthersStay
<1>4. \A e \in Event : Registered(g, e) => InWindow(g, ph, TimeOf(g, e))
  BY <1>1, <1>2, <1>3 DEF HeapClockOK
<1>5. QED
  BY <1>1, <1>2, <1>3, <1>4 DEF HeapClockOK, LeftIn

LEMMA DeleteCounts ==
  ASSUME NEW h0, NEW ph, HeapClockOK(h0, ph), NEW ev \in Event,
         NEW g, HasDeleted(h0, g, ev)
  PROVE  /\ HeapClockOK(g, ph)
         /\ LeftIn(g, ph, ev) = NoTicks
         /\ \A e \in Event \ {ev} : LeftIn(g, ph, e) = LeftIn(h0, ph, e)
<1>1. GoodHeap(g) /\ SameClock(h0, g) /\ OthersStay(h0, g, ev) /\ ~Registered(g, ev)
  BY DEF HasDeleted
<1>2. /\ ClockOK(g, ph)
      /\ \A t : InWindow(g, ph, t) <=> InWindow(h0, ph, t)
      /\ \A t : LeftFor(g, ph, t) = LeftFor(h0, ph, t)
  BY <1>1, ClockStays DEF HeapClockOK
<1>3. \A e \in Event \ {ev} : /\ Registered(g, e) <=> Registered(h0, e)
                              /\ Registered(h0, e) => TimeOf(g, e) = TimeOf(h0, e)
  BY <1>1 DEF OthersStay
<1>4. \A e \in Event : Registered(g, e) => InWindow(g, ph, TimeOf(g, e))
  BY <1>1, <1>2, <1>3 DEF HeapClockOK
<1>5. QED
  BY <1>1, <1>2, <1>3, <1>4 DEF HeapClockOK, LeftIn

\* A number of ticks.
LEMMA Ticks ==
  ASSUME NEW q \in Nat, NEW d \in Nat
  PROVE  q * d \in Nat /\ (q + 1) * d = (q * d) + d /\ 0 * d = 0
<1>1. q * d \in Nat
  BY Z3
<1>2. (q + 1) * d = (q * d) + d /\ 0 * d = 0
  BY Z3
<1>3. QED
  BY <1>1, <1>2

\* A countdown for a relative time takes the rest of the millisecond more.
LEMMA EnqueuedTime ==
  ASSUME NEW h0, HeapType(h0), NEW ph, ClockOK(h0, ph), NEW r \in RELTIM
  PROVE  LET time == Plus(base_time(h0), r)
         IN  /\ InWindow(h0, ph, time) /\ OnTime(h0, ph, time)
             /\ LeftFor(h0, ph, time) \in Nat
             /\ \E more \in 1 .. TIC_DENO :
                  LeftFor(h0, ph, time) = r * TIC_DENO + more
<1> DEFINE base == base_time(h0)
           time == Plus(base, r)
           c == Now(h0)
           k == Key(h0, time)
           d == TIC_DENO
           s == SubTicksOf(h0)
<1>1. /\ EVTTIM_MOD \in Nat /\ d \in Nat /\ TMAX_RELTIM \in Nat
      /\ d >= 1 /\ TMAX_RELTIM >= 1 /\ TMAX_RELTIM + 2 < EVTTIM_MOD
      /\ r \in Nat /\ r <= TMAX_RELTIM /\ r \in EVTTIM /\ 1 \in EVTTIM
  BY Constants
<1>2. h0.current_time \in EVTTIM /\ h0.min_time \in EVTTIM
  BY DEF HeapType
<1>3. base = Plus(h0.current_time, 1) /\ base \in EVTTIM
  BY BaseTime
<1>4. c = Minus(h0.current_time, h0.min_time) /\ c \in Nat /\ c <= 1
  BY <1>1 DEF ClockOK, Now, Key
<1>5. Minus(base, h0.min_time) = c + 1
  <2>1. Minus(h0.current_time, h0.min_time) + 1 < EVTTIM_MOD
    BY <1>1, <1>4
  <2>2. Minus(Plus(h0.current_time, 1), h0.min_time) = Minus(h0.current_time, h0.min_time) + 1
    BY ZenonT(60), <1>1, <1>2, <2>1, DistanceOfSum
  <2>3. QED
    BY <1>3, <1>4, <2>2
<1>6. time \in EVTTIM /\ k = c + 1 + r
  <2>1. Minus(base, h0.min_time) + r < EVTTIM_MOD
    BY <1>1, <1>4, <1>5
  <2>2. time \in EVTTIM /\ Minus(time, h0.min_time) = Minus(base, h0.min_time) + r
    BY <1>1, <1>2, <1>3, <2>1, DistanceOfSum
  <2>3. QED
    BY <1>5, <2>2 DEF Key
<1>7. s \in Nat /\ s < d
  BY SubTicksAre
<1>8. LeftFor(h0, ph, time) = IF k > c THEN (k - c) * d - s ELSE IF ph = "idle" THEN 1 ELSE 0
  BY <1>6, LeftForIs
<1> HIDE DEF base, time, c, k, d, s
<1>9. k > c /\ k - c = r + 1 /\ k <= c + TMAX_RELTIM + 1
  BY <1>1, <1>4, <1>6
<1>10. r * d \in Nat /\ (r + 1) * d = (r * d) + d
  BY <1>1, Ticks
<1>11. LeftFor(h0, ph, time) = (r * d) + (d - s) /\ d - s \in 1 .. d
  BY <1>1, <1>7, <1>8, <1>9, <1>10
<1>12. InWindow(h0, ph, time) /\ OnTime(h0, ph, time)
  <2>1. ~(k <= c)
    BY <1>1, <1>4, <1>6
  <2>2. QED
    BY <1>6, <1>9, <2>1 DEF InWindow, OnTime, Due, c, k
<1>13. LeftFor(h0, ph, time) \in Nat
  BY <1>1, <1>7, <1>10, <1>11
<1>14. QED
  BY <1>11, <1>12, <1>13 DEF time, base, d

\* A period after a time that is due; it is counted from the tick in which the event
\* should have gone off, one tick late after the boot.
LEMMA RepeatedTime ==
  ASSUME NEW h0, HeapType(h0), NEW ph, ph # "idle", ClockOK(h0, ph),
         NEW time, InWindow(h0, ph, time), EVTTIM_LE(h0, time, h0.current_time),
         NEW r \in RELTIM, r > 0
  PROVE  /\ InWindow(h0, ph, Plus(time, r)) /\ OnTime(h0, ph, Plus(time, r))
         /\ LeftFor(h0, ph, Plus(time, r)) \in Nat
         /\ LeftFor(h0, ph, Plus(time, r)) = r * TIC_DENO - (IF Late(h0, time) THEN 1 ELSE 0)
<1> DEFINE t2 == Plus(time, r)
           c == Now(h0)
           k == Key(h0, time)
           k2 == Key(h0, t2)
           d == TIC_DENO
           s == SubTicksOf(h0)
<1>1. /\ EVTTIM_MOD \in Nat /\ d \in Nat /\ TMAX_RELTIM \in Nat
      /\ d >= 1 /\ TMAX_RELTIM >= 1 /\ TMAX_RELTIM + 2 < EVTTIM_MOD
      /\ r \in Nat /\ r <= TMAX_RELTIM /\ r \in EVTTIM
  BY Constants
<1>2. h0.current_time \in EVTTIM /\ h0.min_time \in EVTTIM /\ time \in EVTTIM
  BY DEF HeapType, InWindow
<1>3. c \in Nat /\ c <= 1 /\ k \in Nat /\ k <= c
  <2>1. k \in Nat /\ c \in Nat
    BY <1>2, LeftForIs
  <2>2. c \in 0 .. 1 /\ k <= c
    BY DEF ClockOK, EVTTIM_LE, Key, Now
  <2>3. QED
    BY <2>1, <2>2
<1>4. t2 \in EVTTIM /\ k2 = k + r
  <2>1. Minus(time, h0.min_time) + r < EVTTIM_MOD
    BY <1>1, <1>3 DEF Key
  <2>2. t2 \in EVTTIM /\ Minus(t2, h0.min_time) = Minus(time, h0.min_time) + r
    BY <1>1, <1>2, <2>1, DistanceOfSum
  <2>3. QED
    BY <2>2 DEF Key
<1>5. s \in Nat /\ s < d
  BY SubTicksAre
<1>6. (k = c /\ s <= 1) \/ (k + 1 = c /\ d = 1)
  BY <1>3, <1>5 DEF InWindow
<1>7. LeftFor(h0, ph, t2) = IF k2 > c THEN (k2 - c) * d - s ELSE 0
  BY <1>4, LeftForIs
<1>8. InWindow(h0, ph, t2) <=> /\ k2 <= c + TMAX_RELTIM + 1
                               /\ k2 <= c => \/ k2 = c /\ s \in 0 .. 1
                                             \/ k2 + 1 = c /\ d = 1
  BY <1>4 DEF InWindow
<1> DEFINE late == IF k < c \/ s # 0 THEN 1 ELSE 0
<1>0. /\ OnTime(h0, ph, t2) <=> (k2 <= c => ~(k2 < c \/ s # 0))
      /\ late = IF Late(h0, time) THEN 1 ELSE 0
  BY DEF OnTime, Due, Late
<1> HIDE DEF t2, c, k, k2, d, s
<1>9. r * d \in Nat /\ r * 1 = r /\ (r - 1) * 1 = r - 1
  BY <1>1, Ticks
<1>10. CASE k = c /\ s <= 1
  <2>1. k2 > c /\ k2 - c = r /\ ~(k2 <= c) /\ k2 <= c + TMAX_RELTIM + 1
    BY <1>1, <1>3, <1>4, <1>10
  <2>2. LeftFor(h0, ph, t2) = (r * d) - s /\ s \in 0 .. 1 /\ late = s
    BY <1>3, <1>5, <1>7, <1>10, <2>1
  <2>3. r * d >= d
    <3>1. r - 1 \in Nat /\ (r - 1) + 1 = r
      BY <1>1
    <3>2. (r - 1) * d \in Nat /\ ((r - 1) + 1) * d = ((r - 1) * d) + d
      BY <1>1, <3>1, Ticks
    <3> DEFINE q == (r - 1) * d
    <3>3. r * d = q + d /\ q \in Nat
      BY <3>1, <3>2
    <3> HIDE DEF q
    <3>4. QED
      BY <1>1, <3>3
  <2>4. (r * d) - s \in Nat
    BY <1>1, <1>5, <1>9, <2>3
  <2> HIDE DEF late
  <2>5. QED
    BY <1>0, <1>8, <2>1, <2>2, <2>4 DEF t2, d
<1>11. CASE k + 1 = c /\ d = 1
  <2>1. s = 0 /\ k2 + 1 = c + r /\ k2 <= c + TMAX_RELTIM + 1 /\ k2 >= c
    BY <1>1, <1>3, <1>4, <1>5, <1>11
  <2>2. LeftFor(h0, ph, t2) = (r * d) - 1 /\ (r * d) - 1 \in Nat
    <3>1. CASE k2 > c
      <4>1. k2 - c = r - 1
        BY <1>1, <1>3, <1>4, <2>1
      <4>2. (k2 - c) * d - s = r - 1
        BY <1>1, <1>9, <1>11, <2>1, <4>1
      <4>3. QED
        BY <1>1, <1>7, <1>9, <1>11, <3>1, <4>2
    <3>2. CASE ~(k2 > c)
      <4>1. r = 1
        BY <1>1, <1>3, <1>4, <2>1, <3>2
      <4>2. QED
        BY <1>7, <1>9, <1>11, <3>2, <4>1
    <3>3. QED
      BY <3>1, <3>2
  <2>3. k2 <= c => k2 = c
    BY <1>1, <1>3, <1>4, <2>1
  <2>4. InWindow(h0, ph, t2)
    BY <1>8, <2>1, <2>3
  <2>5. late = 1 /\ OnTime(h0, ph, t2)
    BY <1>0, <1>3, <1>11, <2>1, <2>3
  <2> HIDE DEF late
  <2>6. QED
    BY <1>0, <2>2, <2>4, <2>5 DEF t2, d
<1>12. QED
  BY <1>6, <1>10, <1>11

\* The callbacks run in the tick.
LEMMA PhasesAlike ==
  ASSUME NEW h0, NEW ph, NEW ph2, ph # "idle", ph2 # "idle"
  PROVE  /\ HeapClockOK(h0, ph) <=> HeapClockOK(h0, ph2)
         /\ ClockOK(h0, ph) <=> ClockOK(h0, ph2)
         /\ \A time : /\ InWindow(h0, ph, time) <=> InWindow(h0, ph2, time)
                      /\ LeftFor(h0, ph, time) = LeftFor(h0, ph2, time)
         /\ \A e : LeftIn(h0, ph, e) = LeftIn(h0, ph2, e)
<1>1. \A time : /\ InWindow(h0, ph, time) <=> InWindow(h0, ph2, time)
                /\ LeftFor(h0, ph, time) = LeftFor(h0, ph2, time)
  BY DEF InWindow, LeftFor
<1>2. ClockOK(h0, ph) <=> ClockOK(h0, ph2)
  BY DEF ClockOK
<1>3. \A e : LeftIn(h0, ph, e) = LeftIn(h0, ph2, e)
  BY <1>1 DEF LeftIn
<1>4. QED
  BY <1>1, <1>2, <1>3 DEF HeapClockOK

\* 1 is TIC_DENO's whole part and rest.
LEMMA OneTick ==
  /\ TIC_DENO = 1 => 1 \div TIC_DENO = 1 /\ 1 % TIC_DENO = 0
  /\ TIC_DENO > 1 => 1 \div TIC_DENO = 0 /\ 1 % TIC_DENO = 1
<1>1. TIC_DENO = 1 => 1 \div TIC_DENO = 1 /\ 1 % TIC_DENO = 0
  BY Z3
<1>2. ASSUME NEW d \in Nat, d > 1 PROVE 1 \div d = 0 /\ 1 % d = 1
  BY <1>2, Z3
<1>3. QED
  BY <1>1, <1>2, Constants

LEMMA AdvanceIs ==
  ASSUME NEW h0, HeapType(h0)
  PROVE  LET g == advance_time(h0)
         IN  /\ HeapType(g)
             /\ g.node = h0.node /\ g.index = h0.index /\ g.min_time = h0.min_time
             /\ g.current_time = h0.next_time
             /\ g.next_subtime = IF h0.next_subtime + 1 = TIC_DENO THEN 0
                                 ELSE h0.next_subtime + 1
             /\ g.next_time = IF g.next_subtime = 0 THEN Plus(h0.next_time, 1)
                              ELSE h0.next_time
<1> DEFINE d == TIC_DENO
           s == h0.next_subtime
           next == h0.next_time
           subtime == s + (1 % d)
           whole == Plus(next, 1 \div d)
           s2 == subtime % d
           next2 == IF subtime >= d THEN Plus(whole, 1) ELSE whole
           g == advance_time(h0)
<1>1. /\ d \in Nat /\ d >= 1 /\ 0 \in EVTTIM /\ 1 \in EVTTIM /\ s \in Nat /\ s < d
      /\ next \in EVTTIM /\ EVTTIM_MOD \in Nat /\ next \in Nat /\ next < EVTTIM_MOD
  BY Constants DEF HeapType
<1>2. /\ g = [h0 EXCEPT !.current_time = next, !.next_time = next2, !.next_subtime = s2]
  BY Zenon DEF advance_time
<1>3. s2 = IF s + 1 = d THEN 0 ELSE s + 1
  <2>1. CASE d = 1
    <3>1. s = 0 /\ subtime = 0
      BY <1>1, <2>1, OneTick
    <3>2. 0 % d = 0
      BY <1>1, Modulus
    <3>3. QED
      BY <2>1, <3>1, <3>2
  <2>2. CASE d > 1
    <3>1. subtime = s + 1
      BY <2>2, OneTick
    <3>2. /\ s + 1 < d => (s + 1) % d = s + 1
          /\ s + 1 >= d => (s + 1) % d = (s + 1) - d
      BY <1>1, Modulus
    <3> HIDE DEF d, s
    <3>3. QED
      BY <1>1, <3>1, <3>2
  <2>3. QED
    BY <1>1, <2>1, <2>2
<1>4. next2 = IF s2 = 0 THEN Plus(next, 1) ELSE next
  <2>1. Plus(next, 0) = next
    BY <1>1, Sums
  <2>2. CASE d = 1
    <3>1. s = 0 /\ ~(subtime >= d) /\ whole = Plus(next, 1)
      BY <1>1, <2>2, OneTick
    <3>2. s2 = 0
      BY <1>3, <2>2, <3>1
    <3> HIDE DEF s2, subtime, whole
    <3>3. QED
      BY <3>1, <3>2
  <2>3. CASE d > 1
    <3>1. subtime = s + 1 /\ whole = next
      BY <2>1, <2>3, OneTick
    <3>2. subtime >= d <=> s2 = 0
      BY <1>1, <1>3, <3>1
    <3> HIDE DEF s2, subtime, whole
    <3>3. QED
      BY <3>1, <3>2
  <2>4. QED
    BY <1>1, <2>2, <2>3
<1>5. next2 \in EVTTIM /\ s2 \in 0 .. d - 1
  <2>1. Plus(next, 1) \in EVTTIM
    BY <1>1, Sums
  <2> HIDE DEF s2, next2
  <2>2. QED
    BY <1>1, <1>3, <1>4, <2>1
<1> HIDE DEF s2, next2
<1>6. /\ g.node = h0.node /\ g.index = h0.index /\ g.min_time = h0.min_time
      /\ g.current_time = next /\ g.next_subtime = s2 /\ g.next_time = next2
  BY <1>2 DEF HeapType
<1>7. HeapType(g)
  BY <1>2, <1>5, <1>6 DEF HeapType
<1> HIDE DEF g
<1>8. QED
  BY <1>3, <1>4, <1>6, <1>7 DEF g

\* A tick takes one from every countdown.
LEMMA TickCounts ==
  ASSUME NEW h0, HeapClockOK(h0, "idle")
  PROVE  LET g == advance_time(h0)
         IN  /\ HeapClockOK(g, "loop")
             /\ \A e \in Event :
                  /\ Registered(g, e) <=> Registered(h0, e)
                  /\ TimeOf(g, e) = TimeOf(h0, e)
                  /\ Registered(h0, e) => LeftIn(g, "loop", e) = LeftIn(h0, "idle", e) - 1
                  /\ Registered(h0, e) =>
                       /\ OnTime(h0, "idle", TimeOf(h0, e)) => OnTime(g, "loop", TimeOf(g, e))
                       /\ Overdue(h0, "idle", TimeOf(h0, e)) => Overdue(g, "loop", TimeOf(g, e))
<1> DEFINE g == advance_time(h0)
           d == TIC_DENO
           sub == h0.next_subtime
           s == SubTicksOf(h0)
           s2 == SubTicksOf(g)
           c2 == Now(g)
           k(t) == Key(h0, t)
<1>1. /\ EVTTIM_MOD \in Nat /\ d \in Nat /\ TMAX_RELTIM \in Nat
      /\ d >= 1 /\ TMAX_RELTIM >= 1 /\ TMAX_RELTIM + 2 < EVTTIM_MOD /\ 1 \in EVTTIM
  BY Constants
<1>2. /\ GoodHeap(h0) /\ HeapType(h0) /\ ClockOK(h0, "idle")
      /\ \A e \in Event : Registered(h0, e) => InWindow(h0, "idle", TimeOf(h0, e))
  BY DEF HeapClockOK, GoodHeap
<1>3. /\ HeapType(g)
      /\ g.node = h0.node /\ g.index = h0.index /\ g.min_time = h0.min_time
      /\ g.current_time = h0.next_time
      /\ g.next_subtime = IF sub + 1 = d THEN 0 ELSE sub + 1
      /\ g.next_time = IF g.next_subtime = 0 THEN Plus(h0.next_time, 1) ELSE h0.next_time
  BY <1>2, AdvanceIs
<1>4. sub \in Nat /\ sub < d
  BY <1>1, <1>2 DEF HeapType
<1> HIDE DEF g
<1>5. \A t : Key(g, t) = k(t)
  BY <1>3 DEF Key
<1>6. c2 = IF sub = 0 THEN 1 ELSE 0
  <2>1. h0.current_time \in EVTTIM /\ h0.min_time \in EVTTIM
    BY <1>2 DEF HeapType
  <2>2. Now(h0) = 0
    BY <1>2 DEF ClockOK
  <2>3. Minus(h0.current_time, h0.min_time) = 0
    BY <2>2 DEF Now, Key
  <2>4. Minus(Plus(h0.current_time, 1), h0.min_time) = 0 + 1
    <3>1. Minus(h0.current_time, h0.min_time) + 1 < EVTTIM_MOD
      BY <1>1, <2>3
    <3>2. QED
      BY <1>1, <2>1, <2>3, <3>1, DistanceOfSum
  <2>5. h0.next_time = IF sub = 0 THEN Plus(h0.current_time, 1) ELSE h0.current_time
    BY <1>2 DEF ClockOK
  <2>6. c2 = Minus(h0.next_time, h0.min_time)
    BY <1>3 DEF Now, Key
  <2>7. QED
    BY <2>3, <2>4, <2>5, <2>6
<1>7. /\ s = IF sub = 0 THEN d - 1 ELSE sub - 1
      /\ s2 = sub
  <2>1. s = IF sub = 0 THEN d - 1 ELSE sub - 1
    BY <1>2, SubTicksAre
  <2>2. s2 = IF g.next_subtime = 0 THEN d - 1 ELSE g.next_subtime - 1
    BY <1>3, SubTicksAre
  <2>3. QED
    BY <1>1, <1>3, <1>4, <2>1, <2>2
<1>8. ClockOK(g, "loop")
  BY <1>3, <1>6 DEF ClockOK
<1>9. GoodHeap(g)
  BY <1>2, <1>3 DEF GoodHeap, HeapOK, last_index, Registered, EVTTIM_LE
<1>10. ASSUME NEW t, InWindow(h0, "idle", t)
       PROVE  /\ InWindow(g, "loop", t) /\ LeftFor(g, "loop", t) = LeftFor(h0, "idle", t) - 1
              /\ OnTime(h0, "idle", t) => OnTime(g, "loop", t)
              /\ Overdue(h0, "idle", t) => Overdue(g, "loop", t)
  <2>1. t \in EVTTIM /\ k(t) \in Nat
    BY <1>2, <1>10, LeftForIs DEF InWindow
  <2>2. /\ LeftFor(g, "loop", t) = IF k(t) > c2 THEN (k(t) - c2) * d - s2 ELSE 0
        /\ LeftFor(h0, "idle", t) = IF k(t) > 0 THEN (k(t) - 0) * d - s ELSE 1
    <3>1. LeftFor(g, "loop", t) = IF Key(g, t) > c2 THEN (Key(g, t) - c2) * d - s2 ELSE 0
      BY <1>3, <1>8, <2>1, LeftForIs
    <3>2. Now(h0) = 0
      BY <1>2 DEF ClockOK
    <3>3. LeftFor(h0, "idle", t) = IF k(t) > Now(h0) THEN (k(t) - Now(h0)) * d - s ELSE 1
      BY <1>2, <2>1, LeftForIs
    <3>4. QED
      BY <1>5, <3>1, <3>2, <3>3
  <2>3. k(t) <= TMAX_RELTIM + 1 /\ (k(t) = 0 => s = 0)
    <3>1. Now(h0) = 0
      BY <1>2 DEF ClockOK
    <3>2. k(t) <= 0 + TMAX_RELTIM + 1
      BY <1>10, <3>1 DEF InWindow
    <3>3. ~(k(t) + 1 = 0)
      BY <2>1
    <3>4. k(t) <= 0 => s = 0
      BY <1>10, <3>1, <3>3 DEF InWindow
    <3>5. QED
      BY <1>1, <2>1, <3>2, <3>4
  <2>4. InWindow(g, "loop", t) <=>
          /\ k(t) <= c2 + TMAX_RELTIM + 1
          /\ k(t) <= c2 => \/ k(t) = c2 /\ s2 \in 0 .. 1
                           \/ k(t) + 1 = c2 /\ d = 1
    BY <1>5, <2>1 DEF InWindow
  <2> DEFINE q == k(t)
             late == q < c2 \/ s2 # 0
  <2>5. q \in Nat
    BY <2>1
  <2>12. /\ OnTime(h0, "idle", t) <=> ~(q <= 0)
         /\ Overdue(h0, "idle", t) <=> q <= 0
         /\ OnTime(g, "loop", t) <=> (q <= c2 => ~late)
         /\ Overdue(g, "loop", t) <=> q <= c2 /\ late
    <3>1. Now(h0) = 0 /\ Key(g, t) = q
      BY <1>2, <1>5 DEF ClockOK
    <3>2. QED
      BY <3>1 DEF OnTime, Overdue, Due, Late
  <2> HIDE DEF g, d, sub, s, s2, c2, k, q
  <2>13. /\ OnTime(h0, "idle", t) => OnTime(g, "loop", t)
         /\ Overdue(h0, "idle", t) => Overdue(g, "loop", t)
    <3>1. q <= 0 => q <= c2 /\ late
      BY <1>4, <1>6, <1>7, <2>5
    <3>2. ~(q <= 0) => (q <= c2 => ~late)
      BY <1>4, <1>6, <1>7, <2>5
    <3>3. QED
      BY <2>12, <3>1, <3>2
  <2> HIDE DEF late
  <2>6. (k(t) = q /\ k(t) - c2 = q - c2)
    BY DEF q
  <2>7. ASSUME q = 0
        PROVE  InWindow(g, "loop", t) /\ LeftFor(g, "loop", t) = LeftFor(h0, "idle", t) - 1
    <3>1. LeftFor(h0, "idle", t) = 1 /\ LeftFor(g, "loop", t) = 0
      BY <1>6, <2>2, <2>6, <2>7
    <3>2. s = 0
      BY <2>3, <2>6, <2>7
    <3>3. q <= c2 + TMAX_RELTIM + 1
      BY <1>1, <1>6, <2>7
    <3>4. (q = c2 /\ s2 \in 0 .. 1) \/ (q + 1 = c2 /\ d = 1)
      BY <1>1, <1>4, <1>6, <1>7, <2>7, <3>2
    <3>5. QED
      BY <2>4, <2>6, <3>1, <3>3, <3>4
  <2>8. ASSUME q > 0 /\ q <= c2
        PROVE  InWindow(g, "loop", t) /\ LeftFor(g, "loop", t) = LeftFor(h0, "idle", t) - 1
    <3>1. q = 1 /\ c2 = 1 /\ sub = 0 /\ s2 = 0 /\ s = d - 1
      BY <1>6, <1>7, <2>5, <2>8
    <3>2. (q - 0) * d = d
      BY <1>1, <3>1, Ticks
    <3>3. LeftFor(h0, "idle", t) = 1 /\ LeftFor(g, "loop", t) = 0
      BY <1>1, <2>2, <2>6, <3>1, <3>2
    <3>4. QED
      BY <1>1, <2>4, <2>6, <3>1, <3>3
  <2>9. ASSUME q > c2 /\ sub = 0
        PROVE  InWindow(g, "loop", t) /\ LeftFor(g, "loop", t) = LeftFor(h0, "idle", t) - 1
    <3>1. c2 = 1 /\ s2 = 0 /\ s = d - 1 /\ q - 1 \in Nat /\ (q - 1) + 1 = q /\ q - 0 = q
      BY <1>6, <1>7, <2>5, <2>9
    <3>2. (q - 1) * d \in Nat /\ ((q - 1) + 1) * d = ((q - 1) * d) + d
      BY <1>1, <3>1, Ticks
    <3>3. LeftFor(h0, "idle", t) = (q * d) - s /\ LeftFor(g, "loop", t) = ((q - 1) * d) - s2
      BY <2>2, <2>5, <2>6, <2>9, <3>1
    <3>4. LeftFor(g, "loop", t) = LeftFor(h0, "idle", t) - 1
      <4> DEFINE p == (q - 1) * d
      <4>1. p \in Nat /\ q * d = p + d /\ LeftFor(g, "loop", t) = p - s2
        BY <3>1, <3>2, <3>3
      <4> HIDE DEF p
      <4>2. QED
        BY <1>1, <3>1, <3>3, <4>1
    <3>5. q <= c2 + TMAX_RELTIM + 1 /\ ~(q <= c2)
      BY <1>1, <2>3, <2>5, <2>6, <2>9, <3>1
    <3>6. QED
      BY <2>4, <2>6, <3>4, <3>5
  <2>10. ASSUME q > c2 /\ sub # 0
        PROVE  InWindow(g, "loop", t) /\ LeftFor(g, "loop", t) = LeftFor(h0, "idle", t) - 1
    <3>1. c2 = 0 /\ s2 = sub /\ s = sub - 1 /\ q - 0 = q /\ q > 0
      BY <1>6, <1>7, <2>5, <2>10
    <3>2. q * d \in Nat
      BY <1>1, <2>5, Ticks
    <3>3. LeftFor(h0, "idle", t) = (q * d) - s /\ LeftFor(g, "loop", t) = (q * d) - s2
      BY <2>2, <2>6, <2>10, <3>1
    <3>4. LeftFor(g, "loop", t) = LeftFor(h0, "idle", t) - 1
      <4> DEFINE p == q * d
      <4>1. p \in Nat /\ LeftFor(h0, "idle", t) = p - s /\ LeftFor(g, "loop", t) = p - s2
        BY <3>2, <3>3
      <4> HIDE DEF p
      <4>2. QED
        BY <1>4, <3>1, <4>1
    <3>5. q <= c2 + TMAX_RELTIM + 1 /\ ~(q <= c2)
      BY <1>1, <2>3, <2>5, <2>6, <2>10, <3>1
    <3>6. QED
      BY <2>4, <2>6, <3>4, <3>5
  <2>11. InWindow(g, "loop", t) /\ LeftFor(g, "loop", t) = LeftFor(h0, "idle", t) - 1
    BY <1>6, <2>5, <2>7, <2>8, <2>9, <2>10
  <2>14. QED
    BY <2>11, <2>13
<1>11. \A e \in Event : /\ Registered(g, e) <=> Registered(h0, e)
                        /\ TimeOf(g, e) = TimeOf(h0, e)
  BY <1>3 DEF Registered, TimeOf
<1>12. HeapClockOK(g, "loop")
  BY <1>2, <1>8, <1>9, <1>10, <1>11 DEF HeapClockOK
<1>13. QED
  BY <1>2, <1>10, <1>11, <1>12 DEF LeftIn, g

\* A tick that has no event left that is due ends, and no countdown is at 0.
LEMMA EndCounts ==
  ASSUME NEW h0, HeapClockOK(h0, "loop"), ~SomeEventDue(h0)
  PROVE  LET g == end_of_tick(h0)
         IN  /\ HeapClockOK(g, "idle")
             /\ \A e \in Event :
                  /\ Registered(g, e) <=> Registered(h0, e)
                  /\ TimeOf(g, e) = TimeOf(h0, e)
                  /\ LeftIn(g, "idle", e) = LeftIn(h0, "loop", e)
                  /\ Registered(h0, e) => LeftIn(h0, "loop", e) \in Nat \ {0}
                  /\ Registered(h0, e) => ~Due(h0, TimeOf(h0, e)) /\ ~Due(g, TimeOf(g, e))
<1> DEFINE g == end_of_tick(h0)
           n == Len(h0.node)
           cur == h0.current_time
           d == TIC_DENO
           s == SubTicksOf(h0)
           c == Now(h0)
           k(t) == Key(h0, t)
<1>1. /\ EVTTIM_MOD \in Nat /\ d \in Nat /\ TMAX_RELTIM \in Nat
      /\ d >= 1 /\ TMAX_RELTIM >= 1 /\ TMAX_RELTIM + 2 < EVTTIM_MOD
  BY Constants
<1>2. /\ GoodHeap(h0) /\ HeapType(h0) /\ ClockOK(h0, "loop")
      /\ \A e \in Event : Registered(h0, e) => InWindow(h0, "loop", TimeOf(h0, e))
      /\ cur \in EVTTIM /\ h0.min_time \in EVTTIM /\ n \in Nat
  BY DEF HeapClockOK, GoodHeap, HeapType
<1>3. g = [h0 EXCEPT !.min_time = cur]
  BY DEF end_of_tick
<1>4. /\ HeapType(g) /\ g.node = h0.node /\ g.index = h0.index /\ g.min_time = cur
      /\ g.current_time = cur /\ g.next_time = h0.next_time
      /\ g.next_subtime = h0.next_subtime
  BY <1>2, <1>3 DEF HeapType
<1> HIDE DEF g, n
<1>5. s \in Nat /\ s < d /\ SubTicksOf(g) = s
  BY <1>2, <1>4, SubTicksAre DEF SubTicksOf
<1>6. c \in Nat /\ c = Minus(cur, h0.min_time)
  BY <1>2, LeftForIs DEF Now, Key
<1>7. Now(g) = 0 /\ ClockOK(g, "idle")
  <2>1. Minus(cur, cur) = cur - cur
    <3>1. cur <= cur
      BY <1>2, Constants
    <3>2. QED
      BY <1>2, <3>1, Differences
  <2>2. Now(g) = 0
    BY <1>2, <1>4, <2>1, Constants DEF Now, Key
  <2>3. QED
    BY <1>2, <1>4, <2>2 DEF ClockOK
<1>8. \A i \in 1 .. n : h0.node[i].time \in EVTTIM /\ k(h0.node[i].time) \in Nat
                        /\ k(h0.node[i].time) > c
  <2> SUFFICES ASSUME NEW i \in 1 .. n
               PROVE  /\ h0.node[i].time \in EVTTIM /\ k(h0.node[i].time) \in Nat
                      /\ k(h0.node[i].time) > c
    OBVIOUS
  <2>1. 1 \in 1 .. n /\ n > 0
    BY <1>2
  <2>2. /\ h0.node[i].time \in EVTTIM /\ k(h0.node[i].time) \in Nat
        /\ h0.node[1].time \in EVTTIM /\ k(h0.node[1].time) \in Nat
    BY <1>2, <2>1, KeysAreNumbers DEF n
  <2>3. ~EVTTIM_LE(h0, h0.node[1].time, cur)
    BY <2>1 DEF SomeEventDue, last_index, n
  <2>4. ~(k(h0.node[1].time) <= c)
    BY <2>3 DEF EVTTIM_LE, Key, Now
  <2>5. k(h0.node[1].time) <= k(h0.node[i].time)
    BY <1>2, TopIsEarliest DEF n
  <2>6. QED
    BY <1>6, <2>2, <2>4, <2>5
<1>9. \A t \in EVTTIM : k(t) \in Nat /\ (k(t) >= c => Key(g, t) = k(t) - c)
  <2> SUFFICES ASSUME NEW t \in EVTTIM
               PROVE  k(t) \in Nat /\ (k(t) >= c => Key(g, t) = k(t) - c)
    OBVIOUS
  <2>1. k(t) \in Nat
    BY <1>2, LeftForIs
  <2>2. k(t) >= c => Minus(t, cur) = Minus(t, h0.min_time) - Minus(cur, h0.min_time)
    BY <1>2, <1>6, <2>1, Distances DEF Key
  <2>3. QED
    BY <1>4, <1>6, <2>1, <2>2 DEF Key
<1> HIDE DEF k, c, cur, s, d
<1>10. GoodHeap(g)
  <2>1. ASSUME NEW i \in 2 .. n
        PROVE  EVTTIM_LE(g, g.node[PARENT(i)].time, g.node[i].time)
    <3>1. i \in Nat /\ i > 1 /\ i <= n
      BY <1>2
    <3>2. PARENT(i) \in 1 .. n /\ i \in 1 .. n
      BY <1>2, <3>1, Parents
    <3>3. EVTTIM_LE(h0, h0.node[PARENT(i)].time, h0.node[i].time)
      BY <1>2 DEF GoodHeap, HeapOK, last_index, n
    <3>4. k(h0.node[PARENT(i)].time) <= k(h0.node[i].time)
      BY <3>3 DEF EVTTIM_LE, k, Key
    <3>5. /\ Key(g, h0.node[PARENT(i)].time) = k(h0.node[PARENT(i)].time) - c
          /\ Key(g, h0.node[i].time) = k(h0.node[i].time) - c
          /\ k(h0.node[PARENT(i)].time) \in Nat /\ k(h0.node[i].time) \in Nat
      BY <1>6, <1>8, <1>9, <3>2
    <3>6. Key(g, h0.node[PARENT(i)].time) <= Key(g, h0.node[i].time)
      BY <1>6, <3>4, <3>5
    <3>7. QED
      BY <1>4, <3>6 DEF EVTTIM_LE, Key
  <2>2. QED
    BY <1>2, <1>4, <2>1 DEF GoodHeap, HeapOK, last_index, Registered, n
<1>11. ASSUME NEW e \in Event, Registered(h0, e)
       PROVE  /\ InWindow(g, "idle", TimeOf(h0, e))
              /\ LeftFor(g, "idle", TimeOf(h0, e)) = LeftFor(h0, "loop", TimeOf(h0, e))
              /\ LeftFor(h0, "loop", TimeOf(h0, e)) \in Nat \ {0}
              /\ ~Due(h0, TimeOf(h0, e)) /\ ~Due(g, TimeOf(h0, e))
  <2> DEFINE t == TimeOf(h0, e)
  <2>1. h0.index[e] \in 1 .. n
    BY <1>2, <1>11 DEF GoodHeap, HeapType, HeapOK, n
  <2>2. t \in EVTTIM /\ k(t) \in Nat /\ k(t) > c
    BY <1>8, <2>1 DEF TimeOf
  <2> HIDE DEF t
  <2> DEFINE q == k(t) - c
  <2>3. Key(g, t) = q
    BY <1>6, <1>9, <2>2
  <2>4. k(t) <= c + TMAX_RELTIM + 1
    BY <1>2, <1>11 DEF InWindow, t, k, c
  <2>5. q \in Nat /\ q > 0 /\ q <= 0 + TMAX_RELTIM + 1 /\ ~(q <= 0) /\ q - 0 = q
    BY <1>1, <1>6, <2>2, <2>4
  <2>6. /\ LeftFor(h0, "loop", t) = IF k(t) > c THEN (k(t) - c) * d - s ELSE 0
        /\ LeftFor(g, "idle", t) = IF q > 0 THEN (q - 0) * d - s ELSE 1
    <3>1. LeftFor(h0, "loop", t) = IF k(t) > c THEN (k(t) - c) * d - s ELSE 0
      BY <1>2, <2>2, LeftForIs DEF k, c, s, d
    <3>2. LeftFor(g, "idle", t) = IF Key(g, t) > Now(g)
                                  THEN (Key(g, t) - Now(g)) * d - SubTicksOf(g) ELSE 1
      BY <1>4, <1>7, <2>2, LeftForIs DEF d
    <3>3. QED
      BY <1>5, <1>7, <2>3, <3>1, <3>2
  <2>7. LeftFor(g, "idle", t) = (q * d) - s /\ LeftFor(h0, "loop", t) = (q * d) - s
    BY <2>2, <2>5, <2>6
  <2>8. (q * d) - s \in Nat \ {0}
    <3>1. q - 1 \in Nat /\ (q - 1) + 1 = q
      BY <2>5
    <3>2. (q - 1) * d \in Nat /\ ((q - 1) + 1) * d = ((q - 1) * d) + d
      BY <1>1, <3>1, Ticks
    <3> DEFINE p == (q - 1) * d
    <3>3. p \in Nat /\ q * d = p + d
      BY <3>1, <3>2
    <3> HIDE DEF p, q
    <3>4. QED
      BY <1>1, <1>5, <3>3
  <2>9. InWindow(g, "idle", t)
    BY <1>7, <2>2, <2>3, <2>5 DEF InWindow
  <2>10. ~Due(h0, t) /\ ~Due(g, t)
    <3>1. ~(k(t) <= c)
      BY <1>6, <2>2
    <3>2. QED
      BY <1>7, <2>3, <2>5, <3>1 DEF Due, k, c
  <2>11. QED
    BY <2>7, <2>8, <2>9, <2>10 DEF t
<1>12. \A e \in Event : /\ Registered(g, e) <=> Registered(h0, e)
                        /\ TimeOf(g, e) = TimeOf(h0, e)
  BY <1>4 DEF Registered, TimeOf
<1>13. HeapClockOK(g, "idle")
  BY <1>7, <1>10, <1>11, <1>12 DEF HeapClockOK
<1>14. QED
  BY <1>11, <1>12, <1>13 DEF LeftIn, g

-----------------------------------------------------------------------------
(***************************************************************************)
(* The heap at boot.                                                       *)
(***************************************************************************)
IsBoot(f, n) ==
  f = [i \in 0 .. n |->
         IF i = 0 THEN InitHeap ELSE tmevtb_insert(f[i - 1], StaCyc[i], cycphs[StaCyc[i]])]

LEMMA BootExists ==
  ASSUME NEW n \in Nat
  PROVE  \E f : IsBoot(f, n)
<1> DEFINE Bad == {m \in Nat : ~ \E f : IsBoot(f, m)}
<1> SUFFICES ASSUME Bad # {} PROVE FALSE
  OBVIOUS
<1>1. PICK m \in Bad : \A k \in Bad : m <= k
  BY LeastNumber, Zenon
<1>2. m \in Nat /\ ~ \E f : IsBoot(f, m)
  OBVIOUS
<1>3. CASE m = 0
  <2> DEFINE g == [i \in 0 .. 0 |-> InitHeap]
  <2>1. IsBoot(g, 0)
    BY DEF IsBoot
  <2>2. QED
    BY <1>2, <1>3, <2>1
<1>4. CASE m > 0
  <2> DEFINE next(x, i) == tmevtb_insert(x, StaCyc[i], cycphs[StaCyc[i]])
  <2>1. m - 1 \in Nat /\ ~(m <= m - 1)
    BY <1>2, <1>4
  <2>2. PICK f : IsBoot(f, m - 1)
    BY <1>1, <2>1
  <2>3. \A i \in 0 .. m - 1 : f[i] = IF i = 0 THEN InitHeap ELSE next(f[i - 1], i)
    BY <2>2 DEF IsBoot
  <2> HIDE DEF next
  <2> DEFINE g == [i \in 0 .. m |-> IF i = m THEN next(f[m - 1], m) ELSE f[i]]
  <2>4. ASSUME NEW i \in 0 .. m
        PROVE  g[i] = IF i = 0 THEN InitHeap ELSE next(g[i - 1], i)
    <3>1. i # 0 => i - 1 \in 0 .. m /\ i - 1 # m
      BY <1>2
    <3>2. i # 0 => g[i - 1] = f[i - 1]
      BY <3>1
    <3>3. i # m => i \in 0 .. m - 1
      BY <1>2
    <3>4. g[i] = IF i = m THEN next(f[m - 1], m) ELSE f[i]
      OBVIOUS
    <3> HIDE DEF g
    <3>5. CASE i = m
      BY <1>4, <3>2, <3>4, <3>5
    <3>6. CASE i # m
      BY <2>3, <3>2, <3>3, <3>4, <3>6
    <3>7. QED
      BY <3>5, <3>6
  <2>5. IsBoot(g, m)
    BY <2>4 DEF IsBoot, next
  <2>6. QED
    BY <1>2, <2>5
<1>5. QED
  BY <1>2, <1>3, <1>4

\* The handlers of the first n numbers are registered for their phases.
Booted(h0, n) ==
  /\ HeapClockOK(h0, "idle") /\ h0.min_time = 0 /\ h0.current_time = 0
  /\ SubTicksOf(h0) = 0
  /\ \A e \in Event : /\ Registered(h0, e) <=> \E i \in 1 .. n : StaCyc[i] = e
                      /\ Registered(h0, e) => TimeOf(h0, e) = cycphs[e]

LEMMA InitHeapBooted == Booted(InitHeap, 0)
<1>1. /\ EVTTIM_MOD \in Nat /\ TIC_DENO \in Nat /\ TIC_DENO >= 1 /\ 2 < EVTTIM_MOD
      /\ 0 \in EVTTIM /\ 1 \in EVTTIM
  BY Constants
<1>2. /\ TIC_DENO = 1 => 1 \div TIC_DENO = 1 /\ 1 % TIC_DENO = 0
      /\ TIC_DENO > 1 => 1 \div TIC_DENO = 0 /\ 1 % TIC_DENO = 1
  BY OneTick
<1>3. HeapType(InitHeap)
  <2>1. 1 \div TIC_DENO \in EVTTIM /\ 1 % TIC_DENO \in 0 .. TIC_DENO - 1
    BY <1>1, <1>2
  <2>2. << >> \in Seq(Node) /\ [e \in Event |-> 0] \in [Event -> Nat]
    OBVIOUS
  <2>3. QED
    BY <1>1, <2>1, <2>2 DEF HeapType, InitHeap
<1>4. /\ InitHeap.min_time = 0 /\ InitHeap.current_time = 0 /\ InitHeap.node = << >>
      /\ InitHeap.next_time = 1 \div TIC_DENO /\ InitHeap.next_subtime = 1 % TIC_DENO
      /\ \A e \in Event : InitHeap.index[e] = 0
  BY DEF InitHeap
<1>5. HeapOK(InitHeap) /\ \A e \in Event : ~Registered(InitHeap, e)
  <2>1. Len(InitHeap.node) = 0
    BY <1>4
  <2>2. QED
    BY <1>4, <2>1 DEF HeapOK, last_index, Registered
<1>6. SubTicksOf(InitHeap) = 0
  <2>1. SubTicksOf(InitHeap) = IF InitHeap.next_subtime = 0 THEN TIC_DENO - 1
                               ELSE InitHeap.next_subtime - 1
    BY <1>3, SubTicksAre
  <2>2. QED
    BY <1>1, <1>2, <1>4, <2>1
<1>7. ClockOK(InitHeap, "idle")
  <2>1. Minus(0, 0) = 0
    <3>1. Minus(0, 0) = 0 - 0
      BY <1>1, Differences
    <3>2. QED
      BY <3>1
  <2>2. Plus(0, 1) = 1
    BY <1>1, Sums
  <2>3. Now(InitHeap) = 0
    BY <1>4, <2>1 DEF Now, Key
  <2>4. InitHeap.next_time = IF InitHeap.next_subtime = 0 THEN Plus(InitHeap.current_time, 1)
                             ELSE InitHeap.current_time
    BY <1>1, <1>2, <1>4, <2>2
  <2>5. QED
    BY <2>3, <2>4 DEF ClockOK
<1>8. QED
  BY <1>3, <1>4, <1>5, <1>6, <1>7 DEF Booted, HeapClockOK, GoodHeap

\* Times from boot.
LEMMA BootTimes ==
  ASSUME NEW h0, HeapType(h0), ClockOK(h0, "idle"), h0.min_time = 0, h0.current_time = 0,
         SubTicksOf(h0) = 0, NEW r \in RELTIM
  PROVE  /\ InWindow(h0, "idle", r)
         /\ LeftFor(h0, "idle", r) = IF r = 0 THEN 1 ELSE r * TIC_DENO
<1>1. /\ TMAX_RELTIM \in Nat /\ TIC_DENO \in Nat /\ EVTTIM_MOD \in Nat
      /\ r \in Nat /\ r \in EVTTIM /\ r <= TMAX_RELTIM /\ 0 \in EVTTIM
  BY Constants
<1>2. Key(h0, r) = r
  <2>1. Minus(r, 0) = r - 0
    BY <1>1, Differences
  <2>2. QED
    BY <1>1, <2>1 DEF Key
<1>3. Now(h0) = 0
  BY DEF ClockOK
<1>4. InWindow(h0, "idle", r)
  BY <1>1, <1>2, <1>3 DEF InWindow
<1>5. LeftFor(h0, "idle", r) = IF r > 0 THEN (r - 0) * TIC_DENO - 0 ELSE 1
  BY <1>1, <1>2, <1>3, LeftForIs
<1>6. r * TIC_DENO \in Nat /\ r - 0 = r
  BY <1>1, Ticks
<1>7. QED
  BY <1>1, <1>4, <1>5, <1>6

LEMMA BootIs == Booted(BootHeap, Len(StaCyc))
<1> DEFINE n == Len(StaCyc)
           f == CHOOSE g : IsBoot(g, n)
<1>1. StaCyc \in Seq(Cyc) /\ n \in Nat /\ DOMAIN StaCyc = 1 .. n
      /\ \A i, j \in 1 .. n : StaCyc[i] = StaCyc[j] => i = j
  BY SystemTimeAssumption
<1>2. IsBoot(f, n)
  BY <1>1, BootExists
<1>3. BootHeap = f[n]
  BY Zenon DEF BootHeap, IsBoot
<1> HIDE DEF f, n
<1> DEFINE Bad == {i \in Nat : i <= n /\ ~Booted(f[i], i)}
<1>4. Bad = {}
  <2> SUFFICES ASSUME Bad # {} PROVE FALSE
    OBVIOUS
  <2>1. PICK i \in Bad : \A j \in Bad : i <= j
    BY LeastNumber, Zenon
  <2>2. i \in Nat /\ i <= n /\ ~Booted(f[i], i) /\ i \in 0 .. n
    BY <1>1
  <2>3. f[i] = IF i = 0 THEN InitHeap ELSE tmevtb_insert(f[i - 1], StaCyc[i], cycphs[StaCyc[i]])
    BY <1>2, <2>2 DEF IsBoot
  <2>4. i # 0
    BY <2>2, <2>3, InitHeapBooted
  <2> DEFINE h0 == f[i - 1]
             c == StaCyc[i]
             g == f[i]
  <2>5. i - 1 \in Nat /\ i - 1 <= n /\ ~(i <= i - 1) /\ i \in 1 .. n
    BY <1>1, <2>2, <2>4
  <2>6. Booted(h0, i - 1)
    BY <2>1, <2>5
  <2>7. c \in Cyc /\ c \in Event /\ cycphs[c] \in RELTIM
    BY <1>1, <2>5, SystemTimeAssumption DEF RELTIM
  <2>8. \A j \in 1 .. i - 1 : j \in 1 .. n /\ j # i
    BY <1>1, <2>5
  <2>9. ~ \E j \in 1 .. i - 1 : StaCyc[j] = c
    BY <1>1, <2>5, <2>8
  <2>10. g = tmevtb_insert(h0, c, cycphs[c])
    BY <2>3, <2>4
  <2> HIDE DEF h0, c, g
  <2>11. /\ HeapClockOK(h0, "idle") /\ h0.min_time = 0 /\ h0.current_time = 0
         /\ SubTicksOf(h0) = 0
         /\ \A e \in Event : /\ Registered(h0, e) <=> \E j \in 1 .. i - 1 : StaCyc[j] = e
                             /\ Registered(h0, e) => TimeOf(h0, e) = cycphs[e]
    BY <2>6 DEF Booted
  <2>12. InWindow(h0, "idle", cycphs[c])
    BY <2>7, <2>11, BootTimes DEF HeapClockOK, GoodHeap
  <2>13. HasInserted(h0, g, c, cycphs[c])
    BY <2>7, <2>9, <2>10, <2>11, <2>12, InsertInserts DEF HeapClockOK, InWindow
  <2>14. HeapClockOK(g, "idle")
    BY <2>7, <2>11, <2>12, <2>13, InsertCounts
  <2>15. g.min_time = 0 /\ g.current_time = 0 /\ SubTicksOf(g) = 0
    BY <2>11, <2>13 DEF HasInserted, SameClock, SubTicksOf
  <2>16. ASSUME NEW e \in Event
         PROVE  /\ Registered(g, e) <=> \E j \in 1 .. i : StaCyc[j] = e
                /\ Registered(g, e) => TimeOf(g, e) = cycphs[e]
    <3>1. CASE e = c
      BY <2>5, <2>13, <3>1 DEF HasInserted, c
    <3>2. CASE e # c
      <4>1. (\E j \in 1 .. i : StaCyc[j] = e) <=> (\E j \in 1 .. i - 1 : StaCyc[j] = e)
        <5>1. \A j \in 1 .. i : j # i => j \in 1 .. i - 1
          BY <2>2
        <5>2. \A j \in 1 .. i - 1 : j \in 1 .. i
          BY <2>2
        <5>3. QED
          BY <3>2, <5>1, <5>2 DEF c
      <4>2. QED
        BY <2>11, <2>13, <3>2, <4>1 DEF HasInserted, OthersStay
    <3>3. QED
      BY <3>1, <3>2
  <2>17. Booted(g, i)
    BY <2>14, <2>15, <2>16 DEF Booted
  <2>18. QED
    BY <2>2, <2>17 DEF g
<1>5. QED
  BY <1>1, <1>3, <1>4 DEF n


-----------------------------------------------------------------------------
(***************************************************************************)
(* What an action does to the heap: one event is taken out or registered,  *)
(* and the countdowns of the others stay.                                  *)
(***************************************************************************)
OthersCount(h0, g, ph, ev) ==
  /\ HeapClockOK(g, ph) /\ SameClock(h0, g) /\ OthersStay(h0, g, ev)
  /\ \A e \in Event \ {ev} : LeftIn(g, ph, e) = LeftIn(h0, ph, e)

TakenOut(h0, g, ph, ev) == OthersCount(h0, g, ph, ev) /\ ~Registered(g, ev)

RegisteredFor(h0, g, ph, ev, time) ==
  /\ OthersCount(h0, g, ph, ev) /\ Registered(g, ev)
  /\ TimeOf(g, ev) = time /\ time \in EVTTIM

LEMMA DeletedIsTakenOut ==
  ASSUME NEW h0, NEW ph, HeapClockOK(h0, ph), NEW ev \in Event, NEW g, HasDeleted(h0, g, ev)
  PROVE  TakenOut(h0, g, ph, ev) /\ LeftIn(g, ph, ev) = NoTicks
<1>1. /\ HeapClockOK(g, ph) /\ LeftIn(g, ph, ev) = NoTicks
      /\ \A e \in Event \ {ev} : LeftIn(g, ph, e) = LeftIn(h0, ph, e)
  BY DeleteCounts
<1>2. QED
  BY <1>1 DEF TakenOut, OthersCount, HasDeleted

\* An event that is not registered is as good as deleted.
LEMMA WithoutDeletes ==
  ASSUME NEW ph, HeapClockOK(h, ph), NEW ev \in Event, NEW started,
         Registered(h, ev) <=> started
  PROVE  HasDeleted(h, Without(ev, started), ev)
<1>1. GoodHeap(h)
  BY DEF HeapClockOK
<1>2. CASE Registered(h, ev)
  <2>1. HasDeleted(h, tmevtb_delete(h, ev), ev)
    BY <1>1, <1>2, DeleteDeletes
  <2>2. QED
    BY <1>2, <2>1 DEF Without
<1>3. CASE ~Registered(h, ev)
  <2>1. HasDeleted(h, h, ev)
    BY <1>1, <1>3 DEF HasDeleted, SameClock, OthersStay
  <2>2. QED
    BY <1>3, <2>1 DEF Without
<1>4. QED
  BY <1>2, <1>3

\* An event that has been deleted is registered for another time.
LEMMA InsertAgain ==
  ASSUME NEW h0, NEW ph, HeapClockOK(h0, ph), NEW ev \in Event,
         NEW g, HasDeleted(h0, g, ev), NEW time, InWindow(h0, ph, time)
  PROVE  LET g2 == tmevtb_insert(g, ev, time)
         IN  /\ RegisteredFor(h0, g2, ph, ev, time)
             /\ LeftIn(g2, ph, ev) = LeftFor(h0, ph, time)
<1> DEFINE g2 == tmevtb_insert(g, ev, time)
<1>1. /\ HeapClockOK(g, ph)
      /\ \A e \in Event \ {ev} : LeftIn(g, ph, e) = LeftIn(h0, ph, e)
  BY DeleteCounts
<1>2. GoodHeap(g) /\ SameClock(h0, g) /\ OthersStay(h0, g, ev) /\ ~Registered(g, ev)
  BY DEF HasDeleted
<1>3. InWindow(g, ph, time) /\ LeftFor(g, ph, time) = LeftFor(h0, ph, time)
  BY <1>2, ClockStays
<1>4. time \in EVTTIM
  BY DEF InWindow
<1>5. HasInserted(g, g2, ev, time)
  BY <1>2, <1>4, InsertInserts
<1> HIDE DEF g2
<1>6. /\ HeapClockOK(g2, ph)
      /\ LeftIn(g2, ph, ev) = LeftFor(g, ph, time)
      /\ \A e \in Event \ {ev} : LeftIn(g2, ph, e) = LeftIn(g, ph, e)
  BY <1>1, <1>3, <1>5, InsertCounts
<1>7. /\ Registered(g2, ev) /\ TimeOf(g2, ev) = time /\ OthersStay(g, g2, ev)
      /\ SameClock(g, g2)
  BY <1>5 DEF HasInserted
<1>8. OthersStay(h0, g2, ev) /\ SameClock(h0, g2)
  BY <1>2, <1>7 DEF OthersStay, SameClock
<1>9. QED
  BY <1>1, <1>3, <1>4, <1>6, <1>7, <1>8 DEF RegisteredFor, OthersCount, g2

\* It is registered for a relative time.
LEMMA EnqueueAgain ==
  ASSUME NEW h0, NEW ph, HeapClockOK(h0, ph), NEW ev \in Event,
         NEW g, HasDeleted(h0, g, ev), NEW r \in RELTIM
  PROVE  LET g2 == tmevtb_enqueue(g, ev, r)
         IN  /\ RegisteredFor(h0, g2, ph, ev, Plus(base_time(h0), r))
             /\ \E more \in 1 .. TIC_DENO : LeftIn(g2, ph, ev) = r * TIC_DENO + more
<1> DEFINE time == Plus(base_time(h0), r)
           g2 == tmevtb_insert(g, ev, time)
<1>1. HeapType(h0) /\ ClockOK(h0, ph)
  BY DEF HeapClockOK, GoodHeap
<1>2. /\ InWindow(h0, ph, time)
      /\ \E more \in 1 .. TIC_DENO : LeftFor(h0, ph, time) = r * TIC_DENO + more
  BY <1>1, EnqueuedTime
<1>3. base_time(g) = base_time(h0)
  BY DEF HasDeleted, SameClock, base_time
<1>4. tmevtb_enqueue(g, ev, r) = g2
  BY <1>3 DEF tmevtb_enqueue
<1> HIDE DEF time
<1>5. RegisteredFor(h0, g2, ph, ev, time) /\ LeftIn(g2, ph, ev) = LeftFor(h0, ph, time)
  BY <1>2, InsertAgain
<1>6. QED
  BY <1>2, <1>4, <1>5 DEF time

-----------------------------------------------------------------------------
(***************************************************************************)
(* The invariant.  A handler is registered exactly when it is started, for *)
(* the time in evttim if it is cyclic.                                     *)
(***************************************************************************)
Timers(h0, cs, et, as) ==
  /\ et \in [Cyc -> EVTTIM]
  /\ \A c \in Cyc : /\ Registered(h0, c) <=> c \in cs
                    /\ Registered(h0, c) => TimeOf(h0, c) = et[c]
  /\ \A a \in Alm : Registered(h0, a) <=> a \in as

TimeInv ==
  /\ HeapClockOK(h, phase)
  /\ phase \in {"idle", "loop", "callback"}
  /\ Timers(h, cycsta, evttim, almsta)

LEMMA Kinds ==
  /\ \A c \in Cyc : c \in Event /\ c \notin Alm /\ c \notin Tmo
  /\ \A a \in Alm : a \in Event /\ a \notin Cyc /\ a \notin Tmo
  /\ \A t \in Tmo : t \in Event /\ t \notin Cyc /\ t \notin Alm
  /\ \A c \in Cyc : cyctim[c] \in RELTIM /\ cyctim[c] > 0 /\ cycphs[c] \in RELTIM
<1>1. /\ \A c \in Cyc : c \in Event /\ c \notin Alm /\ c \notin Tmo
      /\ \A a \in Alm : a \in Event /\ a \notin Cyc /\ a \notin Tmo
      /\ \A t \in Tmo : t \in Event /\ t \notin Cyc /\ t \notin Alm
  BY Zenon, SystemTimeAssumption
<1>2. \A c \in Cyc : cyctim[c] \in RELTIM /\ cyctim[c] > 0 /\ cycphs[c] \in RELTIM
  BY SystemTimeAssumption DEF RELTIM
<1>3. QED
  BY <1>1, <1>2

\* What the change of one event does to that.
LEMMA CycTimers ==
  ASSUME NEW h0, NEW cs, NEW et, NEW as, Timers(h0, cs, et, as),
         NEW c \in Cyc, NEW g, OthersStay(h0, g, c),
         NEW cs2, \A c2 \in Cyc \ {c} : c2 \in cs2 <=> c2 \in cs, Registered(g, c) <=> c \in cs2,
         NEW time \in EVTTIM, Registered(g, c) => TimeOf(g, c) = time
  PROVE  Timers(g, cs2, [et EXCEPT ![c] = time], as)
<1> DEFINE et2 == [et EXCEPT ![c] = time]
<1>1. /\ et2 \in [Cyc -> EVTTIM] /\ et2[c] = time
      /\ \A c2 \in Cyc \ {c} : et2[c2] = et[c2]
  BY DEF Timers
<1> HIDE DEF et2
<1>2. ASSUME NEW c2 \in Cyc
      PROVE  /\ Registered(g, c2) <=> c2 \in cs2
             /\ Registered(g, c2) => TimeOf(g, c2) = et2[c2]
  <2>1. CASE c2 = c
    BY <1>1, <2>1
  <2>2. CASE c2 # c
    BY <1>1, <2>2, Kinds DEF Timers, OthersStay
  <2>3. QED
    BY <2>1, <2>2
<1>3. \A a \in Alm : Registered(g, a) <=> a \in as
  BY Kinds DEF Timers, OthersStay
<1>4. QED
  BY <1>1, <1>2, <1>3 DEF Timers, et2

LEMMA AlmTimers ==
  ASSUME NEW h0, NEW cs, NEW et, NEW as, Timers(h0, cs, et, as),
         NEW a \in Alm, NEW g, OthersStay(h0, g, a),
         NEW as2, \A a2 \in Alm \ {a} : a2 \in as2 <=> a2 \in as, Registered(g, a) <=> a \in as2
  PROVE  Timers(g, cs, et, as2)
<1>1. \A c \in Cyc : /\ Registered(g, c) <=> c \in cs
                     /\ Registered(g, c) => TimeOf(g, c) = et[c]
  BY Kinds DEF Timers, OthersStay
<1>2. ASSUME NEW a2 \in Alm PROVE Registered(g, a2) <=> a2 \in as2
  <2>1. CASE a2 = a
    BY <2>1
  <2>2. CASE a2 # a
    BY <2>2, Kinds DEF Timers, OthersStay
  <2>3. QED
    BY <2>1, <2>2
<1>3. QED
  BY <1>1, <1>2 DEF Timers

LEMMA TmoTimers ==
  ASSUME NEW h0, NEW cs, NEW et, NEW as, Timers(h0, cs, et, as),
         NEW t \in Tmo, NEW g, OthersStay(h0, g, t)
  PROVE  Timers(g, cs, et, as)
BY Kinds DEF Timers, OthersStay

\* The first event of the heap, when it is due.
LEMMA DueEventIs ==
  ASSUME TimeInv, NEW e, DueEvent(e)
  PROVE  /\ phase = "loop" /\ phase' = "callback"
         /\ e \in Event /\ Registered(h, e)
         /\ HeapClockOK(h, phase') /\ ClockOK(h, phase')
         /\ InWindow(h, phase', TimeOf(h, e))
         /\ EVTTIM_LE(h, TimeOf(h, e), h.current_time)
         /\ LeftIn(h, phase, e) = 0
         /\ \A e2 : LeftIn(h, phase', e2) = LeftIn(h, phase, e2)
         /\ HasDeleted(h, tmevtb_delete_top(h), e)
<1>1. /\ phase = "loop" /\ phase' = "callback" /\ SomeEventDue(h)
      /\ h.node[1].tmevtb = e
  BY DEF DueEvent
<1>2. HeapClockOK(h, "loop")
  BY <1>1 DEF TimeInv
<1>3. /\ GoodHeap(h) /\ HeapType(h) /\ HeapOK(h) /\ h.node \in Seq(Node)
  BY <1>2 DEF HeapClockOK, GoodHeap, HeapType
<1>4. Len(h.node) \in Nat /\ Len(h.node) > 0 /\ 1 \in 1 .. Len(h.node) /\ h.node # << >>
  <2>1. Len(h.node) \in Nat /\ Len(h.node) > 0
    BY <1>1, <1>3 DEF SomeEventDue, last_index
  <2>2. QED
    BY <1>3, <2>1
<1>5. e \in Event /\ HasDeleted(h, tmevtb_delete_top(h), e)
  BY <1>1, <1>3, <1>4, DeleteTopDeletes
<1>6. h.index[e] = 1
  BY <1>1, <1>3, <1>4 DEF HeapOK, last_index
<1>7. Registered(h, e) /\ TimeOf(h, e) = h.node[1].time
  BY <1>6 DEF Registered, TimeOf
<1>8. EVTTIM_LE(h, TimeOf(h, e), h.current_time)
  BY <1>1, <1>7 DEF SomeEventDue
<1>9. /\ HeapClockOK(h, phase') /\ \A e2 : LeftIn(h, phase', e2) = LeftIn(h, phase, e2)
  BY <1>1, <1>2, PhasesAlike
<1>10. LeftIn(h, phase, e) = 0
  BY <1>1, <1>7, <1>8 DEF LeftIn, LeftFor
<1>11. QED
  BY <1>1, <1>5, <1>7, <1>8, <1>9, <1>10 DEF HeapClockOK

\* A countdown is a number.
LEMMA LeftIsNumber ==
  ASSUME NEW h0, NEW ph, HeapClockOK(h0, ph), NEW e \in Event, Registered(h0, e)
  PROVE  LeftIn(h0, ph, e) \in Nat /\ LeftIn(h0, ph, e) # NoTicks
<1> DEFINE time == TimeOf(h0, e)
           q == Key(h0, time) - Now(h0) - 1
           s == SubTicksOf(h0)
           d == TIC_DENO
<1>1. HeapType(h0) /\ ClockOK(h0, ph) /\ time \in EVTTIM
  BY DEF HeapClockOK, GoodHeap, InWindow
<1>2. /\ Key(h0, time) \in Nat /\ Now(h0) \in Nat
      /\ LeftFor(h0, ph, time) = IF Key(h0, time) > Now(h0)
                                 THEN (Key(h0, time) - Now(h0)) * d - s
                                 ELSE IF ph = "idle" THEN 1 ELSE 0
  BY <1>1, LeftForIs
<1>3. s \in Nat /\ s < d /\ d \in Nat
  BY <1>1, SubTicksAre, Constants
<1>4. LeftFor(h0, ph, time) \in Nat
  <2>1. CASE Key(h0, time) > Now(h0)
    <3>1. q \in Nat /\ Key(h0, time) - Now(h0) = q + 1
      BY <1>2, <2>1
    <3> HIDE DEF q, s, d
    <3>2. q * d \in Nat /\ (q + 1) * d = (q * d) + d
      BY <1>3, <3>1, Ticks
    <3>3. LeftFor(h0, ph, time) = ((q * d) + d) - s
      BY <1>2, <2>1, <3>1, <3>2
    <3>4. QED
      BY <1>3, <3>2, <3>3
  <2>2. CASE ~(Key(h0, time) > Now(h0))
    BY <1>2, <2>2
  <2>3. QED
    BY <2>1, <2>2
<1>5. LeftIn(h0, ph, e) \in Nat
  BY <1>4 DEF LeftIn
<1>6. QED
  BY <1>5, SystemTimeAssumption

-----------------------------------------------------------------------------
(***************************************************************************)
(* The actions.                                                            *)
(***************************************************************************)
LEMMA InitTimeInv ==
  ASSUME TimeInit
  PROVE  TimeInv /\ Booted(h, Len(StaCyc))
<1>1. /\ h = BootHeap /\ phase = "idle" /\ cycsta = {StaCyc[n] : n \in DOMAIN StaCyc}
      /\ evttim = [c \in Cyc |-> cycphs[c]] /\ almsta = {}
  BY DEF TimeInit
<1>2. Booted(h, Len(StaCyc))
  BY <1>1, BootIs
<1>3. /\ HeapClockOK(h, phase)
      /\ \A e \in Event : /\ Registered(h, e) <=> \E i \in 1 .. Len(StaCyc) : StaCyc[i] = e
                          /\ Registered(h, e) => TimeOf(h, e) = cycphs[e]
  BY <1>1, <1>2 DEF Booted
<1>4. /\ DOMAIN StaCyc = 1 .. Len(StaCyc)
      /\ \A i \in 1 .. Len(StaCyc) : StaCyc[i] \in Cyc
  BY SystemTimeAssumption
<1>5. evttim \in [Cyc -> EVTTIM]
  BY <1>1, Kinds, Constants
<1>6. \A c \in Cyc : /\ Registered(h, c) <=> c \in cycsta
                     /\ Registered(h, c) => TimeOf(h, c) = evttim[c]
  BY <1>1, <1>3, <1>4, Kinds
<1>7. \A a \in Alm : Registered(h, a) <=> a \in almsta
  BY <1>1, <1>3, <1>4, Kinds
<1>8. QED
  BY <1>1, <1>2, <1>3, <1>5, <1>6, <1>7 DEF TimeInv, Timers

LEMMA TickStartDoes ==
  ASSUME TimeInv, TickStart
  PROVE  /\ TimeInv'
         /\ \A e \in Event : LeftIn(h', phase', e) = IF Registered(h, e)
                                                     THEN LeftIn(h, phase, e) - 1 ELSE NoTicks
<1>1. /\ phase = "idle" /\ phase' = "loop" /\ h' = advance_time(h)
      /\ UNCHANGED << cycsta, evttim, almsta, asked >>
  BY DEF TickStart
<1>2. HeapClockOK(h, "idle") /\ Timers(h, cycsta, evttim, almsta)
  BY <1>1 DEF TimeInv
<1>3. /\ HeapClockOK(h', "loop")
      /\ \A e \in Event :
           /\ Registered(h', e) <=> Registered(h, e)
           /\ TimeOf(h', e) = TimeOf(h, e)
           /\ Registered(h, e) => LeftIn(h', "loop", e) = LeftIn(h, "idle", e) - 1
  BY <1>1, <1>2, TickCounts
<1>4. Timers(h', cycsta', evttim', almsta')
  BY <1>1, <1>2, <1>3, Kinds DEF Timers
<1>5. \A e \in Event : ~Registered(h, e) => LeftIn(h', "loop", e) = NoTicks
  BY <1>3 DEF LeftIn
<1>6. QED
  BY <1>1, <1>3, <1>4, <1>5 DEF TimeInv

LEMMA TickEndDoes ==
  ASSUME TimeInv, TickEnd
  PROVE  /\ TimeInv'
         /\ \A e \in Event : /\ LeftIn(h', phase', e) = LeftIn(h, phase, e)
                             /\ LeftIn(h, phase, e) # 0
<1>1. /\ phase = "loop" /\ ~SomeEventDue(h) /\ phase' = "idle" /\ h' = end_of_tick(h)
      /\ UNCHANGED << cycsta, evttim, almsta, asked >>
  BY DEF TickEnd
<1>2. HeapClockOK(h, "loop") /\ Timers(h, cycsta, evttim, almsta)
  BY <1>1 DEF TimeInv
<1>3. /\ HeapClockOK(h', "idle")
      /\ \A e \in Event :
           /\ Registered(h', e) <=> Registered(h, e)
           /\ TimeOf(h', e) = TimeOf(h, e)
           /\ LeftIn(h', "idle", e) = LeftIn(h, "loop", e)
           /\ Registered(h, e) => LeftIn(h, "loop", e) \in Nat \ {0}
  BY <1>1, <1>2, EndCounts
<1>4. Timers(h', cycsta', evttim', almsta')
  BY <1>1, <1>2, <1>3, Kinds DEF Timers
<1>5. \A e \in Event : LeftIn(h, "loop", e) # 0
  BY <1>3, SystemTimeAssumption DEF LeftIn
<1>6. QED
  BY <1>1, <1>3, <1>4, <1>5 DEF TimeInv

LEMMA CallbackEndDoes ==
  ASSUME TimeInv, CallbackEnd
  PROVE  /\ TimeInv'
         /\ \A e \in Event : LeftIn(h', phase', e) = LeftIn(h, phase, e)
<1>1. /\ phase = "callback" /\ phase' = "loop"
      /\ UNCHANGED << h, cycsta, evttim, almsta, asked >>
  BY DEF CallbackEnd
<1>2. HeapClockOK(h, phase) /\ Timers(h, cycsta, evttim, almsta)
  BY DEF TimeInv
<1>3. /\ HeapClockOK(h, phase')
      /\ \A e : LeftIn(h, phase', e) = LeftIn(h, phase, e)
  BY <1>1, <1>2, PhasesAlike
<1>4. QED
  BY <1>1, <1>2, <1>3 DEF TimeInv

\* The next time of a cyclic handler is one period after the one that has come.
LEMMA call_cychdrDoes ==
  ASSUME TimeInv, NEW c \in Cyc, call_cychdr(c)
  PROVE  /\ TimeInv' /\ OthersCount(h, h', phase', c)
         /\ LeftIn(h, phase, c) = 0
         /\ LeftIn(h', phase', c) = cyctim[c] * TIC_DENO - (IF Late(h, evttim[c]) THEN 1 ELSE 0)
         /\ Due(h, evttim[c]) /\ OnTime(h, phase', evttim'[c])
<1> DEFINE next == Plus(evttim[c], cyctim[c])
<1>1. /\ DueEvent(c) /\ h' = tmevtb_insert(tmevtb_delete_top(h), c, next)
      /\ evttim' = [evttim EXCEPT ![c] = next]
      /\ asked' = [asked EXCEPT ![c] = cyctim[c]]
      /\ cycsta' = cycsta /\ almsta' = almsta
  BY DEF call_cychdr
<1>2. /\ phase = "loop" /\ phase' = "callback"
      /\ c \in Event /\ Registered(h, c)
      /\ HeapClockOK(h, phase') /\ ClockOK(h, phase')
      /\ InWindow(h, phase', TimeOf(h, c))
      /\ EVTTIM_LE(h, TimeOf(h, c), h.current_time)
      /\ LeftIn(h, phase, c) = 0
      /\ \A e2 : LeftIn(h, phase', e2) = LeftIn(h, phase, e2)
      /\ HasDeleted(h, tmevtb_delete_top(h), c)
  BY <1>1, DueEventIs
<1>3. Timers(h, cycsta, evttim, almsta)
  BY DEF TimeInv
<1>4. TimeOf(h, c) = evttim[c] /\ c \in cycsta
  BY <1>2, <1>3 DEF Timers
<1>5. cyctim[c] \in RELTIM /\ cyctim[c] > 0
  BY Kinds
<1>6. HeapType(h) /\ phase' # "idle"
  BY <1>2 DEF HeapClockOK, GoodHeap
<1> DEFINE late == IF Late(h, evttim[c]) THEN 1 ELSE 0
<1>7. /\ InWindow(h, phase', next) /\ OnTime(h, phase', next)
      /\ LeftFor(h, phase', next) = cyctim[c] * TIC_DENO - late
  BY <1>2, <1>4, <1>5, <1>6, RepeatedTime
<1> HIDE DEF next, late
<1>8. RegisteredFor(h, h', phase', c, next) /\ LeftIn(h', phase', c) = LeftFor(h, phase', next)
  BY <1>1, <1>2, <1>7, InsertAgain
<1>9. /\ OthersCount(h, h', phase', c) /\ Registered(h', c) /\ TimeOf(h', c) = next
      /\ next \in EVTTIM /\ HeapClockOK(h', phase') /\ OthersStay(h, h', c)
  BY <1>8 DEF RegisteredFor, OthersCount
<1>10. Timers(h', cycsta', evttim', almsta')
  <2>1. Timers(h', cycsta, [evttim EXCEPT ![c] = next], almsta)
    BY <1>3, <1>4, <1>9, CycTimers
  <2>2. QED
    BY <1>1, <2>1
<1>11. TimeInv'
  BY <1>2, <1>9, <1>10 DEF TimeInv
<1>12. Due(h, evttim[c])
  BY <1>2, <1>4 DEF Due, EVTTIM_LE, Key, Now
<1>13. evttim'[c] = next
  BY <1>1, <1>3 DEF Timers
<1>14. QED
  BY <1>2, <1>7, <1>8, <1>9, <1>11, <1>12, <1>13 DEF late

LEMMA call_almhdrDoes ==
  ASSUME TimeInv, NEW a \in Alm, call_almhdr(a)
  PROVE  /\ TimeInv' /\ OthersCount(h, h', phase', a)
         /\ LeftIn(h, phase, a) = 0 /\ LeftIn(h', phase', a) = NoTicks
<1>1. /\ DueEvent(a) /\ h' = tmevtb_delete_top(h) /\ almsta' = almsta \ {a}
      /\ cycsta' = cycsta /\ evttim' = evttim
  BY DEF call_almhdr
<1>2. /\ phase' = "callback" /\ a \in Event /\ HeapClockOK(h, phase')
      /\ LeftIn(h, phase, a) = 0 /\ HasDeleted(h, tmevtb_delete_top(h), a)
  BY <1>1, DueEventIs
<1>3. TakenOut(h, h', phase', a) /\ LeftIn(h', phase', a) = NoTicks
  BY <1>1, <1>2, DeletedIsTakenOut
<1>4. /\ OthersCount(h, h', phase', a) /\ ~Registered(h', a)
      /\ HeapClockOK(h', phase') /\ OthersStay(h, h', a)
  BY <1>3 DEF TakenOut, OthersCount
<1>5. Timers(h', cycsta, evttim, almsta \ {a})
  BY <1>4, AlmTimers DEF TimeInv
<1>6. QED
  BY <1>1, <1>2, <1>3, <1>4, <1>5 DEF TimeInv

LEMMA wait_tmoutDoes ==
  ASSUME TimeInv, NEW t \in Tmo, wait_tmout(t)
  PROVE  /\ TimeInv' /\ OthersCount(h, h', phase', t)
         /\ LeftIn(h, phase, t) = 0 /\ LeftIn(h', phase', t) = NoTicks
<1>1. /\ DueEvent(t) /\ h' = tmevtb_delete_top(h)
      /\ cycsta' = cycsta /\ evttim' = evttim /\ almsta' = almsta
  BY DEF wait_tmout
<1>2. /\ phase' = "callback" /\ t \in Event /\ HeapClockOK(h, phase')
      /\ LeftIn(h, phase, t) = 0 /\ HasDeleted(h, tmevtb_delete_top(h), t)
  BY <1>1, DueEventIs
<1>3. TakenOut(h, h', phase', t) /\ LeftIn(h', phase', t) = NoTicks
  BY <1>1, <1>2, DeletedIsTakenOut
<1>4. /\ OthersCount(h, h', phase', t) /\ HeapClockOK(h', phase') /\ OthersStay(h, h', t)
  BY <1>3 DEF TakenOut, OthersCount
<1>5. Timers(h', cycsta, evttim, almsta)
  BY <1>4, TmoTimers DEF TimeInv
<1>6. QED
  BY <1>1, <1>2, <1>3, <1>4, <1>5 DEF TimeInv

LEMMA sta_cycDoes ==
  ASSUME TimeInv, NEW c \in Cyc, sta_cyc(c)
  PROVE  /\ TimeInv' /\ OthersCount(h, h', phase, c)
         /\ \E more \in 1 .. TIC_DENO : LeftIn(h', phase, c) = cycphs[c] * TIC_DENO + more
<1> DEFINE time == Plus(base_time(h), cycphs[c])
           g == Without(c, c \in cycsta)
<1>1. /\ h' = tmevtb_enqueue(g, c, cycphs[c])
      /\ evttim' = [evttim EXCEPT ![c] = time]
      /\ cycsta' = cycsta \cup {c} /\ phase' = phase /\ almsta' = almsta
  BY DEF sta_cyc
<1>2. HeapClockOK(h, phase) /\ Timers(h, cycsta, evttim, almsta) /\ phase' \in {"idle", "loop", "callback"}
  BY <1>1 DEF TimeInv
<1>3. c \in Event /\ cycphs[c] \in RELTIM /\ (Registered(h, c) <=> c \in cycsta)
  BY <1>2, Kinds DEF Timers
<1>4. HasDeleted(h, g, c)
  BY <1>2, <1>3, WithoutDeletes
<1> HIDE DEF g
<1>5. /\ RegisteredFor(h, h', phase, c, time)
      /\ \E more \in 1 .. TIC_DENO : LeftIn(h', phase, c) = cycphs[c] * TIC_DENO + more
  BY <1>1, <1>2, <1>3, <1>4, EnqueueAgain
<1> HIDE DEF time
<1>6. /\ OthersCount(h, h', phase, c) /\ Registered(h', c) /\ TimeOf(h', c) = time
      /\ time \in EVTTIM /\ HeapClockOK(h', phase) /\ OthersStay(h, h', c)
  BY <1>5 DEF RegisteredFor, OthersCount
<1>7. Timers(h', cycsta', evttim', almsta')
  <2>1. /\ \A c2 \in Cyc \ {c} : c2 \in cycsta' <=> c2 \in cycsta
        /\ c \in cycsta'
    BY <1>1
  <2>2. Timers(h', cycsta', [evttim EXCEPT ![c] = time], almsta)
    BY <1>2, <1>6, <2>1, CycTimers
  <2>3. QED
    BY <1>1, <2>2
<1>8. TimeInv'
  BY <1>1, <1>2, <1>6, <1>7 DEF TimeInv
<1>9. QED
  BY <1>5, <1>6, <1>8

LEMMA stp_cycDoes ==
  ASSUME TimeInv, NEW c \in Cyc, stp_cyc(c)
  PROVE  /\ TimeInv' /\ OthersCount(h, h', phase, c)
         /\ LeftIn(h', phase, c) = NoTicks
<1>1. /\ h' = Without(c, c \in cycsta) /\ cycsta' = cycsta \ {c}
      /\ evttim' = evttim /\ phase' = phase /\ almsta' = almsta
  BY DEF stp_cyc
<1>2. HeapClockOK(h, phase) /\ Timers(h, cycsta, evttim, almsta) /\ phase' \in {"idle", "loop", "callback"}
  BY <1>1 DEF TimeInv
<1>3. c \in Event /\ (Registered(h, c) <=> c \in cycsta)
  BY <1>2, Kinds DEF Timers
<1>4. HasDeleted(h, h', c)
  BY <1>1, <1>2, <1>3, WithoutDeletes
<1>5. TakenOut(h, h', phase, c) /\ LeftIn(h', phase, c) = NoTicks
  BY <1>2, <1>3, <1>4, DeletedIsTakenOut
<1>6. /\ OthersCount(h, h', phase, c) /\ ~Registered(h', c)
      /\ HeapClockOK(h', phase) /\ OthersStay(h, h', c)
  BY <1>5 DEF TakenOut, OthersCount
<1>7. Timers(h', cycsta', evttim', almsta')
  <2>1. evttim[c] \in EVTTIM /\ [evttim EXCEPT ![c] = evttim[c]] = evttim
    BY <1>2 DEF Timers
  <2>2. Timers(h', cycsta \ {c}, [evttim EXCEPT ![c] = evttim[c]], almsta)
    BY <1>2, <1>6, <2>1, CycTimers
  <2>3. QED
    BY <1>1, <2>1, <2>2
<1>8. TimeInv'
  BY <1>1, <1>2, <1>6, <1>7 DEF TimeInv
<1>9. QED
  BY <1>5, <1>6, <1>8

LEMMA sta_almDoes ==
  ASSUME TimeInv, NEW a \in Alm, NEW almtim \in RELTIM, sta_alm(a, almtim)
  PROVE  /\ TimeInv' /\ OthersCount(h, h', phase, a)
         /\ \E more \in 1 .. TIC_DENO : LeftIn(h', phase, a) = almtim * TIC_DENO + more
<1> DEFINE time == Plus(base_time(h), almtim)
           g == Without(a, a \in almsta)
<1>1. /\ h' = tmevtb_enqueue(g, a, almtim)
      /\ almsta' = almsta \cup {a} /\ phase' = phase
      /\ cycsta' = cycsta /\ evttim' = evttim
  BY DEF sta_alm
<1>2. HeapClockOK(h, phase) /\ Timers(h, cycsta, evttim, almsta) /\ phase' \in {"idle", "loop", "callback"}
  BY <1>1 DEF TimeInv
<1>3. a \in Event /\ (Registered(h, a) <=> a \in almsta)
  BY <1>2, Kinds DEF Timers
<1>4. HasDeleted(h, g, a)
  BY <1>2, <1>3, WithoutDeletes
<1> HIDE DEF g
<1>5. /\ RegisteredFor(h, h', phase, a, time)
      /\ \E more \in 1 .. TIC_DENO : LeftIn(h', phase, a) = almtim * TIC_DENO + more
  BY <1>1, <1>2, <1>3, <1>4, EnqueueAgain
<1> HIDE DEF time
<1>6. /\ OthersCount(h, h', phase, a) /\ Registered(h', a)
      /\ HeapClockOK(h', phase) /\ OthersStay(h, h', a)
  BY <1>5 DEF RegisteredFor, OthersCount
<1>7. Timers(h', cycsta', evttim', almsta')
  <2>1. /\ \A a2 \in Alm \ {a} : a2 \in almsta' <=> a2 \in almsta
        /\ a \in almsta'
    BY <1>1
  <2>2. Timers(h', cycsta, evttim, almsta')
    BY <1>2, <1>6, <2>1, AlmTimers
  <2>3. QED
    BY <1>1, <2>2
<1>8. TimeInv'
  BY <1>1, <1>2, <1>6, <1>7 DEF TimeInv
<1>9. QED
  BY <1>5, <1>6, <1>8

LEMMA stp_almDoes ==
  ASSUME TimeInv, NEW a \in Alm, stp_alm(a)
  PROVE  /\ TimeInv' /\ OthersCount(h, h', phase, a)
         /\ LeftIn(h', phase, a) = NoTicks
<1>1. /\ h' = Without(a, a \in almsta) /\ almsta' = almsta \ {a}
      /\ evttim' = evttim /\ phase' = phase /\ cycsta' = cycsta
  BY DEF stp_alm
<1>2. HeapClockOK(h, phase) /\ Timers(h, cycsta, evttim, almsta) /\ phase' \in {"idle", "loop", "callback"}
  BY <1>1 DEF TimeInv
<1>3. a \in Event /\ (Registered(h, a) <=> a \in almsta)
  BY <1>2, Kinds DEF Timers
<1>4. HasDeleted(h, h', a)
  BY <1>1, <1>2, <1>3, WithoutDeletes
<1>5. TakenOut(h, h', phase, a) /\ LeftIn(h', phase, a) = NoTicks
  BY <1>2, <1>3, <1>4, DeletedIsTakenOut
<1>6. /\ OthersCount(h, h', phase, a) /\ ~Registered(h', a)
      /\ HeapClockOK(h', phase) /\ OthersStay(h, h', a)
  BY <1>5 DEF TakenOut, OthersCount
<1>7. Timers(h', cycsta, evttim, almsta \ {a})
  BY <1>2, <1>6, AlmTimers
<1>8. TimeInv'
  BY <1>1, <1>2, <1>6, <1>7 DEF TimeInv
<1>9. QED
  BY <1>5, <1>6, <1>8

LEMMA make_wait_tmoutDoes ==
  ASSUME TimeInv, NEW t \in Tmo, NEW tmout \in RELTIM, make_wait_tmout(t, tmout)
  PROVE  /\ TimeInv' /\ OthersCount(h, h', phase, t)
         /\ \E more \in 1 .. TIC_DENO : LeftIn(h', phase, t) = tmout * TIC_DENO + more
<1> DEFINE time == Plus(base_time(h), tmout)
<1>1. /\ ~Registered(h, t) /\ h' = tmevtb_enqueue(h, t, tmout)
      /\ almsta' = almsta /\ phase' = phase
      /\ cycsta' = cycsta /\ evttim' = evttim
  BY DEF make_wait_tmout
<1>2. HeapClockOK(h, phase) /\ Timers(h, cycsta, evttim, almsta) /\ phase' \in {"idle", "loop", "callback"}
  BY <1>1 DEF TimeInv
<1>3. t \in Event
  BY Kinds
<1>4. HasDeleted(h, h, t)
  BY <1>1, <1>2 DEF HasDeleted, HeapClockOK, SameClock, OthersStay
<1>5. /\ RegisteredFor(h, h', phase, t, time)
      /\ \E more \in 1 .. TIC_DENO : LeftIn(h', phase, t) = tmout * TIC_DENO + more
  BY <1>1, <1>2, <1>3, <1>4, EnqueueAgain
<1> HIDE DEF time
<1>6. OthersCount(h, h', phase, t) /\ HeapClockOK(h', phase) /\ OthersStay(h, h', t)
  BY <1>5 DEF RegisteredFor, OthersCount
<1>7. Timers(h', cycsta, evttim, almsta)
  BY <1>2, <1>6, TmoTimers
<1>8. TimeInv'
  BY <1>1, <1>2, <1>6, <1>7 DEF TimeInv
<1>9. QED
  BY <1>5, <1>6, <1>8

LEMMA wait_dequeueDoes ==
  ASSUME TimeInv, NEW t \in Tmo, wait_dequeue_tmevtb(t)
  PROVE  /\ TimeInv' /\ OthersCount(h, h', phase, t)
         /\ LeftIn(h', phase, t) = NoTicks
<1>1. /\ Registered(h, t) /\ h' = tmevtb_delete(h, t)
      /\ almsta' = almsta /\ phase' = phase /\ cycsta' = cycsta /\ evttim' = evttim
  BY DEF wait_dequeue_tmevtb
<1>2. HeapClockOK(h, phase) /\ Timers(h, cycsta, evttim, almsta) /\ phase' \in {"idle", "loop", "callback"}
  BY <1>1 DEF TimeInv
<1>3. t \in Event
  BY Kinds
<1>4. HasDeleted(h, h', t)
  BY <1>1, <1>2, <1>3, DeleteDeletes DEF HeapClockOK
<1>5. TakenOut(h, h', phase, t) /\ LeftIn(h', phase, t) = NoTicks
  BY <1>2, <1>3, <1>4, DeletedIsTakenOut
<1>6. OthersCount(h, h', phase, t) /\ HeapClockOK(h', phase) /\ OthersStay(h, h', t)
  BY <1>5 DEF TakenOut, OthersCount
<1>7. Timers(h', cycsta, evttim, almsta)
  BY <1>2, <1>6, TmoTimers
<1>8. TimeInv'
  BY <1>1, <1>2, <1>6, <1>7 DEF TimeInv
<1>9. QED
  BY <1>5, <1>6, <1>8

LEMMA TimeNextInv ==
  ASSUME TimeInv, [TimeNext]_tvars
  PROVE  TimeInv'
<1>1. CASE UNCHANGED tvars
  BY <1>1 DEF tvars, TimeInv, Timers
<1>2. CASE SignalTime
  BY <1>2, TickStartDoes, CallbackEndDoes, TickEndDoes, call_cychdrDoes, call_almhdrDoes,
     wait_tmoutDoes DEF SignalTime
<1>3. CASE \E c \in Cyc : sta_cyc(c) \/ stp_cyc(c)
  BY <1>3, sta_cycDoes, stp_cycDoes
<1>4. CASE \E a \in Alm : stp_alm(a) \/ \E almtim \in RELTIM : sta_alm(a, almtim)
  BY <1>4, stp_almDoes, sta_almDoes
<1>5. CASE \E t \in Tmo : wait_dequeue_tmevtb(t)
                          \/ \E tmout \in RELTIM : make_wait_tmout(t, tmout)
  BY <1>5, wait_dequeueDoes, make_wait_tmoutDoes
<1>6. QED
  BY <1>1, <1>2, <1>3, <1>4, <1>5 DEF TimeNext

LEMMA TimeInvHolds == TimeSpec => []TimeInv
<1>1. TimeInit => TimeInv
  BY InitTimeInv
<1>2. TimeInv /\ [TimeNext]_tvars => TimeInv'
  BY TimeNextInv
<1>3. QED
  BY <1>1, <1>2, PTL DEF TimeSpec

\* The heap keeps its order and knows its events, and a handler is registered
\* exactly when it is started: HeapInv, in every window signal_time opens.
THEOREM SystemTime_HeapInv == TimeSpec => []HeapInv
<1>1. TimeInv => HeapInv
  BY DEF TimeInv, HeapClockOK, GoodHeap, Timers, HeapInv
<1>2. QED
  BY <1>1, TimeInvHolds, PTL

-----------------------------------------------------------------------------
(***************************************************************************)
(* What the reference calls report.                                        *)
(***************************************************************************)
LEMMA Quotient ==
  ASSUME NEW q \in Nat, NEW d \in Nat, NEW r \in Nat, r < d
  PROVE  ((q * d) + r) \div d = q
BY Z3

\* The time that is left is the number of whole milliseconds that the ticks up to
\* the one in which the event goes off have behind the next one.
LEMMA LefttimIs ==
  ASSUME NEW h0, HeapClockOK(h0, "idle"), NEW e \in Event, Registered(h0, e)
  PROVE  tmevt_lefttim(h0, e) = (LeftIn(h0, "idle", e) - 1) \div TIC_DENO
<1> DEFINE time == TimeOf(h0, e)
           k == Key(h0, time)
           s == SubTicksOf(h0)
           d == TIC_DENO
           q == k - 1
           r == d - s - 1
<1>1. /\ HeapType(h0) /\ ClockOK(h0, "idle") /\ InWindow(h0, "idle", time)
      /\ time \in EVTTIM /\ h0.min_time \in EVTTIM /\ h0.current_time \in EVTTIM
  BY DEF HeapClockOK, GoodHeap, InWindow, HeapType
<1>2. Now(h0) = 0
  BY <1>1 DEF ClockOK
<1>3. /\ k \in Nat /\ k < EVTTIM_MOD
      /\ LeftFor(h0, "idle", time) = IF k > 0 THEN (k - 0) * d - s ELSE 1
  BY <1>1, <1>2, LeftForIs
<1>4. /\ d \in Nat /\ d >= 1 /\ EVTTIM_MOD \in Nat /\ 1 \in EVTTIM /\ 1 < EVTTIM_MOD
      /\ s \in Nat /\ s < d /\ s = IF h0.next_subtime = 0 THEN d - 1 ELSE h0.next_subtime - 1
  BY <1>1, SubTicksAre, Constants
<1>5. LeftIn(h0, "idle", e) = LeftFor(h0, "idle", time)
  BY DEF LeftIn
<1>6. Key(h0, h0.current_time) = 0
  BY <1>2 DEF Now
<1>7. base_time(h0) = Plus(h0.current_time, 1) /\ base_time(h0) \in EVTTIM
  BY <1>1, BaseTime
<1>8. Key(h0, base_time(h0)) = 1
  <2>1. Minus(h0.current_time, h0.min_time) + 1 < EVTTIM_MOD
    BY <1>4, <1>6 DEF Key
  <2>2. Minus(Plus(h0.current_time, 1), h0.min_time) = Minus(h0.current_time, h0.min_time) + 1
    BY <1>1, <1>4, <2>1, DistanceOfSum
  <2>3. QED
    BY <1>6, <1>7, <2>2 DEF Key
<1>9. Key(h0, h0.next_time) = IF h0.next_subtime = 0 THEN 1 ELSE 0
  BY <1>1, <1>6, <1>7, <1>8 DEF ClockOK
<1>10. tmevt_lefttim(h0, e) = IF EVTTIM_LE(h0, time, h0.next_time) THEN 0
                              ELSE Minus(time, base_time(h0))
  BY DEF tmevt_lefttim, TimeOf
<1>11. EVTTIM_LE(h0, time, h0.next_time) <=> k <= Key(h0, h0.next_time)
  BY DEF EVTTIM_LE, Key
<1>12. k >= 1 => Minus(time, base_time(h0)) = k - 1
  BY <1>1, <1>7, <1>8, Distances DEF Key
<1>13. CASE k = 0
  <2>1. tmevt_lefttim(h0, e) = 0
    BY <1>9, <1>10, <1>11, <1>13
  <2>2. LeftIn(h0, "idle", e) = 1
    BY <1>3, <1>5, <1>13
  <2>3. ((0 * d) + 0) \div d = 0 /\ (0 * d) + 0 = 0
    BY <1>4, Quotient, Ticks
  <2>4. QED
    BY <2>1, <2>2, <2>3
<1>14. CASE k > 0
  <2>1. tmevt_lefttim(h0, e) = k - 1
    BY <1>3, <1>9, <1>10, <1>11, <1>12, <1>14
  <2>2. q \in Nat /\ r \in Nat /\ r < d /\ k - 0 = q + 1
    BY <1>3, <1>4, <1>14
  <2>3. /\ q * d \in Nat /\ (q + 1) * d = (q * d) + d
        /\ ((q * d) + r) \div d = q
    <3> HIDE DEF q, r, d
    <3>1. d \in Nat
      BY <1>4
    <3>2. q \in Nat /\ r \in Nat /\ r < d
      BY <2>2
    <3>3. ((q * d) + r) \div d = q
      BY <3>1, <3>2, Quotient
    <3>4. q * d \in Nat /\ (q + 1) * d = (q * d) + d
      BY <3>1, <3>2, Ticks
    <3>5. QED
      BY <3>3, <3>4
  <2>4. LeftFor(h0, "idle", time) - 1 = (q * d) + r
    <3>1. LeftFor(h0, "idle", time) = (k - 0) * d - s
      BY <1>3, <1>14
    <3>2. LeftFor(h0, "idle", time) = ((q * d) + d) - s
      BY <2>2, <2>3, <3>1
    <3>3. r = d - s - 1
      OBVIOUS
    <3> HIDE DEF q, r, d, s, k, time
    <3>4. QED
      BY <1>4, <2>2, <2>3, <3>2, <3>3
  <2>5. QED
    BY <1>5, <2>1, <2>3, <2>4
<1>15. QED
  BY <1>3, <1>13, <1>14

\* lefttim is exact, whenever a task can ask for it.
THEOREM SystemTime_LefttimExact == TimeSpec => []LefttimExact
<1>1. ASSUME TimeInv PROVE LefttimExact
  <2> SUFFICES ASSUME phase = "idle", NEW e \in Event, Registered(h, e)
               PROVE  tmevt_lefttim(h, e) = (TicksLeft(e) - 1) \div TIC_DENO
    BY DEF LefttimExact
  <2>1. HeapClockOK(h, "idle")
    BY <1>1 DEF TimeInv
  <2>2. TicksLeft(e) = LeftIn(h, "idle", e)
    BY TicksLeftIs
  <2>3. QED
    BY <2>1, <2>2, LefttimIs
<1>2. QED
  BY <1>1, TimeInvHolds, PTL

-----------------------------------------------------------------------------
(***************************************************************************)
(* Periods are exact: a cyclic handler that is due goes off in its tick,   *)
(* but for one that was due at boot, for which the first tick is late.     *)
(***************************************************************************)
GoesOff(h0, ph, c, ask) ==
  Registered(h0, c) => IF ask = NoTicks THEN Overdue(h0, ph, TimeOf(h0, c))
                       ELSE OnTime(h0, ph, TimeOf(h0, c))

Punctual ==
  /\ asked \in [Event -> RELTIM \cup {NoTicks}]
  /\ \A c \in Cyc : GoesOff(h, phase, c, asked[c])

LEMMA InitPunctual ==
  ASSUME TimeInit
  PROVE  Punctual
<1>1. /\ phase = "idle" /\ cycsta = {StaCyc[n] : n \in DOMAIN StaCyc}
      /\ asked = [e \in Event |-> IF e \in cycsta /\ cycphs[e] # 0 THEN cycphs[e] ELSE NoTicks]
  BY DEF TimeInit
<1>2. Booted(h, Len(StaCyc))
  BY InitTimeInv
<1>3. /\ HeapType(h) /\ ClockOK(h, "idle") /\ h.min_time = 0
      /\ \A e \in Event : /\ Registered(h, e) <=> \E i \in 1 .. Len(StaCyc) : StaCyc[i] = e
                          /\ Registered(h, e) => TimeOf(h, e) = cycphs[e]
  BY <1>2 DEF Booted, HeapClockOK, GoodHeap
<1>4. DOMAIN StaCyc = 1 .. Len(StaCyc) /\ \A i \in 1 .. Len(StaCyc) : StaCyc[i] \in Cyc
  BY SystemTimeAssumption
<1>5. cycsta \in SUBSET Cyc /\ \A e \in Event : Registered(h, e) <=> e \in cycsta
  BY <1>1, <1>3, <1>4
<1>6. asked \in [Event -> RELTIM \cup {NoTicks}]
  BY <1>1, <1>5, Kinds
<1>7. ASSUME NEW c \in Cyc, Registered(h, c)
      PROVE  IF asked[c] = NoTicks THEN Overdue(h, phase, TimeOf(h, c))
             ELSE OnTime(h, phase, TimeOf(h, c))
  <2>1. /\ c \in Event /\ c \in cycsta /\ TimeOf(h, c) = cycphs[c]
        /\ cycphs[c] \in Nat /\ cycphs[c] \in EVTTIM /\ 0 \in EVTTIM
    BY <1>3, <1>5, <1>7, Kinds, Constants DEF RELTIM
  <2>2. asked[c] = NoTicks <=> cycphs[c] = 0
    BY <1>1, <2>1, SystemTimeAssumption
  <2>3. Minus(cycphs[c], 0) = cycphs[c] - 0
    BY <2>1, Differences
  <2>4. Due(h, cycphs[c]) <=> cycphs[c] = 0
    <3>1. Key(h, cycphs[c]) = cycphs[c] /\ Now(h) = 0
      BY <1>3, <2>1, <2>3 DEF Key, ClockOK
    <3>2. QED
      BY <2>1, <3>1 DEF Due
  <2>5. QED
    BY <1>1, <2>1, <2>2, <2>4 DEF Overdue, OnTime
<1>8. QED
  BY <1>6, <1>7 DEF Punctual, GoesOff

\* A step that changes one event.
LEMMA OneGoesOff ==
  ASSUME Punctual, NEW ev \in Event, OthersCount(h, h', phase', ev),
         phase' = phase \/ (phase # "idle" /\ phase' # "idle"),
         asked' = asked \/ \E r \in RELTIM : asked' = [asked EXCEPT ![ev] = r],
         ev \in Cyc => GoesOff(h', phase', ev, asked'[ev])
  PROVE  Punctual'
<1>1. SameClock(h, h') /\ OthersStay(h, h', ev)
  BY DEF OthersCount
<1>2. asked' \in [Event -> RELTIM \cup {NoTicks}] /\ \A e \in Event \ {ev} : asked'[e] = asked[e]
  BY DEF Punctual
<1>3. ASSUME NEW c \in Cyc, c # ev, Registered(h', c) PROVE GoesOff(h', phase', c, asked'[c])
  <2>1. c \in Event \ {ev}
    BY <1>3, Kinds
  <2>2. Registered(h, c) /\ TimeOf(h', c) = TimeOf(h, c) /\ asked'[c] = asked[c]
    BY <1>1, <1>2, <1>3, <2>1 DEF OthersStay
  <2>3. IF asked[c] = NoTicks THEN Overdue(h, phase, TimeOf(h, c))
        ELSE OnTime(h, phase, TimeOf(h, c))
    BY <2>2 DEF Punctual, GoesOff
  <2>4. IF asked[c] = NoTicks THEN Overdue(h', phase, TimeOf(h, c))
        ELSE OnTime(h', phase, TimeOf(h, c))
    BY <1>1, <2>3, PunctualStays
  <2>5. IF asked[c] = NoTicks THEN Overdue(h', phase', TimeOf(h, c))
        ELSE OnTime(h', phase', TimeOf(h, c))
    BY <2>4 DEF Overdue, OnTime
  <2>6. QED
    BY <2>2, <2>5 DEF GoesOff
<1>4. \A c \in Cyc : GoesOff(h', phase', c, asked'[c])
  BY <1>3 DEF GoesOff
<1>5. QED
  BY <1>2, <1>4 DEF Punctual

LEMMA TicksPunctual ==
  ASSUME TimeInv, Punctual, TickStart \/ TickEnd \/ CallbackEnd
  PROVE  Punctual'
<1>1. CASE TickStart
  <2>1. /\ phase = "idle" /\ phase' = "loop" /\ h' = advance_time(h) /\ asked' = asked
    BY <1>1 DEF TickStart
  <2>2. HeapClockOK(h, "idle")
    BY <2>1 DEF TimeInv
  <2>3. \A e \in Event :
           /\ Registered(h', e) <=> Registered(h, e)
           /\ TimeOf(h', e) = TimeOf(h, e)
           /\ Registered(h, e) =>
                /\ OnTime(h, "idle", TimeOf(h, e)) => OnTime(h', "loop", TimeOf(h', e))
                /\ Overdue(h, "idle", TimeOf(h, e)) => Overdue(h', "loop", TimeOf(h', e))
    BY <2>1, <2>2, TickCounts
  <2>4. QED
    BY <2>1, <2>3, Kinds DEF Punctual, GoesOff
<1>2. CASE TickEnd
  <2>1. /\ phase = "loop" /\ phase' = "idle" /\ h' = end_of_tick(h) /\ asked' = asked
        /\ ~SomeEventDue(h)
    BY <1>2 DEF TickEnd
  <2>2. HeapClockOK(h, "loop")
    BY <2>1 DEF TimeInv
  <2>3. \A e \in Event :
           /\ Registered(h', e) <=> Registered(h, e)
           /\ Registered(h, e) => ~Due(h, TimeOf(h, e)) /\ ~Due(h', TimeOf(h', e))
    BY <2>1, <2>2, EndCounts
  <2>4. ASSUME NEW c \in Cyc, Registered(h', c)
        PROVE  asked[c] # NoTicks /\ OnTime(h', phase', TimeOf(h', c))
    <3>1. c \in Event /\ Registered(h, c) /\ ~Due(h, TimeOf(h, c)) /\ ~Due(h', TimeOf(h', c))
      BY <2>3, <2>4, Kinds
    <3>2. asked[c] # NoTicks
      BY <3>1 DEF Punctual, GoesOff, Overdue
    <3>3. QED
      BY <3>1, <3>2 DEF OnTime
  <2>5. QED
    BY <2>1, <2>4 DEF Punctual, GoesOff
<1>3. CASE CallbackEnd
  <2>1. h' = h /\ phase = "callback" /\ phase' = "loop" /\ asked' = asked
    BY <1>3 DEF CallbackEnd
  <2>2. QED
    BY <2>1 DEF Punctual, GoesOff, Overdue, OnTime
<1>4. QED
  BY <1>1, <1>2, <1>3

LEMMA call_cychdrPunctual ==
  ASSUME TimeInv, Punctual, NEW c \in Cyc, call_cychdr(c)
  PROVE  /\ Punctual'
         /\ LeftIn(h', phase', c) = cyctim[c] * TIC_DENO - (IF asked[c] = NoTicks THEN 1 ELSE 0)
<1>1. /\ phase = "loop" /\ phase' = "callback" /\ Registered(h, c)
      /\ asked' = [asked EXCEPT ![c] = cyctim[c]]
  BY DueEventIs DEF call_cychdr
<1>2. c \in Event /\ cyctim[c] \in RELTIM /\ cyctim[c] # NoTicks
  BY Kinds, SystemTimeAssumption DEF RELTIM
<1>3. /\ OthersCount(h, h', phase', c) /\ TimeInv'
      /\ LeftIn(h', phase', c) = cyctim[c] * TIC_DENO - (IF Late(h, evttim[c]) THEN 1 ELSE 0)
      /\ Due(h, evttim[c]) /\ OnTime(h, phase', evttim'[c])
  BY call_cychdrDoes
<1>4. TimeOf(h, c) = evttim[c] /\ (Registered(h', c) => TimeOf(h', c) = evttim'[c])
  BY <1>1, <1>3 DEF TimeInv, Timers
<1>5. Late(h, evttim[c]) <=> asked[c] = NoTicks
  BY <1>1, <1>3, <1>4 DEF Punctual, GoesOff, Overdue, OnTime
<1>6. asked'[c] = cyctim[c]
  BY <1>1, <1>2 DEF Punctual
<1>7. GoesOff(h', phase', c, asked'[c])
  <2>1. OnTime(h', phase', evttim'[c])
    BY <1>3, PunctualStays DEF OthersCount
  <2>2. QED
    BY <1>2, <1>4, <1>6, <2>1 DEF GoesOff
<1>8. Punctual'
  BY <1>1, <1>2, <1>3, <1>7, OneGoesOff
<1>9. QED
  BY <1>3, <1>5, <1>8

LEMMA sta_cycPunctual ==
  ASSUME TimeInv, Punctual, NEW c \in Cyc, sta_cyc(c)
  PROVE  Punctual'
<1>1. /\ phase' = phase /\ asked' = [asked EXCEPT ![c] = cycphs[c]]
      /\ evttim' = [evttim EXCEPT ![c] = Plus(base_time(h), cycphs[c])]
  BY DEF sta_cyc
<1>2. c \in Event /\ cycphs[c] \in RELTIM /\ cycphs[c] # NoTicks
  BY Kinds, SystemTimeAssumption DEF RELTIM
<1>3. OthersCount(h, h', phase, c) /\ TimeInv'
  BY sta_cycDoes
<1>4. /\ asked'[c] = cycphs[c] /\ evttim'[c] = Plus(base_time(h), cycphs[c])
      /\ Registered(h', c) => TimeOf(h', c) = evttim'[c]
  BY <1>1, <1>2, <1>3 DEF Punctual, TimeInv, Timers
<1>5. OnTime(h, phase, Plus(base_time(h), cycphs[c]))
  <2>1. HeapType(h) /\ ClockOK(h, phase)
    BY DEF TimeInv, HeapClockOK, GoodHeap
  <2>2. QED
    BY <1>2, <2>1, EnqueuedTime
<1>6. OnTime(h', phase, evttim'[c])
  BY <1>3, <1>4, <1>5, PunctualStays DEF OthersCount
<1>7. GoesOff(h', phase', c, asked'[c])
  BY <1>1, <1>2, <1>4, <1>6 DEF GoesOff
<1>8. QED
  BY <1>1, <1>2, <1>3, <1>7, OneGoesOff

LEMMA TimeNextPunctual ==
  ASSUME TimeInv, Punctual, [TimeNext]_tvars
  PROVE  Punctual'
<1>1. CASE UNCHANGED tvars
  BY <1>1 DEF tvars, Punctual
<1>2. CASE TickStart \/ TickEnd \/ CallbackEnd
  BY <1>2, TicksPunctual
<1>3. ASSUME NEW c \in Cyc, call_cychdr(c) \/ sta_cyc(c) \/ stp_cyc(c) PROVE Punctual'
  <2>1. CASE stp_cyc(c)
    <3>1. phase' = phase /\ asked' = asked /\ cycsta' = cycsta \ {c}
      BY <2>1 DEF stp_cyc
    <3>2. OthersCount(h, h', phase, c) /\ TimeInv'
      BY <2>1, stp_cycDoes
    <3>3. ~Registered(h', c)
      BY <3>1, <3>2 DEF TimeInv, Timers
    <3>4. QED
      BY <3>1, <3>2, <3>3, Kinds, OneGoesOff DEF GoesOff
  <2>2. QED
    BY <1>3, <2>1, call_cychdrPunctual, sta_cycPunctual
<1>4. ASSUME NEW a \in Alm,
             call_almhdr(a) \/ stp_alm(a) \/ \E almtim \in RELTIM : sta_alm(a, almtim)
      PROVE  Punctual'
  <2>1. a \in Event /\ a \notin Cyc
    BY Kinds
  <2>2. CASE call_almhdr(a)
    <3>1. asked' = asked /\ DueEvent(a)
      BY <2>2 DEF call_almhdr
    <3>2. OthersCount(h, h', phase', a) /\ phase # "idle" /\ phase' # "idle"
      BY <2>2, <3>1, call_almhdrDoes, DueEventIs
    <3>3. QED
      BY <2>1, <3>1, <3>2, OneGoesOff
  <2>3. CASE stp_alm(a)
    <3>1. phase' = phase /\ asked' = asked
      BY <2>3 DEF stp_alm
    <3>2. OthersCount(h, h', phase, a)
      BY <2>3, stp_almDoes
    <3>3. QED
      BY <2>1, <3>1, <3>2, OneGoesOff
  <2>4. ASSUME NEW almtim \in RELTIM, sta_alm(a, almtim) PROVE Punctual'
    <3>1. phase' = phase /\ asked' = [asked EXCEPT ![a] = almtim]
      BY <2>4 DEF sta_alm
    <3>2. OthersCount(h, h', phase, a)
      BY <2>4, sta_almDoes
    <3>3. QED
      BY <2>1, <3>1, <3>2, OneGoesOff
  <2>5. QED
    BY <1>4, <2>2, <2>3, <2>4
<1>5. ASSUME NEW t \in Tmo,
             \/ wait_tmout(t) \/ wait_dequeue_tmevtb(t)
             \/ \E tmout \in RELTIM : make_wait_tmout(t, tmout)
      PROVE  Punctual'
  <2>1. t \in Event /\ t \notin Cyc
    BY Kinds
  <2>2. CASE wait_tmout(t)
    <3>1. asked' = asked /\ DueEvent(t)
      BY <2>2 DEF wait_tmout
    <3>2. OthersCount(h, h', phase', t) /\ phase # "idle" /\ phase' # "idle"
      BY <2>2, <3>1, wait_tmoutDoes, DueEventIs
    <3>3. QED
      BY <2>1, <3>1, <3>2, OneGoesOff
  <2>3. CASE wait_dequeue_tmevtb(t)
    <3>1. phase' = phase /\ asked' = asked
      BY <2>3 DEF wait_dequeue_tmevtb
    <3>2. OthersCount(h, h', phase, t)
      BY <2>3, wait_dequeueDoes
    <3>3. QED
      BY <2>1, <3>1, <3>2, OneGoesOff
  <2>4. ASSUME NEW tmout \in RELTIM, make_wait_tmout(t, tmout) PROVE Punctual'
    <3>1. phase' = phase /\ asked' = [asked EXCEPT ![t] = tmout]
      BY <2>4 DEF make_wait_tmout
    <3>2. OthersCount(h, h', phase, t)
      BY <2>4, make_wait_tmoutDoes
    <3>3. QED
      BY <2>1, <3>1, <3>2, OneGoesOff
  <2>5. QED
    BY <1>5, <2>2, <2>3, <2>4
<1>6. QED
  BY <1>1, <1>2, <1>3, <1>4, <1>5, Zenon DEF TimeNext, SignalTime

LEMMA AlwaysPunctual == TimeSpec => []Punctual
<1>1. TimeInit => Punctual
  BY InitPunctual
<1>2. TimeInv /\ TimeInv' /\ Punctual /\ [TimeNext]_tvars => Punctual'
  BY TimeNextPunctual
<1>3. QED
  BY <1>1, <1>2, TimeInvHolds, PTL DEF TimeSpec

-----------------------------------------------------------------------------
(***************************************************************************)
(* The heap implements the countdowns.                                     *)
(***************************************************************************)
Countdowns(h0, ph) == [e \in Event |-> LeftIn(h0, ph, e)]

LEMMA LeftIs ==
  /\ [e \in Event |-> TicksLeft(e)] = Countdowns(h, phase)
  /\ [e \in Event |-> TicksLeft(e)]' = Countdowns(h', phase')
BY Zenon, TicksLeftIs DEF Countdowns

LEMMA OneCountdown ==
  ASSUME NEW ev \in Event, NEW g, NEW ph, OthersCount(h, g, ph, ev),
         \A e \in Event \ {ev} : LeftIn(h, ph, e) = LeftIn(h, phase, e)
  PROVE  Countdowns(g, ph) = [Countdowns(h, phase) EXCEPT ![ev] = LeftIn(g, ph, ev)]
BY DEF Countdowns, OthersCount

LEMMA TickStartTicks ==
  ASSUME TimeInv, TickStart
  PROVE  Promise!Tick
<1>1. /\ phase = "idle" /\ phase' = "loop" /\ asked' = asked
  BY DEF TickStart
<1>2. HeapClockOK(h, phase)
  BY DEF TimeInv
<1>3. \A e \in Event : LeftIn(h', phase', e) = IF Registered(h, e)
                                               THEN LeftIn(h, phase, e) - 1 ELSE NoTicks
  BY TickStartDoes
<1>4. \A e \in Event : /\ Registered(h, e) => LeftIn(h, phase, e) # NoTicks
                       /\ ~Registered(h, e) => LeftIn(h, phase, e) = NoTicks
  BY <1>2, LeftIsNumber DEF LeftIn
<1>5. Countdowns(h', phase') =
        [e \in Event |-> IF Countdowns(h, phase)[e] = NoTicks THEN NoTicks
                         ELSE Countdowns(h, phase)[e] - 1]
  BY <1>3, <1>4 DEF Countdowns
<1>6. QED
  BY <1>1, <1>5, LeftIs DEF Promise!Tick

LEMMA TimeInitCounts ==
  ASSUME TimeInit
  PROVE  Promise!Init
<1>1. /\ h = BootHeap /\ phase = "idle" /\ cycsta = {StaCyc[n] : n \in DOMAIN StaCyc}
      /\ evttim = [c \in Cyc |-> cycphs[c]]
      /\ asked = [e \in Event |-> IF e \in cycsta /\ cycphs[e] # 0 THEN cycphs[e] ELSE NoTicks]
  BY DEF TimeInit
<1>2. Booted(h, Len(StaCyc))
  BY InitTimeInv
<1>3. /\ HeapClockOK(h, phase) /\ h.min_time = 0 /\ h.current_time = 0 /\ SubTicksOf(h) = 0
      /\ \A e \in Event : /\ Registered(h, e) <=> \E i \in 1 .. Len(StaCyc) : StaCyc[i] = e
                          /\ Registered(h, e) => TimeOf(h, e) = cycphs[e]
  BY <1>1, <1>2 DEF Booted
<1>4. /\ DOMAIN StaCyc = 1 .. Len(StaCyc)
      /\ \A i \in 1 .. Len(StaCyc) : StaCyc[i] \in Cyc
  BY SystemTimeAssumption
<1>5. cycsta \in SUBSET Cyc /\ \A e \in Event : Registered(h, e) <=> e \in cycsta
  BY <1>1, <1>3, <1>4
<1>6. evttim \in [Cyc -> RELTIM] /\ \A c \in Cyc : evttim[c] = cycphs[c]
  BY <1>1, Kinds
<1>7. ASSUME NEW e \in Event
      PROVE  LeftIn(h, phase, e) = IF e \notin cycsta THEN NoTicks
                                   ELSE IF evttim[e] = 0 THEN 1 ELSE evttim[e] * TIC_DENO
  <2>1. CASE e \notin cycsta
    BY <1>5, <2>1 DEF LeftIn
  <2>2. CASE e \in cycsta
    <3>1. e \in Cyc /\ cycphs[e] \in RELTIM /\ Registered(h, e) /\ TimeOf(h, e) = evttim[e]
          /\ evttim[e] = cycphs[e]
      BY <1>3, <1>5, <1>6, <2>2, Kinds
    <3>2. HeapType(h) /\ ClockOK(h, "idle")
      BY <1>1, <1>3 DEF HeapClockOK, GoodHeap
    <3>3. LeftFor(h, "idle", cycphs[e]) = IF cycphs[e] = 0 THEN 1 ELSE cycphs[e] * TIC_DENO
      BY <1>3, <3>1, <3>2, BootTimes
    <3>4. QED
      BY <1>1, <2>2, <3>1, <3>3 DEF LeftIn
  <2>3. QED
    BY <2>1, <2>2
<1>8. Countdowns(h, phase) = [e \in Event |-> IF e \notin cycsta THEN NoTicks
                                ELSE IF evttim[e] = 0 THEN 1 ELSE evttim[e] * TIC_DENO]
  BY <1>7 DEF Countdowns
<1>9. asked = [e \in Event |-> IF e \in cycsta /\ evttim[e] # 0 THEN evttim[e] ELSE NoTicks]
  BY <1>1, <1>5, <1>6
<1>10. Promise!Time = RELTIM
  BY DEF Promise!Time, RELTIM
<1>11. phase # "idle" <=> FALSE
  BY <1>1
<1> DEFINE LeftAt(S, r)  == [e \in Event |-> IF e \notin S THEN NoTicks
                                             ELSE IF r[e] = 0 THEN 1 ELSE r[e] * TIC_DENO]
           AskedAt(S, r) == [e \in Event |-> IF e \in S /\ r[e] # 0 THEN r[e] ELSE NoTicks]
<1>12. [e \in Event |-> TicksLeft(e)] = LeftAt(cycsta, evttim) /\ asked = AskedAt(cycsta, evttim)
  BY <1>8, <1>9, LeftIs
<1>13. \E S \in SUBSET Cyc, r \in [Cyc -> Promise!Time] :
         [e \in Event |-> TicksLeft(e)] = LeftAt(S, r) /\ asked = AskedAt(S, r)
  <2> HIDE DEF LeftAt, AskedAt
  <2>1. QED
    BY <1>5, <1>6, <1>10, <1>12, Zenon
<1>14. QED
  BY <1>11, <1>13, Zenon DEF Promise!Init

LEMMA TickEndEnds ==
  ASSUME TimeInv, TickEnd
  PROVE  Promise!TickEnds
<1>1. /\ phase = "loop" /\ phase' = "idle" /\ asked' = asked
  BY DEF TickEnd
<1>2. \A e \in Event : /\ LeftIn(h', phase', e) = LeftIn(h, phase, e)
                       /\ LeftIn(h, phase, e) # 0
  BY TickEndDoes
<1>3. /\ Countdowns(h', phase') = Countdowns(h, phase)
      /\ \A e \in Event : Countdowns(h, phase)[e] # 0
  BY <1>2 DEF Countdowns
<1>4. QED
  BY <1>1, <1>3, LeftIs DEF Promise!TickEnds

LEMMA CallbackEndCounts ==
  ASSUME TimeInv, CallbackEnd
  PROVE  UNCHANGED Promise!cvars
<1>1. /\ phase = "callback" /\ phase' = "loop" /\ asked' = asked
  BY DEF CallbackEnd
<1>2. Countdowns(h', phase') = Countdowns(h, phase)
  BY CallbackEndDoes DEF Countdowns
<1>3. QED
  BY <1>1, <1>2, LeftIs DEF Promise!cvars

\* An event that goes off.
LEMMA DueEventCounts ==
  ASSUME TimeInv, NEW e, DueEvent(e), OthersCount(h, h', phase', e)
  PROVE  /\ phase # "idle" /\ phase' # "idle" /\ e \in Event
         /\ Countdowns(h, phase)[e] = 0
         /\ Countdowns(h', phase') = [Countdowns(h, phase) EXCEPT ![e] = LeftIn(h', phase', e)]
<1>1. /\ phase # "idle" /\ phase' # "idle" /\ e \in Event /\ LeftIn(h, phase, e) = 0
      /\ \A e2 : LeftIn(h, phase', e2) = LeftIn(h, phase, e2)
  BY DueEventIs
<1>2. QED
  BY <1>1, OneCountdown DEF Countdowns

LEMMA call_cychdrFires ==
  ASSUME TimeInv, Punctual, NEW c \in Cyc, call_cychdr(c)
  PROVE  Promise!Fire(c)
<1>1. DueEvent(c) /\ asked' = [asked EXCEPT ![c] = cyctim[c]]
  BY DEF call_cychdr
<1>2. OthersCount(h, h', phase', c)
  BY call_cychdrDoes
<1>3. /\ phase # "idle" /\ phase' # "idle" /\ Countdowns(h, phase)[c] = 0
      /\ Countdowns(h', phase') = [Countdowns(h, phase) EXCEPT ![c] = LeftIn(h', phase', c)]
  BY <1>1, <1>2, DueEventCounts
<1>4. LeftIn(h', phase', c) = cyctim[c] * TIC_DENO - Promise!Lateness(c)
  BY call_cychdrPunctual DEF Promise!Lateness
<1>5. cyctim[c] \in RELTIM \ {0}
  BY Kinds
<1>6. \E r \in RELTIM \ {0} :
        /\ asked' = [asked EXCEPT ![c] = r]
        /\ Countdowns(h', phase') =
             [Countdowns(h, phase) EXCEPT ![c] = r * TIC_DENO - Promise!Lateness(c)]
  BY <1>1, <1>3, <1>4, <1>5
<1>7. Promise!Time = RELTIM
  BY DEF Promise!Time, RELTIM
<1>8. UNCHANGED (phase # "idle")
  BY <1>3
<1>9. [e \in Event |-> TicksLeft(e)][c] = 0
  BY <1>3, LeftIs, Zenon
<1>10. QED
  BY <1>3, <1>6, <1>7, <1>8, <1>9, LeftIs, Zenon DEF Promise!Fire

LEMMA call_almhdrFires ==
  ASSUME TimeInv, NEW a \in Alm, call_almhdr(a)
  PROVE  Promise!Fire(a)
<1>1. DueEvent(a) /\ asked' = asked
  BY DEF call_almhdr
<1>2. OthersCount(h, h', phase', a) /\ LeftIn(h', phase', a) = NoTicks
  BY call_almhdrDoes
<1>3. /\ phase # "idle" /\ phase' # "idle" /\ Countdowns(h, phase)[a] = 0
      /\ Countdowns(h', phase') = [Countdowns(h, phase) EXCEPT ![a] = NoTicks]
  BY <1>1, <1>2, DueEventCounts
<1>4. a \notin Cyc
  BY Kinds
<1>5. QED
  BY <1>1, <1>3, <1>4, LeftIs DEF Promise!Fire

LEMMA wait_tmoutFires ==
  ASSUME TimeInv, NEW t \in Tmo, wait_tmout(t)
  PROVE  Promise!Fire(t)
<1>1. DueEvent(t) /\ asked' = asked
  BY DEF wait_tmout
<1>2. OthersCount(h, h', phase', t) /\ LeftIn(h', phase', t) = NoTicks
  BY wait_tmoutDoes
<1>3. /\ phase # "idle" /\ phase' # "idle" /\ Countdowns(h, phase)[t] = 0
      /\ Countdowns(h', phase') = [Countdowns(h, phase) EXCEPT ![t] = NoTicks]
  BY <1>1, <1>2, DueEventCounts
<1>4. t \notin Cyc
  BY Kinds
<1>5. QED
  BY <1>1, <1>3, <1>4, LeftIs DEF Promise!Fire

\* An event that is registered by a call, or taken out.
LEMMA Starts ==
  ASSUME NEW e \in Event, phase = "idle" \/ e \notin Cyc, phase' = phase,
         OthersCount(h, h', phase, e), NEW r \in RELTIM, asked' = [asked EXCEPT ![e] = r],
         \E more \in 1 .. TIC_DENO : LeftIn(h', phase, e) = r * TIC_DENO + more
  PROVE  Promise!Start(e)
<1>1. Countdowns(h', phase') = [Countdowns(h, phase) EXCEPT ![e] = LeftIn(h', phase, e)]
  BY OneCountdown
<1>2. \E r2 \in RELTIM, more \in 1 .. TIC_DENO :
        /\ asked' = [asked EXCEPT ![e] = r2]
        /\ Countdowns(h', phase') = [Countdowns(h, phase) EXCEPT ![e] = r2 * TIC_DENO + more]
  BY <1>1
<1>3. QED
  BY <1>2, LeftIs DEF Promise!Start, Promise!Time, RELTIM

LEMMA Stops ==
  ASSUME NEW e \in Event, phase' = phase, OthersCount(h, h', phase, e), asked' = asked,
         LeftIn(h', phase, e) = NoTicks
  PROVE  Promise!Stop(e)
<1>1. Countdowns(h', phase') = [Countdowns(h, phase) EXCEPT ![e] = LeftIn(h', phase, e)]
  BY OneCountdown
<1>2. QED
  BY <1>1, LeftIs DEF Promise!Stop

LEMMA TimeNextCounts ==
  ASSUME TimeInv, Punctual, [TimeNext]_tvars
  PROVE  [Promise!Next]_(Promise!cvars)
<1>1. CASE UNCHANGED tvars
  <2>1. h' = h /\ phase' = phase /\ asked' = asked
    BY <1>1 DEF tvars
  <2>2. QED
    BY <2>1, LeftIs, Zenon DEF Promise!cvars
<1>2. CASE SignalTime
  <2>1. CASE TickStart
    BY <2>1, TickStartTicks DEF Promise!Next
  <2>2. CASE CallbackEnd
    BY <2>2, CallbackEndCounts
  <2>3. CASE TickEnd
    BY <2>3, TickEndEnds DEF Promise!Next
  <2>4. ASSUME NEW c \in Cyc, call_cychdr(c) PROVE Promise!Next
    BY <2>4, call_cychdrFires, Kinds, Zenon DEF Promise!Next
  <2>5. ASSUME NEW a \in Alm, call_almhdr(a) PROVE Promise!Next
    BY <2>5, call_almhdrFires, Kinds, Zenon DEF Promise!Next
  <2>6. ASSUME NEW t \in Tmo, wait_tmout(t) PROVE Promise!Next
    BY <2>6, wait_tmoutFires, Kinds, Zenon DEF Promise!Next
  <2>7. QED
    BY <1>2, <2>1, <2>2, <2>3, <2>4, <2>5, <2>6, Zenon DEF SignalTime
<1>3. ASSUME NEW c \in Cyc, sta_cyc(c) \/ stp_cyc(c) PROVE Promise!Next
  <2>1. c \in Event /\ cycphs[c] \in RELTIM
    BY Kinds
  <2>2. CASE sta_cyc(c)
    <3>1. phase = "idle" /\ phase' = phase /\ asked' = [asked EXCEPT ![c] = cycphs[c]]
      BY <2>2 DEF sta_cyc, InTask
    <3>2. Promise!Start(c)
      BY <2>1, <2>2, <3>1, sta_cycDoes, Starts
    <3>3. QED
      BY <2>1, <3>2, Zenon DEF Promise!Next
  <2>3. CASE stp_cyc(c)
    <3>1. phase' = phase /\ asked' = asked
      BY <2>3 DEF stp_cyc
    <3>2. Promise!Stop(c)
      BY <2>1, <2>3, <3>1, stp_cycDoes, Stops
    <3>3. QED
      BY <2>1, <3>2, Zenon DEF Promise!Next
  <2>4. QED
    BY <1>3, <2>2, <2>3
<1>4. ASSUME NEW a \in Alm, stp_alm(a) \/ \E almtim \in RELTIM : sta_alm(a, almtim)
      PROVE  Promise!Next
  <2>1. a \in Event /\ a \notin Cyc
    BY Kinds
  <2>2. ASSUME NEW almtim \in RELTIM, sta_alm(a, almtim) PROVE Promise!Next
    <3>1. phase' = phase /\ asked' = [asked EXCEPT ![a] = almtim]
      BY <2>2 DEF sta_alm
    <3>2. Promise!Start(a)
      BY <2>1, <2>2, <3>1, sta_almDoes, Starts
    <3>3. QED
      BY <2>1, <3>2, Zenon DEF Promise!Next
  <2>3. CASE stp_alm(a)
    <3>1. phase' = phase /\ asked' = asked
      BY <2>3 DEF stp_alm
    <3>2. Promise!Stop(a)
      BY <2>1, <2>3, <3>1, stp_almDoes, Stops
    <3>3. QED
      BY <2>1, <3>2, Zenon DEF Promise!Next
  <2>4. QED
    BY <1>4, <2>2, <2>3
<1>5. ASSUME NEW t \in Tmo, wait_dequeue_tmevtb(t) \/ \E tmout \in RELTIM : make_wait_tmout(t, tmout)
      PROVE  Promise!Next
  <2>1. t \in Event /\ t \notin Cyc
    BY Kinds
  <2>2. ASSUME NEW tmout \in RELTIM, make_wait_tmout(t, tmout) PROVE Promise!Next
    <3>1. phase' = phase /\ asked' = [asked EXCEPT ![t] = tmout]
      BY <2>2 DEF make_wait_tmout
    <3>2. Promise!Start(t)
      BY <2>1, <2>2, <3>1, make_wait_tmoutDoes, Starts
    <3>3. QED
      BY <2>1, <3>2, Zenon DEF Promise!Next
  <2>3. CASE wait_dequeue_tmevtb(t)
    <3>1. phase' = phase /\ asked' = asked
      BY <2>3 DEF wait_dequeue_tmevtb
    <3>2. Promise!Stop(t)
      BY <2>1, <2>3, <3>1, wait_dequeueDoes, Stops
    <3>3. QED
      BY <2>1, <3>2, Zenon DEF Promise!Next
  <2>4. QED
    BY <1>5, <2>2, <2>3
<1>6. QED
  BY <1>1, <1>2, <1>3, <1>4, <1>5, Zenon DEF TimeNext

\* The heap with its modular times and its rounding is a set of countdowns: an
\* event goes off in the tick in which its countdown ends and no tick ends before
\* those that are due have gone off.
THEOREM SystemTime_ImplementsCountdown == TimeSpec => ImplementsCountdown
<1>1. TimeInit => Promise!Init
  BY TimeInitCounts
<1>2. TimeInv /\ Punctual /\ [TimeNext]_tvars => [Promise!Next]_(Promise!cvars)
  BY TimeNextCounts
<1>3. QED
  BY <1>1, <1>2, TimeInvHolds, AlwaysPunctual, PTL DEF TimeSpec, ImplementsCountdown, Promise!Spec

-----------------------------------------------------------------------------
(***************************************************************************)
(* get_utm returns the time at which it reads the counter, for any length  *)
(* of a tick.  Callers are tasks and handlers of time events; a handler    *)
(* above the timer's can be a tick behind.                                 *)
(***************************************************************************)
\* Division with remainder, and that it is unique.
LEMMA Division ==
  ASSUME NEW p \in Nat, p > 0, NEW t \in Nat
  PROVE  /\ t % p \in Nat /\ t % p < p /\ t \div p \in Nat
         /\ t = (p * (t \div p)) + (t % p)
<1>1. t % p \in Nat /\ t % p < p
  BY Z3
<1>2. t \div p \in Nat
  BY Z3
<1>3. t = (p * (t \div p)) + (t % p)
  BY Z3
<1>4. QED
  BY <1>1, <1>2, <1>3

LEMMA Remainder ==
  ASSUME NEW p \in Nat, p > 0, NEW q \in Nat, NEW r \in Nat, r < p
  PROVE  ((p * q) + r) % p = r
  BY Z3

\* Counting by one.
LEMMA NextRemainder ==
  ASSUME NEW p \in Nat, p > 0, NEW t \in Nat
  PROVE  (t + 1) % p = IF t % p = p - 1 THEN 0 ELSE (t % p) + 1
<1> DEFINE q == t \div p
           r == t % p
<1>1. r \in Nat /\ r < p /\ q \in Nat /\ t = (p * q) + r
  BY Division
<1> HIDE DEF q, r
<1>2. CASE r = p - 1
  <2>1. t + 1 = (p * (q + 1)) + 0
    BY <1>1, <1>2
  <2>2. ((p * (q + 1)) + 0) % p = 0
    BY <1>1, Remainder
  <2>3. QED
    BY <1>2, <2>1, <2>2 DEF r
<1>3. CASE r # p - 1
  <2>1. t + 1 = (p * q) + (r + 1) /\ r + 1 \in Nat /\ r + 1 < p
    BY <1>1, <1>3
  <2>2. ((p * q) + (r + 1)) % p = r + 1
    BY <1>1, <2>1, Remainder
  <2>3. QED
    BY <1>3, <2>1, <2>2 DEF r
<1>4. QED
  BY <1>2, <1>3

-----------------------------------------------------------------------------
\* When the tick began that contains the time t.
TickOf(t) == t - (t % PERIOD)

\* A tick has PERIOD counts, and the counter shows how many have passed.
LEMMA Counts ==
  ASSUME NEW t \in Nat
  PROVE  /\ t % PERIOD \in Nat /\ t % PERIOD < PERIOD
         /\ TickOf(t) \in Nat /\ TickOf(t) + (t % PERIOD) = t
<1>1. PERIOD \in Nat \ {0}
  BY PerfTimeAssumption
<1>2. t % PERIOD \in Nat /\ t % PERIOD < PERIOD /\ t % PERIOD <= t
  BY <1>1, Z3
<1>3. QED
  BY <1>2 DEF TickOf

\* The next count is of the same tick, or the first of the next one.
LEMMA NextCount ==
  ASSUME NEW t \in Nat
  PROVE  TickOf(t + 1) = IF (t + 1) % PERIOD = 0 THEN TickOf(t) + PERIOD ELSE TickOf(t)
<1> DEFINE r  == t % PERIOD
           r2 == (t + 1) % PERIOD
<1>1. PERIOD \in Nat /\ PERIOD > 0
  BY PerfTimeAssumption
<1>2. r \in Nat
  BY Counts
<1>3. r2 = IF r = PERIOD - 1 THEN 0 ELSE r + 1
  BY <1>1, NextRemainder
<1> HIDE DEF r, r2
<1>4. (t + 1) - r2 = IF r2 = 0 THEN (t - r) + PERIOD ELSE t - r
  BY <1>1, <1>2, <1>3
<1>5. QED
  BY <1>4 DEF TickOf, r, r2

-----------------------------------------------------------------------------
\* next_time is the end of the tick being counted if signal_time has run for it.
TimerInv ==
  /\ now \in Nat /\ ireq \in BOOLEAN /\ timer \in {"none", "entered", "served"}
  /\ ireq \/ timer = "entered" => next_time = TickOf(now)
  /\ ~ireq /\ timer # "entered" => next_time = TickOf(now) + PERIOD
  /\ timer = "entered" => ~ireq

GetType ==
  get \in [at : {"idle", "time", "clock1", "ireq"}, since : Nat, time : Nat,
           clock1 : Nat, read1 : Nat, ireq : BOOLEAN]

\* During a call next_time stays, and the counter starts again at most once.
CallInv ==
  get.at # "idle" =>
    /\ timer # "entered" /\ get.time = next_time
    /\ get.since <= now /\ now < get.since + PERIOD

\* The first reading was in the tick that next_time ends, or in the one after.
ReadingInv ==
  get.at \in {"clock1", "ireq"} =>
    /\ get.since <= get.read1 /\ get.read1 <= now
    /\ get.clock1 = get.read1 % PERIOD
    /\ \/ TickOf(get.read1) = get.time /\ ireq
       \/ TickOf(get.read1) + PERIOD = get.time

\* The request was there when it was probed, or the reading was before it.
ProbedInv ==
  get.at = "ireq" =>
    /\ get.ireq => ireq
    /\ ~get.ireq => TickOf(get.read1) + PERIOD = get.time

ClockInv == TimerInv /\ GetType /\ CallInv /\ ReadingInv /\ ProbedInv /\ ReadsTheTime

\* No tick has passed and no call has been made.
LEMMA ClockInitInv == ClockInit => ClockInv
<1> SUFFICES ASSUME ClockInit
             PROVE  ClockInv
  OBVIOUS
<1>1. PERIOD \in Nat \ {0}
  BY PerfTimeAssumption
<1>2. now = 0 /\ ~ireq /\ ireq = FALSE /\ timer = "none" /\ next_time = PERIOD
  BY DEF ClockInit
<1>3. TickOf(0) = 0
  BY <1>1, Counts
<1>4. TimerInv
  <2>1. TickOf(now) + PERIOD = PERIOD
    BY <1>1, <1>2, <1>3
  <2>2. QED
    BY <1>2, <2>1 DEF TimerInv
<1>5. get.at = "idle" /\ get = Idle /\ ReadsTheTime
  BY DEF ClockInit, ReadsTheTime, Idle
<1>6. GetType
  BY <1>5 DEF GetType, Idle
<1>7. QED
  BY <1>4, <1>5, <1>6 DEF ClockInv, CallInv, ReadingInv, ProbedInv

\* The counter goes on; a call in progress sees at most one new tick.
LEMMA CountInv ==
  ASSUME ClockInv, Count
  PROVE  ClockInv'
<1>1. PERIOD \in Nat \ {0}
  BY PerfTimeAssumption
<1>2. now \in Nat /\ now' = now + 1
  BY DEF ClockInv, TimerInv, Count
<1> DEFINE wraps == now' % PERIOD = 0
<1>3. TickOf(now') = IF wraps THEN TickOf(now) + PERIOD ELSE TickOf(now)
  BY <1>2, NextCount
<1>4. TickOf(now) \in Nat /\ TickOf(now') \in Nat
  <2> HIDE DEF wraps
  <2>1. now' \in Nat
    BY <1>2
  <2>2. \A n \in Nat : TickOf(n) \in Nat
    BY Counts, Zenon
  <2>3. QED
    BY <1>2, <2>1, <2>2, Zenon
<1>5. /\ wraps => ~ireq /\ timer # "entered"
      /\ get.at # "idle" => now' - get.since < PERIOD
      /\ timer' = timer /\ next_time' = next_time /\ get' = get /\ sysutm' = sysutm
  BY <1>2 DEF Count
<1>6. ireq' = (ireq \/ wraps)
  BY <1>2, Zenon DEF Count
<1> HIDE DEF wraps
<1>7. ireq' \in BOOLEAN /\ (ireq' <=> ireq \/ wraps)
  BY <1>6, Zenon
<1>8. TimerInv'
  BY <1>1, <1>2, <1>3, <1>4, <1>5, <1>7 DEF ClockInv, TimerInv
<1>9. GetType' /\ ReadsTheTime'
  BY <1>5 DEF ClockInv, GetType, ReadsTheTime
<1>10. CallInv'
  BY <1>1, <1>2, <1>5 DEF ClockInv, CallInv, GetType
<1>11. ReadingInv'
  BY <1>2, <1>5, <1>7 DEF ClockInv, ReadingInv, GetType
<1>12. ProbedInv'
  BY <1>5, <1>7 DEF ClockInv, ProbedInv
<1>13. QED
  BY <1>8, <1>9, <1>10, <1>11, <1>12 DEF ClockInv

\* The timer's interrupt is served while no call is in progress.
LEMMA TimerStepInv ==
  ASSUME ClockInv, TimerEntry \/ signal_time \/ TimerExit
  PROVE  ClockInv'
<1>1. PERIOD \in Nat \ {0}
  BY PerfTimeAssumption
<1>2. get.at = "idle" /\ now' = now /\ get' = get /\ sysutm' = sysutm
  BY DEF TimerEntry, signal_time, TimerExit
<1>3. TickOf(now) \in Nat
  BY Counts DEF ClockInv, TimerInv
<1>4. TimerInv'
  <2>1. CASE TimerEntry
    BY <1>2, <2>1 DEF ClockInv, TimerInv, TimerEntry
  <2>2. CASE signal_time
    BY <1>1, <1>2, <1>3, <2>2 DEF ClockInv, TimerInv, signal_time
  <2>3. CASE TimerExit
    BY <1>2, <2>3 DEF ClockInv, TimerInv, TimerExit
  <2>4. QED
    BY <2>1, <2>2, <2>3
<1>5. QED
  BY <1>2, <1>4
     DEF ClockInv, GetType, CallInv, ReadingInv, ProbedInv, ReadsTheTime

\* The call starts when no tick is between its entry and signal_time.
LEMMA ReadTimeInv ==
  ASSUME ClockInv, ReadTime, "urgent" \notin Caller
  PROVE  ClockInv'
<1>1. PERIOD \in Nat \ {0}
  BY PerfTimeAssumption
<1>2. timer # "entered"
  BY PerfTimeAssumption DEF ReadTime, MayCall
<1>3. now \in Nat /\ TickOf(now) \in Nat /\ next_time \in Nat
  <2>1. now \in Nat /\ TickOf(now) \in Nat
    BY Counts DEF ClockInv, TimerInv
  <2>2. QED
    BY <1>1, <2>1 DEF ClockInv, TimerInv
<1>4. /\ now' = now /\ ireq' = ireq /\ timer' = timer /\ next_time' = next_time
      /\ sysutm' = sysutm
      /\ get' = [at |-> "time", since |-> now, time |-> next_time, clock1 |-> 0,
                 read1 |-> 0, ireq |-> FALSE]
  BY DEF ReadTime, Idle
<1>5. TimerInv' /\ ReadsTheTime'
  BY <1>4 DEF ClockInv, TimerInv, ReadsTheTime
<1>6. get'.at = "time" /\ get'.since = now /\ get'.time = next_time
  BY <1>4
<1>7. GetType'
  BY <1>3, <1>4 DEF GetType
<1>8. CallInv'
  BY <1>1, <1>2, <1>3, <1>4, <1>6 DEF CallInv
<1>9. ReadingInv' /\ ProbedInv'
  BY <1>6 DEF ReadingInv, ProbedInv
<1>10. QED
  BY <1>5, <1>7, <1>8, <1>9 DEF ClockInv

\* The first reading of the counter.
LEMMA ReadClock1Inv ==
  ASSUME ClockInv, ReadClock1
  PROVE  ClockInv'
<1>1. PERIOD \in Nat \ {0}
  BY PerfTimeAssumption
<1>2. /\ get.at = "time" /\ now' = now /\ ireq' = ireq /\ timer' = timer
      /\ next_time' = next_time /\ sysutm' = sysutm
      /\ get' = [get EXCEPT !.at = "clock1", !.clock1 = now % PERIOD, !.read1 = now]
  BY DEF ReadClock1, target_timer_get_current
<1>3. now % PERIOD \in Nat /\ TickOf(now) \in Nat /\ now \in Nat
  BY Counts DEF ClockInv, TimerInv
<1>4. TimerInv' /\ ReadsTheTime'
  BY <1>2 DEF ClockInv, TimerInv, ReadsTheTime
<1>5. GetType'
  BY <1>2, <1>3 DEF ClockInv, GetType
<1>6. /\ get'.at = "clock1" /\ get'.read1 = now /\ get'.clock1 = now % PERIOD
      /\ get'.since = get.since /\ get'.time = get.time
  BY <1>2 DEF ClockInv, GetType
<1>7. CallInv'
  BY <1>2, <1>6 DEF ClockInv, CallInv
<1>8. (TickOf(now) = get.time /\ ireq) \/ TickOf(now) + PERIOD = get.time
  BY <1>2 DEF ClockInv, CallInv, TimerInv
<1>9. ReadingInv'
  BY <1>2, <1>3, <1>6, <1>8 DEF ClockInv, ReadingInv, CallInv
<1>10. ProbedInv'
  BY <1>6 DEF ProbedInv
<1>11. QED
  BY <1>4, <1>5, <1>7, <1>9, <1>10 DEF ClockInv

\* The probe of the request.
LEMMA ProbeInv ==
  ASSUME ClockInv, target_timer_probe_int
  PROVE  ClockInv'
<1>1. /\ get.at = "clock1" /\ now' = now /\ ireq' = ireq /\ timer' = timer
      /\ next_time' = next_time /\ sysutm' = sysutm
      /\ get' = [get EXCEPT !.at = "ireq", !.ireq = ireq]
  BY DEF target_timer_probe_int
<1>2. TimerInv' /\ ReadsTheTime'
  BY <1>1 DEF ClockInv, TimerInv, ReadsTheTime
<1>3. ireq \in BOOLEAN
  BY DEF ClockInv, TimerInv
<1>4. GetType'
  BY <1>1, <1>3 DEF ClockInv, GetType
<1>5. /\ get'.at = "ireq" /\ get'.ireq = ireq /\ get'.read1 = get.read1
      /\ get'.clock1 = get.clock1 /\ get'.since = get.since /\ get'.time = get.time
  BY <1>1 DEF ClockInv, GetType
<1>6. CallInv' /\ ReadingInv'
  BY <1>1, <1>5 DEF ClockInv, CallInv, ReadingInv
<1>7. ProbedInv'
  BY <1>1, <1>5 DEF ClockInv, ReadingInv, ProbedInv
<1>8. QED
  BY <1>2, <1>4, <1>6, <1>7 DEF ClockInv

\* The second reading tells whether the request came before or after the first.
LEMMA ReadClock2Inv ==
  ASSUME ClockInv, ReadClock2
  PROVE  ClockInv'
<1> DEFINE clock2 == now % PERIOD
<1>1. PERIOD \in Nat \ {0}
  BY PerfTimeAssumption
<1>2. /\ get.at = "ireq" /\ get' = Idle /\ UNCHANGED << now, ireq, timer, next_time >>
      /\ sysutm' = [value |-> utime(clock2), read |-> get.read1]
  BY DEF ReadClock2, target_timer_get_current
<1>3. TimerInv' /\ GetType' /\ CallInv' /\ ReadingInv' /\ ProbedInv'
  BY <1>2 DEF ClockInv, TimerInv, GetType, CallInv, ReadingInv, ProbedInv, Idle
<1>4. /\ now \in Nat /\ get.read1 \in Nat /\ get.since \in Nat /\ get.clock1 \in Nat
      /\ get.since <= get.read1 /\ get.read1 <= now /\ now < get.since + PERIOD
      /\ get.clock1 = get.read1 % PERIOD
      /\ ireq => get.time = TickOf(now)
      /\ ~ireq => get.time = TickOf(now) + PERIOD
      /\ \/ TickOf(get.read1) = get.time /\ ireq
         \/ TickOf(get.read1) + PERIOD = get.time
      /\ get.ireq => ireq
      /\ ~get.ireq => TickOf(get.read1) + PERIOD = get.time
  BY <1>2 DEF ClockInv, TimerInv, GetType, CallInv, ReadingInv, ProbedInv
<1>5. /\ TickOf(now) \in Nat /\ clock2 \in Nat /\ TickOf(now) + clock2 = now
      /\ TickOf(get.read1) \in Nat /\ TickOf(get.read1) + get.clock1 = get.read1
      /\ clock2 < PERIOD
  BY <1>4, Counts
<1> HIDE DEF clock2
<1>6. utime(clock2) = get.read1
  <2>1. CASE ~get.ireq
    BY <1>1, <1>4, <1>5, <2>1 DEF utime
  <2>2. CASE get.ireq /\ TickOf(get.read1) = get.time
    BY <1>1, <1>4, <1>5, <2>2 DEF utime
  <2>3. CASE get.ireq /\ TickOf(get.read1) + PERIOD = get.time
    BY <1>1, <1>4, <1>5, <2>3 DEF utime
  <2>4. QED
    BY <1>4, <2>1, <2>2, <2>3
<1>7. ReadsTheTime'
  BY <1>2, <1>6 DEF ReadsTheTime
<1>8. QED
  BY <1>3, <1>7 DEF ClockInv

\* What get_utm returns is the time of its first reading, whatever happens to the
\* tick in between, unless a handler above the timer's calls it.
THEOREM Clock_ReadsTheTime ==
  "urgent" \notin Caller => (ClockInit /\ [][ClockNext]_pvars => []ReadsTheTime)
<1> SUFFICES ASSUME "urgent" \notin Caller
             PROVE  ClockInit /\ [][ClockNext]_pvars => []ReadsTheTime
  OBVIOUS
<1>1. ClockInv /\ [ClockNext]_pvars => ClockInv'
  <2>1. CASE UNCHANGED pvars
    BY <2>1 DEF ClockInv, TimerInv, GetType, CallInv, ReadingInv, ProbedInv,
                   ReadsTheTime, pvars
  <2>2. QED
    BY <2>1, CountInv, TimerStepInv, ReadTimeInv, ReadClock1Inv, ProbeInv, ReadClock2Inv
       DEF ClockNext, get_utm
<1>2. ClockInv => ReadsTheTime
  BY DEF ClockInv
<1>3. QED
  BY <1>1, <1>2, ClockInitInv, PTL
=============================================================================
