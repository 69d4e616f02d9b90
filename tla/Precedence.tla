----------------------------- MODULE Precedence -----------------------------
(***************************************************************************)
(* What the ready queue promises to the rest of the kernel: one list of    *)
(* the tasks that can run, in the order of their precedence (higher        *)
(* priority first, and within a priority the order of arrival, as changed  *)
(* by mutexes and rotations), and the task at its head.                    *)
(***************************************************************************)
EXTENDS Integers, Sequences, SequencesExt

CONSTANTS Task, NoTask, MaxPri, ipriority

VARIABLES order,  \* the runnable tasks, highest precedence first
          pri,    \* the priority of each task
          first   \* the task that should run

pvars == << order, pri, first >>

First(o) == IF o = << >> THEN NoTask ELSE Head(o)

\* What o becomes when t goes behind all tasks of priority p and higher, or ahead
\* of all of priority p and lower.
Behind(o, prio, t, p, o2) ==
  \E i \in 1 .. Len(o) + 1 : /\ \A j \in DOMAIN o : j < i <=> prio[o[j]] <= p
                             /\ o2 = InsertAt(o, i, t)
Ahead(o, prio, t, p, o2) ==
  \E i \in 1 .. Len(o) + 1 : /\ \A j \in DOMAIN o : j < i <=> prio[o[j]] < p
                             /\ o2 = InsertAt(o, i, t)

Init == order = << >> /\ pri = ipriority /\ first = NoTask

Enter(t) ==
  /\ t \notin ToSet(order)
  /\ Behind(order, pri, t, pri[t], order')
  /\ UNCHANGED pri

Leave(t) ==
  /\ \E i \in DOMAIN order : order[i] = t /\ order' = RemoveAt(order, i)
  /\ UNCHANGED pri

Reprioritize(t, p, ahead) ==
  /\ pri' = [pri EXCEPT ![t] = p]
  /\ IF t \notin ToSet(order) THEN order' = order
     ELSE \E i \in DOMAIN order :
            /\ order[i] = t
            /\ IF ahead THEN Ahead(RemoveAt(order, i), pri, t, p, order')
               ELSE Behind(RemoveAt(order, i), pri, t, p, order')

\* The first of priority p becomes its last.
Rotate(p) ==
  /\ \E i \in DOMAIN order :
       /\ pri[order[i]] = p /\ \A j \in 1 .. i - 1 : pri[order[j]] # p
       /\ Behind(RemoveAt(order, i), pri, order[i], p, order')
  /\ UNCHANGED pri

Next ==
  /\ \/ \E t \in Task : \/ Enter(t) \/ Leave(t)
                        \/ \E p \in 0 .. MaxPri, b \in BOOLEAN : Reprioritize(t, p, b)
     \/ \E p \in 0 .. MaxPri : Rotate(p)
  /\ first' = First(order')

Spec == Init /\ [][Next]_pvars
=============================================================================
