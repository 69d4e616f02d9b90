------------------------------ MODULE TimeEvent ------------------------------
(***************************************************************************)
(* The heap of time events (kernel/time_event.c), as functions on          *)
(*                                                                         *)
(*   h == [node  |-> Seq([time, tmevtb]),  tmevt_heap[0 .. last_index - 1] *)
(*         index |-> [Event -> Nat],       TMEVTB.index                    *)
(*         min_time, current_time, next_time, next_subtime]                *)
(*                                                                         *)
(* Event times are unsigned numbers of EVTTIM's width: arithmetic is       *)
(* modulo EVTTIM_MOD and comparison is relative to min_time.  The code     *)
(* leaves the index of an event that is not registered as it was and does  *)
(* not use it; here it is 0.                                               *)
(***************************************************************************)
EXTENDS Naturals, Sequences

CONSTANTS Event,        \* the time event blocks
          EVTTIM_MOD,   \* 2^w for the width w of EVTTIM
          TIC_DENO      \* ticks per millisecond (TIC_NUME is 1)

ASSUME TimeEventAssumption == EVTTIM_MOD \in Nat \ {0} /\ TIC_DENO \in Nat \ {0}

EVTTIM == 0 .. EVTTIM_MOD - 1

\* Unsigned addition and subtraction.
Plus(a, b)  == (a + b) % EVTTIM_MOD
Minus(a, b) == (a + EVTTIM_MOD - b) % EVTTIM_MOD

\* Mutant: event times are compared as numbers.
EVTTIM_LT_absolute(h, t1, t2) == t1 < t2

EVTTIM_LT(h, t1, t2) == Minus(t1, h.min_time) < Minus(t2, h.min_time)
EVTTIM_LE(h, t1, t2) == Minus(t1, h.min_time) <= Minus(t2, h.min_time)

\* The time that relative times are relative to: next_time rounded up.
base_time(h) == IF h.next_subtime > 0 THEN Plus(h.next_time, 1) ELSE h.next_time

last_index(h) == Len(h.node)
Registered(h, e) == h.index[e] # 0

InitHeap == [node |-> << >>, index |-> [e \in Event |-> 0],
             min_time |-> 0, current_time |-> 0,
             next_time |-> 1 \div TIC_DENO, next_subtime |-> 1 % TIC_DENO]

-----------------------------------------------------------------------------
PARENT(i) == i \div 2
LCHILD(i) == 2 * i

\* Where the hole at index ends when it is moved up for an event at time.
tmevt_up(h, index, time) ==
  LET up[i \in 1 .. index] ==
        IF i > 1 /\ ~EVTTIM_LE(h, h.node[PARENT(i)].time, time) THEN up[PARENT(i)] ELSE i
  IN  up[index]

\* The child with the earlier event, among the first last nodes.
EarlierChild(h, i, last) ==
  IF LCHILD(i) + 1 <= last
       /\ EVTTIM_LT(h, h.node[LCHILD(i) + 1].time, h.node[LCHILD(i)].time)
  THEN LCHILD(i) + 1 ELSE LCHILD(i)

\* Where the hole at index ends when it is moved down.
tmevt_down(h, index, time, last) ==
  LET down[i \in index .. last + 1] ==
        LET child == EarlierChild(h, i, last)
        IN  IF LCHILD(i) <= last /\ EVTTIM_LT(h, h.node[child].time, time)
            THEN down[child] ELSE i
  IN  down[index]

\* i and all nodes above it.
SelfAndAncestors(i) ==
  LET above[j \in 0 .. i] == IF j = 0 THEN {} ELSE {j} \cup above[PARENT(j)]
  IN  above[i]

\* The nodes on the way of a hole from one place to another below or above it.
Path(from, to) ==
  IF from >= to THEN {i \in SelfAndAncestors(from) : i >= to}
  ELSE {i \in SelfAndAncestors(to) : i >= from}

\* Mutant: the index of a node that moves is not updated.
MoveHole_keeps_index(h, from, to, e) ==
  LET before(i) == IF from > to THEN PARENT(i)
                   ELSE CHOOSE j \in Path(from, to) : PARENT(j) = i
  IN  [h EXCEPT !.node = [i \in DOMAIN @ |->
                            IF i = to THEN e
                            ELSE IF i \in Path(from, to) THEN @[before(i)] ELSE @[i]],
                !.index[e.tmevtb] = to]

\* The nodes on the path of the hole move by one place the other way, e fills
\* the hole in the end, and the event blocks are told their new places.
MoveHole(h, from, to, e) ==
  LET before(i) == IF from > to THEN PARENT(i)
                   ELSE CHOOSE j \in Path(from, to) : PARENT(j) = i
      node == [i \in DOMAIN h.node |->
                 IF i = to THEN e
                 ELSE IF i \in Path(from, to) THEN h.node[before(i)] ELSE h.node[i]]
      moved(ev) == {i \in Path(from, to) : node[i].tmevtb = ev}
  IN  [h EXCEPT !.node  = node,
                !.index = [ev \in Event |-> IF moved(ev) = {} THEN @[ev]
                                            ELSE CHOOSE i \in moved(ev) : TRUE]]

tmevtb_insert(h, ev, time) ==
  LET e  == [time |-> time, tmevtb |-> ev]
      h2 == [h EXCEPT !.node = Append(@, e)]
      at == last_index(h2)
  IN  MoveHole(h2, at, tmevt_up(h2, at, time), e)

tmevtb_enqueue(h, ev, reltim) == tmevtb_insert(h, ev, Plus(base_time(h), reltim))

\* The last node goes; its event fills the hole that ends at to.
RemoveInto(h, index, to) ==
  LET last  == last_index(h)
      ev    == h.node[index].tmevtb
      filled == IF index = last THEN h ELSE MoveHole(h, index, to, h.node[last])
  IN  [filled EXCEPT !.node = SubSeq(@, 1, last - 1), !.index[ev] = 0]

\* Mutant: the hole is only moved down.
tmevtb_delete_down_only(h, ev) ==
  LET index == h.index[ev]
      last  == last_index(h)
  IN  RemoveInto(h, index, tmevt_down(h, index, h.node[last].time, last - 1))

\* The last event takes the place of ev, then goes up or down from there.
tmevtb_delete(h, ev) ==
  LET index == h.index[ev]
      last  == last_index(h)
      time  == h.node[last].time
      to    == IF index > 1 /\ EVTTIM_LT(h, time, h.node[PARENT(index)].time)
               THEN tmevt_up(h, PARENT(index), time)
               ELSE tmevt_down(h, index, time, last - 1)
  IN  RemoveInto(h, index, to)

tmevtb_delete_top(h) ==
  LET last == last_index(h)
  IN  RemoveInto(h, 1, tmevt_down(h, 1, h.node[last].time, last - 1))

\* Mutant: relative to the next tick even when that is not a whole millisecond.
tmevt_lefttim_next(h, ev) ==
  LET time == h.node[h.index[ev]].time
  IN  IF EVTTIM_LE(h, time, h.next_time) THEN 0 ELSE Minus(time, h.next_time)

tmevt_lefttim(h, ev) ==
  LET time == h.node[h.index[ev]].time
  IN  IF EVTTIM_LE(h, time, h.next_time) THEN 0 ELSE Minus(time, base_time(h))

-----------------------------------------------------------------------------
\* Mutant: a fraction of a millisecond is lost when the millisecond is full.
advance_time_truncates(h) ==
  [h EXCEPT !.current_time = h.next_time,
            !.next_time = Plus(@, 1 \div TIC_DENO),
            !.next_subtime = (@ + (1 % TIC_DENO)) % TIC_DENO]

\* The first part of signal_time: the tick that was next is now.
advance_time(h) ==
  LET subtime == h.next_subtime + (1 % TIC_DENO)
      whole   == Plus(h.next_time, 1 \div TIC_DENO)
  IN  [h EXCEPT !.current_time = h.next_time,
                !.next_time    = IF subtime >= TIC_DENO THEN Plus(whole, 1) ELSE whole,
                !.next_subtime = subtime % TIC_DENO]

\* The condition of its loop, and the end.
SomeEventDue(h) == last_index(h) > 0 /\ EVTTIM_LE(h, h.node[1].time, h.current_time)

end_of_tick(h) == [h EXCEPT !.min_time = h.current_time]

-----------------------------------------------------------------------------
\* The parent of a node is not later, relative to min_time; every registered
\* event knows its node, and the others have none.
HeapOK(h) ==
  /\ \A i \in 2 .. last_index(h) : EVTTIM_LE(h, h.node[PARENT(i)].time, h.node[i].time)
  /\ \A i \in 1 .. last_index(h) : h.index[h.node[i].tmevtb] = i
  /\ \A e \in Event : Registered(h, e) =>
        h.index[e] \in DOMAIN h.node /\ h.node[h.index[e]].tmevtb = e
=============================================================================
