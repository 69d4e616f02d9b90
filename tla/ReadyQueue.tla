----------------------------- MODULE ReadyQueue -----------------------------
(***************************************************************************)
(* The ready queue of the kernel (kernel/task.c), as operators on a record *)
(*                                                                         *)
(*   rq == [ready_queue  |-> [Pri -> Seq(Task)],  \* one list per priority *)
(*          ready_primap |-> SUBSET Pri,          \* the 16-bit bitmap     *)
(*          schedtsk     |-> Task or NoTask,      \* p_schedtsk            *)
(*          priority     |-> [Task -> Pri]]       \* TCB.priority          *)
(*                                                                         *)
(* Priority 0 is the highest (INT_PRIORITY maps TMIN_TPRI to 0).  The C    *)
(* functions return dspflg on exactly the paths that assign a new task to  *)
(* p_schedtsk and false on the others: NewSchedule compares p_schedtsk     *)
(* before and after a call, and the callers conjoin it with dspflg.        *)
(***************************************************************************)
EXTENDS Integers, Sequences, FiniteSets, SequencesExt

CONSTANTS Task,     \* the tasks (TCBs)
          NoTask,   \* NULL
          MaxPri    \* the lowest priority, TNUM_TPRI - 1

ASSUME NoTaskAssumption == NoTask \notin Task
ASSUME MaxPriAssumption == MaxPri \in Nat

Pri == 0 .. MaxPri

ReadyQueueType ==
  [ready_queue  : [Pri -> Seq(Task)],
   ready_primap : SUBSET Pri,
   schedtsk     : Task \cup {NoTask},
   priority     : [Task -> Pri]]

-----------------------------------------------------------------------------
\* queue_delete of include/queue.h: unlink the entry, the others keep their order.
queue_delete(q, t) == RemoveAt(q, CHOOSE i \in DOMAIN q : q[i] = t)

\* bitmap_search finds the lowest bit that is set.
primap_search(primap) == CHOOSE p \in primap : \A r \in primap : p <= r

search_schedtsk(queue, primap) == Head(queue[primap_search(primap)])

NewSchedule(before, after) == before.schedtsk # after.schedtsk

\* Mutant: the bit of TCB.priority + 1, the priority that the application sees.
make_runnable_external_pri(rq, t) ==
  [rq EXCEPT !.ready_queue[rq.priority[t]] = Append(@, t),
             !.ready_primap = @ \cup {rq.priority[t] + 1}]

\* Mutant: a task of the same priority takes the place of p_schedtsk.
make_runnable_preempts_equal(rq, t) ==
  [rq EXCEPT !.ready_queue[rq.priority[t]] = Append(@, t),
             !.ready_primap = @ \cup {rq.priority[t]},
             !.schedtsk = IF @ = NoTask \/ rq.priority[t] <= rq.priority[@] THEN t ELSE @]

make_runnable(rq, t) ==
  LET pri == rq.priority[t]
  IN  [rq EXCEPT
        !.ready_queue[pri] = Append(@, t),
        !.ready_primap = @ \cup {pri},
        !.schedtsk = IF @ = NoTask \/ pri < rq.priority[@] THEN t ELSE @]

\* Mutant: neither the bitmap nor p_schedtsk follows the list.
make_non_runnable_stale(rq, t) ==
  [rq EXCEPT !.ready_queue[rq.priority[t]] = queue_delete(@, t)]

make_non_runnable(rq, t) ==
  LET pri    == rq.priority[t]
      left   == queue_delete(rq.ready_queue[pri], t)
      queue  == [rq.ready_queue EXCEPT ![pri] = left]
      primap == rq.ready_primap \ (IF left = << >> THEN {pri} ELSE {})
  IN  [rq EXCEPT
        !.ready_queue = queue,
        !.ready_primap = primap,
        !.schedtsk = IF @ # t THEN @
                     ELSE IF left # << >> THEN Head(left)
                     ELSE IF primap = {} THEN NoTask
                     ELSE search_schedtsk(queue, primap)]

(***************************************************************************)
(* change_priority for a runnable task: it becomes the first of its new    *)
(* priority when a mutex changed it (mtxmode) and the last otherwise.      *)
(***************************************************************************)
requeue(rq, t, newpri, mtxmode) ==
  LET oldpri == rq.priority[t]
      left   == queue_delete(rq.ready_queue[oldpri], t)
      others == [rq.ready_queue EXCEPT ![oldpri] = left]
      clear  == rq.ready_primap \ (IF left = << >> THEN {oldpri} ELSE {})
      queue  == [others EXCEPT ![newpri] = IF mtxmode THEN << t >> \o @
                                                      ELSE Append(@, t)]
      primap == clear \cup {newpri}
      above  == IF mtxmode THEN newpri <= rq.priority[rq.schedtsk]
                           ELSE newpri < rq.priority[rq.schedtsk]
  IN  [rq EXCEPT
        !.ready_queue = queue,
        !.ready_primap = primap,
        !.priority[t] = newpri,
        !.schedtsk = IF @ = t
                     THEN IF newpri >= oldpri THEN search_schedtsk(queue, primap) ELSE @
                     ELSE IF above THEN t ELSE @]

rotate_ready_queue(rq, pri) ==
  LET q == rq.ready_queue[pri]
      r == Append(Tail(q), Head(q))
  IN  IF Len(q) < 2 THEN rq
      ELSE [rq EXCEPT !.ready_queue[pri] = r,
                      !.schedtsk = IF @ = Head(q) THEN Head(r) ELSE @]

\* initialize_task, before the TA_ACT tasks are made active.
EmptyReadyQueue(ipriority) ==
  [ready_queue  |-> [p \in Pri |-> << >>],
   ready_primap |-> {},
   schedtsk     |-> NoTask,
   priority     |-> ipriority]

-----------------------------------------------------------------------------
(***************************************************************************)
(* What makes a ready queue correct, for the set of runnable tasks.        *)
(***************************************************************************)
\* A task is in the list of its current priority iff it is runnable, in no other.
QueuedWhereRunnable(rq, runnable) ==
  \A t \in Task, p \in Pri :
     t \in ToSet(rq.ready_queue[p]) <=> t \in runnable /\ p = rq.priority[t]

\* No list holds a task twice.
QueuedOnce(rq) == \A p \in Pri : IsInjective(rq.ready_queue[p])

\* The bitmap tells which lists are not empty.
PrimapExact(rq) == \A p \in Pri : p \in rq.ready_primap <=> rq.ready_queue[p] # << >>

\* p_schedtsk is the first task of the highest priority, NULL when there is none.
SchedtskIsFirst(rq) ==
  IF rq.schedtsk = NoTask
  THEN rq.ready_primap = {}
  ELSE /\ rq.ready_queue[rq.priority[rq.schedtsk]] # << >>
       /\ rq.schedtsk = Head(rq.ready_queue[rq.priority[rq.schedtsk]])
       /\ \A p \in rq.ready_primap : rq.priority[rq.schedtsk] <= p

ReadyQueueInv(rq, runnable) ==
  /\ QueuedWhereRunnable(rq, runnable)
  /\ QueuedOnce(rq)
  /\ PrimapExact(rq)
  /\ SchedtskIsFirst(rq)
=============================================================================
