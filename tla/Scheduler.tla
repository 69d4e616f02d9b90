------------------------------ MODULE Scheduler ------------------------------
(***************************************************************************)
(* The functions of kernel/task.c that keep the ready queue, called in any *)
(* order in which their callers can call them: make_runnable for a task    *)
(* that is not runnable, make_non_runnable for one that is, the others at  *)
(* any time.  They implement the list of module Precedence.                *)
(***************************************************************************)
EXTENDS ReadyQueue

CONSTANT ipriority   \* the initial priorities

ASSUME IpriorityAssumption == ipriority \in [Task -> Pri]

VARIABLES rq,        \* the ready queue
          runnable   \* the tasks whose tstat is TS_RUNNABLE

svars == << rq, runnable >>

Init == rq = EmptyReadyQueue(ipriority) /\ runnable = {}

MakeRunnable(t) ==
  /\ t \notin runnable
  /\ rq' = make_runnable(rq, t)
  /\ runnable' = runnable \cup {t}

MakeNonRunnable(t) ==
  /\ t \in runnable
  /\ rq' = make_non_runnable(rq, t)
  /\ runnable' = runnable \ {t}

ChangePriority(t, newpri, mtxmode) ==
  /\ rq' = IF t \in runnable THEN requeue(rq, t, newpri, mtxmode)
           ELSE [rq EXCEPT !.priority[t] = newpri]
  /\ UNCHANGED runnable

RotateReadyQueue(pri) ==
  /\ rq' = rotate_ready_queue(rq, pri)
  /\ UNCHANGED runnable

Next ==
  \/ \E t \in Task : \/ MakeRunnable(t)
                     \/ MakeNonRunnable(t)
                     \/ \E p \in Pri, m \in BOOLEAN : ChangePriority(t, p, m)
  \/ \E p \in Pri : RotateReadyQueue(p)

Spec == Init /\ [][Next]_svars

-----------------------------------------------------------------------------
\* The ready queue and the set of runnable tasks have their types.
TypeOK == rq \in ReadyQueueType /\ runnable \in SUBSET Task

\* Lists, bitmap, priorities and p_schedtsk agree after any sequence of calls of
\* task.c: each runnable task is in one list, that of its priority, the bitmap
\* tells the empty lists, and p_schedtsk is the first task of the first list.
ReadyQueueOK == ReadyQueueInv(rq, runnable)

\* The lists one after another, in the order of the priorities.
Concatenated == FlattenSeq([n \in 1 .. MaxPri + 1 |-> rq.ready_queue[n - 1]])

Prec == INSTANCE Precedence WITH order <- Concatenated,
                                 pri   <- rq.priority,
                                 first <- rq.schedtsk

\* The ready queue of task.c is a list ordered by precedence with p_schedtsk at
\* its head: no operation disturbs the order of the other tasks.
ImplementsPrecedence == Prec!Spec
=============================================================================
