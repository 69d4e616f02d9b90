------------------------------ MODULE WaitQueue ------------------------------
(***************************************************************************)
(* Task states and wait queues (kernel/wait.h, kernel/wait.c and the task  *)
(* state transitions of kernel/task.c), as operators on the record of all  *)
(* the data that the CPU lock protects:                                    *)
(*                                                                         *)
(*   k == [rq         |-> the ready queue (module ReadyQueue),             *)
(*         tstat      |-> [Task -> the state bits of TCB.tstat],           *)
(*         wobj       |-> [Task -> what a waiting task waits for],         *)
(*         tmevtb     |-> [Task -> is a timeout registered for its wait],  *)
(*         wercd      |-> [Task -> what its last wait returned],           *)
(*         winfo      |-> [Task -> the rest of its WINFO: what it waits    *)
(*                         with and, in the end, what it was given],       *)
(*         bpriority  |-> [Task -> base priority],                         *)
(*         actque     |-> [Task -> a queued activation request],           *)
(*         wupque     |-> [Task -> a queued wakeup request],               *)
(*         waifbd     |-> [Task -> waiting is forbidden],                  *)
(*         wait_queue |-> [Obj -> Seq(Task)],                              *)
(*         semcnt     |-> [Sem -> Nat],                                    *)
(*         loctsk     |-> [Mtx -> Task or NoTask],                         *)
(*         mutex_queue|-> [Task -> Seq(Mtx)],                              *)
(*         cb         |-> [ComObj -> the data of its control block]]       *)
(*                                                                         *)
(* wobj stands for the TS_WAIT_xxx bits of tstat with WINFO.p_wobjcb.      *)
(* Time itself is abstracted: a registered timeout expires at any moment.  *)
(***************************************************************************)
EXTENDS ReadyQueue

CONSTANTS Sem, Mtx,   \* the semaphores and the mutexes
          ComObj,     \* the wait queues of event flags, data queues and pools
          NoObj,      \* not waiting
          NoInfo,     \* a WINFO that holds nothing more
          TPriObj,    \* the objects whose attribute has the TA_TPRI bit
          ipriority   \* TINIB.ipriority, the initial priority of each task

Obj == Sem \cup Mtx \cup ComObj

ASSUME ObjAssumption ==
  /\ Sem \cap Mtx = {} /\ ComObj \cap (Sem \cup Mtx) = {}
  /\ TPriObj \subseteq Obj
  /\ \A x \in Obj : x \notin {NoObj, "SLP", "DLY"}
  /\ NoObj \notin {"SLP", "DLY"}
ASSUME PriorityAssumption == ipriority \in [Task -> Pri]

TStat    == {"DORMANT", "RUNNABLE", "WAITING", "SUSPENDED", "WAITING-SUSPENDED"}
WaitKind == Obj \cup {"SLP", "DLY", NoObj}
ErCd     == {"E_OK", "E_TMOUT", "E_RLWAI", "E_DLT"}

IsDormant(k, t)   == k.tstat[t] = "DORMANT"
IsRunnable(k, t)  == k.tstat[t] = "RUNNABLE"
IsWaiting(k, t)   == k.tstat[t] \in {"WAITING", "WAITING-SUSPENDED"}
IsSuspended(k, t) == k.tstat[t] \in {"SUSPENDED", "WAITING-SUSPENDED"}
RunnableTasks(k)  == {t \in Task : IsRunnable(k, t)}

-----------------------------------------------------------------------------
\* queue_insert_tpri: behind every task of the same or a higher priority.
queue_insert_tpri(q, t, priority) ==
  LET notBelow == {i \in DOMAIN q : priority[t] < priority[q[i]]}
      at == IF notBelow = {} THEN Len(q) + 1 ELSE CHOOSE i \in notBelow :
                                                  \A j \in notBelow : i <= j
  IN  InsertAt(q, at, t)

\* Mutant: every object queues by priority.
wobj_queue_insert_all_tpri(k, t, obj) ==
  [k EXCEPT !.wait_queue[obj] = queue_insert_tpri(@, t, k.rq.priority)]

wobj_queue_insert(k, t, obj) ==
  [k EXCEPT !.wait_queue[obj] = IF obj \in TPriObj
                                THEN queue_insert_tpri(@, t, k.rq.priority)
                                ELSE Append(@, t)]

\* make_wait and make_wait_tmout: the caller has set tstat.
make_wait(k, t, kind, timed) ==
  [k EXCEPT !.rq = make_non_runnable(@, t),
            !.tstat[t] = "WAITING",
            !.wobj[t] = kind,
            !.tmevtb[t] = timed]

\* wobj_make_wait and wobj_make_wait_tmout.
wobj_make_wait(k, t, obj, timed) ==
  wobj_queue_insert(make_wait(k, t, obj, timed), t, obj)

\* The same with more in the WINFO than p_wobjcb.
wobj_make_wait_with(k, t, obj, timed, info) ==
  wobj_make_wait([k EXCEPT !.winfo[t] = info], t, obj, timed)

\* A suspended task stays suspended when its wait ends.
make_non_wait(k, t) ==
  IF IsSuspended(k, t)
  THEN [k EXCEPT !.tstat[t] = "SUSPENDED", !.wobj[t] = NoObj]
  ELSE [k EXCEPT !.tstat[t] = "RUNNABLE", !.wobj[t] = NoObj,
                 !.rq = make_runnable(@, t)]

wait_dequeue_wobj(k, t) ==
  IF k.wobj[t] \in Obj
  THEN [k EXCEPT !.wait_queue[k.wobj[t]] = queue_delete(@, t)]
  ELSE k

wait_dequeue_tmevtb(k, t) == [k EXCEPT !.tmevtb[t] = FALSE]

\* The end of a wait: the timeout is cancelled and the result recorded.
end_wait(k, t, ercd) ==
  make_non_wait([wait_dequeue_tmevtb(k, t) EXCEPT !.wercd[t] = ercd], t)

\* The object gave the task what it waited for; the caller unlinked it.
wait_complete(k, t) == end_wait(k, t, "E_OK")

\* The same with something for the task in its WINFO.
wait_complete_with(k, t, info) == wait_complete([k EXCEPT !.winfo[t] = info], t)

wait_release(k, t) == end_wait(wait_dequeue_wobj(k, t), t, "E_RLWAI")

\* Mutant: the task stays in the wait queue.
wait_expire_stays_queued(k, t) == end_wait(k, t, "E_TMOUT")

\* The time event has fired: wait_tmout, and wait_tmout_ok for dly_tsk.
wait_expire(k, t) ==
  end_wait(wait_dequeue_wobj(k, t), t,
           IF k.wobj[t] = "DLY" THEN "E_OK" ELSE "E_TMOUT")

\* Unlink the first waiter of obj.
queue_delete_next(k, obj) == [k EXCEPT !.wait_queue[obj] = Tail(@)]

\* Mutant: a change of priority does not move the task in the wait queue.
wobj_change_priority_unsorted(k, t, obj) == k

wobj_change_priority(k, t, obj) ==
  IF obj \in TPriObj
  THEN [k EXCEPT !.wait_queue[obj] =
          queue_insert_tpri(queue_delete(@, t), t, k.rq.priority)]
  ELSE k

-----------------------------------------------------------------------------
\* task.c: change_priority, for a task in any state.
change_priority(k, t, newpri, mtxmode) ==
  IF IsRunnable(k, t)
  THEN [k EXCEPT !.rq = requeue(@, t, newpri, mtxmode)]
  ELSE LET k2 == [k EXCEPT !.rq.priority[t] = newpri]
       IN  IF k.wobj[t] \in Obj THEN wobj_change_priority(k2, t, k.wobj[t]) ELSE k2

\* Mutant: waiting stays forbidden in the next life of the task.
make_dormant_keeps_waifbd(k, t) ==
  [k EXCEPT !.tstat[t] = "DORMANT", !.wobj[t] = NoObj, !.wupque[t] = FALSE,
            !.winfo[t] = NoInfo, !.bpriority[t] = ipriority[t], !.rq.priority[t] = ipriority[t]]

\* Mutant: the current priority stays raised.
make_dormant_keeps_priority(k, t) ==
  [k EXCEPT !.tstat[t] = "DORMANT", !.wobj[t] = NoObj, !.wupque[t] = FALSE,
            !.winfo[t] = NoInfo, !.waifbd[t] = FALSE, !.bpriority[t] = ipriority[t]]

make_dormant(k, t) ==
  [k EXCEPT !.tstat[t] = "DORMANT",
            !.wobj[t] = NoObj, !.winfo[t] = NoInfo,
            !.bpriority[t] = ipriority[t],
            !.rq.priority[t] = ipriority[t],
            !.wupque[t] = FALSE,
            !.waifbd[t] = FALSE]

make_active(k, t) ==
  [k EXCEPT !.tstat[t] = "RUNNABLE", !.rq = make_runnable(@, t)]

\* The activation request that was queued restarts the task once it has ended.
reactivate(k, t) ==
  IF k.actque[t] THEN make_active([k EXCEPT !.actque[t] = FALSE], t) ELSE k

-----------------------------------------------------------------------------
(***************************************************************************)
(* What makes the wait queues correct.                                     *)
(***************************************************************************)
\* A task of live is linked to the queue of the object it waits for, once, and
\* to no other.
QueuedWhereWaiting(k, live) ==
  /\ \A t \in Task, o \in Obj :
        t \in ToSet(k.wait_queue[o]) <=> t \in live /\ k.wobj[t] = o
  /\ \A t \in live : IsWaiting(k, t) <=> k.wobj[t] # NoObj
  /\ \A o \in Obj : IsInjective(k.wait_queue[o])

\* A TA_TPRI queue is in the order of the current priorities, whatever
\* change_priority did to the tasks that wait in it.
PriorityOrdered(k) ==
  \A o \in TPriObj : \A i, j \in DOMAIN k.wait_queue[o] :
     i < j => k.rq.priority[k.wait_queue[o][i]] <= k.rq.priority[k.wait_queue[o][j]]

\* Only a waiting task has a timeout registered.
TimeoutOnlyWhileWaiting(k) ==
  \A t \in Task : k.tmevtb[t] => IsWaiting(k, t)

WaitQueueInv(k, live) ==
  /\ QueuedWhereWaiting(k, live)
  /\ PriorityOrdered(k)
  /\ TimeoutOnlyWhileWaiting(k)
=============================================================================
