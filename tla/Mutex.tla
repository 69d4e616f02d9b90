-------------------------------- MODULE Mutex --------------------------------
(***************************************************************************)
(* Mutexes (kernel/mutex.c), with and without the priority ceiling         *)
(* protocol (TA_CEILING).  The current priority of a task is the highest   *)
(* of its base priority and of the ceilings of the mutexes it has locked.  *)
(* Calls that fail change nothing and are not steps.                       *)
(***************************************************************************)
EXTENDS Dispatcher

CONSTANTS CeilMtx,   \* the mutexes with the attribute TA_CEILING
          ceilpri    \* their ceiling priorities

\* TA_CEILING has the bit of TA_TPRI.
ASSUME CeilingAssumption ==
  /\ CeilMtx \subseteq Mtx \cap TPriObj
  /\ ceilpri \in [CeilMtx -> Pri]

HeldBy(k1, t) == ToSet(k1.mutex_queue[t])

\* Mutant: the mutex that the task waits for is not looked at.
mutex_check_ceilpri_held_only(k1, t, bpri) ==
  \A m \in CeilMtx \cap HeldBy(k1, t) : ceilpri[m] <= bpri

\* mutex_check_ceilpri: no ceiling of a mutex that t has locked, or waits for,
\* is below the base priority it is to get.
mutex_check_ceilpri(k1, t, bpri) ==
  \A m \in CeilMtx : m \in HeldBy(k1, t) \/ k1.wobj[t] = m => ceilpri[m] <= bpri

mutex_scan_ceilmtx(k1, t) == HeldBy(k1, t) \cap CeilMtx # {}

mutex_calc_priority(k1, t) ==
  Min({k1.bpriority[t]} \cup {ceilpri[m] : m \in HeldBy(k1, t) \cap CeilMtx})

mutex_raise_priority(k1, t, newpri) ==
  IF newpri < k1.rq.priority[t] THEN change_priority(k1, t, newpri, TRUE) ELSE k1

\* Mutant: straight to the base priority, whatever other ceilings say.
mutex_drop_priority_to_base(k1, t, oldpri) ==
  IF oldpri = k1.rq.priority[t]
  THEN change_priority(k1, t, k1.bpriority[t], TRUE) ELSE k1

mutex_drop_priority(k1, t, oldpri) ==
  LET newpri == mutex_calc_priority(k1, t)
  IN  IF oldpri = k1.rq.priority[t] /\ newpri # oldpri
      THEN change_priority(k1, t, newpri, TRUE) ELSE k1

mutex_acquire(k1, t, m) ==
  LET k2 == [k1 EXCEPT !.loctsk[m] = t, !.mutex_queue[t] = << m >> \o @]
  IN  IF m \in CeilMtx THEN mutex_raise_priority(k2, t, ceilpri[m]) ELSE k2

\* Mutant: the first waiter is woken to try again and the mutex is free.
mutex_release_wakes(k1, m) ==
  IF k1.wait_queue[m] = << >>
  THEN [k1 EXCEPT !.loctsk[m] = NoTask]
  ELSE wait_complete([queue_delete_next(k1, m) EXCEPT !.loctsk[m] = NoTask],
                     Head(k1.wait_queue[m]))

\* The first waiter gets the mutex, and its ceiling, before it can run.
mutex_release(k1, m) ==
  IF k1.wait_queue[m] = << >>
  THEN [k1 EXCEPT !.loctsk[m] = NoTask]
  ELSE LET t == Head(k1.wait_queue[m])
       IN  wait_complete(
             [queue_delete_next(k1, m) EXCEPT
               !.loctsk[m] = t,
               !.mutex_queue[t] = Append(@, m),
               !.rq.priority[t] = IF m \in CeilMtx /\ ceilpri[m] < @
                                  THEN ceilpri[m] ELSE @], t)

\* Mutant: it stays in the list.
unlink_forgotten(k1, m) == k1

\* The mutex leaves the list of its owner, whose priority may drop.
unlink(k1, m) ==
  [k1 EXCEPT !.mutex_queue[k1.loctsk[m]] = queue_delete(@, m)]

\* Mutant: the owner keeps the ceiling.
drop_ceiling_forgotten(k1, t, m) == k1

drop_ceiling(k1, t, m) ==
  IF m \in CeilMtx THEN mutex_drop_priority(k1, t, ceilpri[m]) ELSE k1

-----------------------------------------------------------------------------
\* loc_mtx, ploc_mtx and tloc_mtx of a free mutex: never followed by a dispatch.
lock_free_mtx(m) ==
  /\ TaskContext
  /\ m \in CeilMtx => ceilpri[m] <= k.bpriority[runtsk]
  /\ k.loctsk[m] = NoTask
  /\ PlainCall(mutex_acquire(k, runtsk, m))

\* loc_mtx and tloc_mtx of a mutex that another task has locked.
wait_mtx(m, timed) ==
  /\ MayWait
  /\ m \in CeilMtx => ceilpri[m] <= k.bpriority[runtsk]
  /\ k.loctsk[m] \notin {NoTask, runtsk}
  /\ ~k.waifbd[runtsk]
  /\ WaitCall(wobj_make_wait(k, runtsk, m, timed))

\* Mutant: only the release is looked at, not the drop of the own priority.
unl_mtx_forgets_drop(m) ==
  /\ TaskContext
  /\ k.loctsk[m] = runtsk
  /\ LET dropped == drop_ceiling(unlink(k, m), runtsk, m)
     IN  /\ k' = mutex_release(dropped, m)
         /\ pc' = IF dspflg /\ NewSchedule(dropped.rq, k'.rq) THEN "dispatcher" ELSE "task"
  /\ UNCHANGED << runtsk, frame, flags, reqflg, excpt_nest_count, locked >>

unl_mtx(m) ==
  /\ TaskContext
  /\ k.loctsk[m] = runtsk
  /\ LET dropped == drop_ceiling(unlink(k, m), runtsk, m)
         result  == mutex_release(dropped, m)
     IN  /\ k' = result
         /\ pc' = IF dspflg /\ \/ NewSchedule(k.rq, dropped.rq)
                               \/ NewSchedule(dropped.rq, result.rq)
                  THEN "dispatcher" ELSE "task"
  /\ UNCHANGED << runtsk, frame, flags, reqflg, excpt_nest_count, locked >>

\* ini_mtx: init_wait_queue first, and the owner loses the mutex at the end.
ini_mtx(m) ==
  /\ TaskContext
  /\ LoopCall(k, "init_wait_queue", [NoFrame EXCEPT !.obj = m])

ini_mtx_end ==
  /\ pc = "init_wait_queue" /\ frame.obj \in Mtx
  /\ k.wait_queue[frame.obj] = << >>
  /\ LET m == frame.obj
         t == k.loctsk[m]
     IN  LoopEnd(IF t = NoTask THEN k
                 ELSE drop_ceiling([unlink(k, m) EXCEPT !.loctsk[m] = NoTask], t, m))

\* One turn of mutex_release_all, called by ext_tsk and ter_tsk.
mutex_release_all ==
  /\ pc = "release_all"
  /\ k.mutex_queue[frame.tsk] # << >>
  /\ LET m == Head(k.mutex_queue[frame.tsk])
     IN  LoopTurn(mutex_release(unlink(k, m), m))

MutexNext ==
  \/ \E m \in Mtx :
       \/ lock_free_mtx(m)
       \/ \E timed \in BOOLEAN : wait_mtx(m, timed)
       \/ unl_mtx(m)
       \/ ini_mtx(m)
  \/ init_wait_queue
  \/ ini_mtx_end
=============================================================================
