----------------------------- MODULE TaskManage -----------------------------
(***************************************************************************)
(* Task management (kernel/task_manage.c): activation, end, forced end and *)
(* change of the base priority.                                            *)
(***************************************************************************)
EXTENDS Mutex

\* What act_tsk does to a task that may be active already.
activate(k1, t) ==
  IF IsDormant(k1, t) THEN make_active(k1, t) ELSE [k1 EXCEPT !.actque[t] = TRUE]

\* E_QOVR when a request is queued already.
CanActivate(t) == IsDormant(k, t) \/ ~k.actque[t]

act_tsk(t)  == TaskContext /\ CanActivate(t) /\ TaskCall(activate(k, t))

iact_tsk(t) == IntContext /\ CanActivate(t) /\ IntCall(activate(k, t))

can_act(t) == TaskContext /\ PlainCall([k EXCEPT !.actque[t] = FALSE])

(***************************************************************************)
(* ext_tsk gives up every state that would keep the dispatcher from        *)
(* running, the CPU lock included, then the task's mutexes.                *)
(***************************************************************************)
ext_tsk ==
  /\ pc = "task" /\ excpt_nest_count = 0
  /\ k' = [k EXCEPT !.rq = make_non_runnable(@, runtsk)]
  /\ disdsp' = FALSE /\ ipmflg' = TRUE /\ dspflg' = TRUE
  /\ pc' = "release_all"
  /\ frame' = [NoFrame EXCEPT !.tsk = runtsk, !.exits = TRUE]
  /\ UNCHANGED << runtsk, reqflg, excpt_nest_count, locked >>

\* ter_tsk: the result of make_non_runnable is not looked at.
ter_tsk(t) ==
  /\ TaskContext
  /\ t # runtsk /\ ~IsDormant(k, t)
  /\ LoopCall(IF IsRunnable(k, t) THEN [k EXCEPT !.rq = make_non_runnable(@, t)]
              ELSE IF IsWaiting(k, t) THEN wait_dequeue_tmevtb(wait_dequeue_wobj(k, t), t)
              ELSE k,
              "release_all", [NoFrame EXCEPT !.tsk = t])

\* The task has no mutex left: it becomes dormant, and starts again on request.
end_of_task ==
  /\ pc = "release_all"
  /\ k.mutex_queue[frame.tsk] = << >>
  /\ LoopEnd(reactivate(make_dormant(k, frame.tsk), frame.tsk))

\* chg_pri: a task with a ceiling keeps the priority of its ceiling.
chg_pri(t, newbpri) ==
  /\ TaskContext
  /\ ~IsDormant(k, t)
  /\ mutex_check_ceilpri(k, t, newbpri)
  /\ LET k2 == [k EXCEPT !.bpriority[t] = newbpri]
     IN  TaskCall(IF mutex_scan_ceilmtx(k2, t) THEN k2
                  ELSE change_priority(k2, t, newbpri, FALSE))

TaskManageNext ==
  \/ \E t \in Task : \/ act_tsk(t) \/ iact_tsk(t) \/ can_act(t)
                     \/ ter_tsk(t)
                     \/ \E pri \in Pri : chg_pri(t, pri)
  \/ ext_tsk
  \/ mutex_release_all
  \/ end_of_task
=============================================================================
