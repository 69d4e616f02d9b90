------------------------------ MODULE TaskSync ------------------------------
(***************************************************************************)
(* Task-dependent synchronization (kernel/task_sync.c): sleep and wakeup,  *)
(* forced release from waiting, suspension, forbidden waiting and delays,  *)
(* with the expiry of timeouts (the callbacks of wait.c).                  *)
(***************************************************************************)
EXTENDS Dispatcher

\* slp_tsk and tslp_tsk, with TMO_POL too, when a wakeup request is queued.
take_wakeup ==
  /\ MayWait
  /\ k.wupque[runtsk]
  /\ PlainCall([k EXCEPT !.wupque[runtsk] = FALSE])

slp_tsk(timed) ==
  /\ MayWait
  /\ ~k.wupque[runtsk] /\ ~k.waifbd[runtsk]
  /\ WaitCall(make_wait(k, runtsk, "SLP", timed))

dly_tsk ==
  /\ MayWait
  /\ ~k.waifbd[runtsk]
  /\ WaitCall(make_wait(k, runtsk, "DLY", TRUE))

\* Mutant: a task that sleeps and is suspended does not count as sleeping.
wakeup_not_suspended(k1, t) ==
  IF k1.wobj[t] = "SLP" /\ ~IsSuspended(k1, t)
  THEN wait_complete(k1, t) ELSE [k1 EXCEPT !.wupque[t] = TRUE]

\* A wakeup ends the sleep of a task, suspended or not, and is queued otherwise.
wakeup(k1, t) ==
  IF k1.wobj[t] = "SLP" THEN wait_complete(k1, t) ELSE [k1 EXCEPT !.wupque[t] = TRUE]

CanWakeup(t) == ~IsDormant(k, t) /\ (k.wobj[t] = "SLP" \/ ~k.wupque[t])

wup_tsk(t)  == TaskContext /\ CanWakeup(t) /\ TaskCall(wakeup(k, t))

iwup_tsk(t) == IntContext /\ CanWakeup(t) /\ IntCall(wakeup(k, t))

can_wup(t) ==
  TaskContext /\ ~IsDormant(k, t) /\ PlainCall([k EXCEPT !.wupque[t] = FALSE])

rel_wai(t)  == TaskContext /\ IsWaiting(k, t) /\ TaskCall(wait_release(k, t))

irel_wai(t) == IntContext /\ IsWaiting(k, t) /\ IntCall(wait_release(k, t))

\* Mutant: the running task may always suspend itself.
sus_tsk_unchecked(t) ==
  /\ TaskContext /\ IsRunnable(k, t)
  /\ TaskCall([k EXCEPT !.tstat[t] = "SUSPENDED", !.rq = make_non_runnable(@, t)])

\* The running task may be suspended only when it can be dispatched away.
sus_tsk(t) ==
  /\ TaskContext
  /\ t = runtsk => dspflg
  /\ \/ /\ IsRunnable(k, t)
        /\ TaskCall([k EXCEPT !.tstat[t] = "SUSPENDED", !.rq = make_non_runnable(@, t)])
     \/ /\ k.tstat[t] = "WAITING"
        /\ TaskCall([k EXCEPT !.tstat[t] = "WAITING-SUSPENDED"])

rsm_tsk(t) ==
  /\ TaskContext
  /\ \/ /\ k.tstat[t] = "SUSPENDED"
        /\ TaskCall([k EXCEPT !.tstat[t] = "RUNNABLE", !.rq = make_runnable(@, t)])
     \/ /\ k.tstat[t] = "WAITING-SUSPENDED"
        /\ TaskCall([k EXCEPT !.tstat[t] = "WAITING"])

(***************************************************************************)
(* dis_wai, idis_wai, ena_wai and iena_wai.  Whether the target masks task *)
(* exceptions (t_sense_texmask) is left open: the call may be refused.     *)
(***************************************************************************)
dis_wai(t) ==
  /\ TaskContext \/ IntContext
  /\ ~IsDormant(k, t) /\ ~k.waifbd[t]
  /\ PlainCall([k EXCEPT !.waifbd[t] = TRUE])

ena_wai(t) ==
  /\ TaskContext \/ IntContext
  /\ ~IsDormant(k, t) /\ k.waifbd[t]
  /\ PlainCall([k EXCEPT !.waifbd[t] = FALSE])

\* signal_time calls wait_tmout or wait_tmout_ok in the timer's handler.
wait_tmout(t) ==
  /\ IntContext
  /\ k.tmevtb[t]
  /\ IntCall(wait_expire(k, t))

TimeoutNext == \E t \in Task : wait_tmout(t)

SleepNext ==
  \/ take_wakeup
  \/ \E timed \in BOOLEAN : slp_tsk(timed)
  \/ dly_tsk
  \/ \E t \in Task : wup_tsk(t) \/ iwup_tsk(t) \/ can_wup(t)

ReleaseNext == \E t \in Task : rel_wai(t) \/ irel_wai(t)

SuspendNext == \E t \in Task : sus_tsk(t) \/ rsm_tsk(t)

ForbidNext == \E t \in Task : dis_wai(t) \/ ena_wai(t)
=============================================================================
