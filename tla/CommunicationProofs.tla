------------------------- MODULE CommunicationProofs -------------------------
(***************************************************************************)
(* Event flags, data queues, priority data queues and fixed-sized memory   *)
(* pools, with the whole kernel around them, for any tasks and objects.    *)
(*                                                                         *)
(* The invariant ComInv has one part for each kind of object, about its    *)
(* control blocks and about the tasks that wait for it.  A step of the     *)
(* kernel, or at objects of another kind, leaves a part alone (Elsewhere,  *)
(* LeavesAlone); a step at objects of its own kind keeps it (FlagStep,     *)
(* DtqStep, PdqStep, PoolStep).                                            *)
(*                                                                         *)
(* That data queues implement DataChannel is proved from ComInv: a step at a *)
(* data queue (DtqInOrder), and one elsewhere (ElsewhereInOrder), moves each *)
(* channel as ChannelStep says and at most one of them, and each way to move *)
(* is an action of DataChannel (ChannelStepIsNext).                        *)
(***************************************************************************)
EXTENDS Communication, KernelProofs, FiniteSetTheorems

-----------------------------------------------------------------------------
(***************************************************************************)
(* What the kernel leaves alone of communication.                          *)
(***************************************************************************)
\* d has the fields that it should have.
Whole(d) ==
  /\ d \in [rq : {d.rq}, tstat : {d.tstat}, wobj : {d.wobj}, tmevtb : {d.tmevtb},
            wercd : {d.wercd}, winfo : {d.winfo}, bpriority : {d.bpriority},
            actque : {d.actque}, wupque : {d.wupque}, waifbd : {d.waifbd},
            wait_queue : {d.wait_queue}, semcnt : {d.semcnt}, loctsk : {d.loctsk},
            mutex_queue : {d.mutex_queue}, cb : {d.cb}]
  /\ DOMAIN d.wobj = Task /\ DOMAIN d.winfo = Task
  /\ d.wobj = [t \in Task |-> d.wobj[t]] /\ d.winfo = [t \in Task |-> d.winfo[t]]

\* From d to d2, no control block changes, and nobody starts to wait for a
\* communication object or has his WINFO changed while he does.
Calm(d, d2) ==
  /\ Whole(d2) /\ d2.cb = d.cb
  /\ \A t \in Task : d2.wobj[t] \in ComObj =>
        d2.wobj[t] = d.wobj[t] /\ d2.winfo[t] = d.winfo[t]

LEMMA DataIsWhole ==
  ASSUME NEW I, NEW C, NEW d \in KernelData(I, C)
  PROVE  Whole(d)
<1>1. d.wobj \in [Task -> WaitKind] /\ d.winfo \in [Task -> I]
  BY DataFields
<1>2. QED
  BY <1>1 DEF Whole, KernelData

LEMMA CalmSteps ==
  ASSUME NEW d, NEW d2, NEW d3, Calm(d, d2), Calm(d2, d3)
  PROVE  Calm(d, d3)
  BY DEF Calm

LEMMA CalmFields ==
  ASSUME NEW d, NEW d2, Whole(d), Whole(d2), d2.cb = d.cb, d2.wobj = d.wobj, d2.winfo = d.winfo
  PROVE  Calm(d, d2)
  BY DEF Calm

LEMMA EndWaitCalm ==
  ASSUME NEW d, Whole(d), NEW t, NEW ercd
  PROVE  Calm(d, end_wait(d, t, ercd))
<1>1. ComObj \subseteq Obj /\ NoObj \notin ComObj
  BY ObjNames
<1>2. CASE IsSuspended(d, t)
  BY <1>1, <1>2 DEF Calm, Whole, end_wait, make_non_wait, wait_dequeue_tmevtb, IsSuspended
<1>3. CASE ~IsSuspended(d, t)
  BY <1>1, <1>3 DEF Calm, Whole, end_wait, make_non_wait, wait_dequeue_tmevtb, IsSuspended
<1>4. QED
  BY <1>2, <1>3

\* A change of fields that communication does not look at.
LEMMA OtherFields ==
  ASSUME NEW d, Whole(d), NEW t, NEW x, NEW o
  PROVE  /\ Calm(d, [d EXCEPT !.rq = x])
         /\ Calm(d, [d EXCEPT !.rq.priority[t] = x])
         /\ Calm(d, [d EXCEPT !.tstat[t] = x])
         /\ Calm(d, [d EXCEPT !.tmevtb[t] = x])
         /\ Calm(d, [d EXCEPT !.bpriority[t] = x])
         /\ Calm(d, [d EXCEPT !.actque[t] = x])
         /\ Calm(d, [d EXCEPT !.wupque[t] = x])
         /\ Calm(d, [d EXCEPT !.waifbd[t] = x])
         /\ Calm(d, [d EXCEPT !.wait_queue[o] = x])
         /\ Calm(d, [d EXCEPT !.semcnt[o] = x])
         /\ Calm(d, [d EXCEPT !.loctsk[o] = x])
         /\ Calm(d, [d EXCEPT !.mutex_queue[t] = x])
  BY DEF Calm, Whole

\* Leaving queues.
LEMMA DequeueCalm ==
  ASSUME NEW d, Whole(d), NEW t, NEW o
  PROVE  /\ Calm(d, wait_dequeue_wobj(d, t)) /\ Calm(d, queue_delete_next(d, o))
         /\ Calm(d, wait_dequeue_tmevtb(d, t))
<1>1. Calm(d, d)
  BY DEF Calm
<1>2. QED
  BY <1>1, OtherFields DEF wait_dequeue_wobj, queue_delete_next, wait_dequeue_tmevtb

\* The end of a wait of a task that leaves a queue.
LEMMA WaitEndsCalm ==
  ASSUME NEW d, Whole(d), NEW t, NEW o, NEW ercd
  PROVE  /\ Calm(d, end_wait(wait_dequeue_wobj(d, t), t, ercd))
         /\ Calm(d, end_wait(queue_delete_next(d, o), t, ercd))
         /\ Calm(d, wait_dequeue_tmevtb(wait_dequeue_wobj(d, t), t))
<1> DEFINE d1 == wait_dequeue_wobj(d, t)
           d2 == queue_delete_next(d, o)
<1>1. Calm(d, d1) /\ Calm(d, d2)
  BY DequeueCalm
<1> HIDE DEF d1, d2
<1>2. Whole(d1) /\ Whole(d2)
  BY <1>1 DEF Calm
<1>3. Calm(d1, end_wait(d1, t, ercd)) /\ Calm(d2, end_wait(d2, t, ercd))
  BY <1>2, EndWaitCalm
<1>4. Calm(d1, wait_dequeue_tmevtb(d1, t))
  BY <1>2, DequeueCalm
<1>5. /\ Calm(d, end_wait(d1, t, ercd)) /\ Calm(d, end_wait(d2, t, ercd))
      /\ Calm(d, wait_dequeue_tmevtb(d1, t))
  BY <1>1, <1>3, <1>4, CalmSteps
<1>6. QED
  BY <1>5 DEF d1, d2

\* Activation, sleep, end.
LEMMA StateCalm ==
  ASSUME NEW d, Whole(d), NEW t, NEW x
  PROVE  /\ Calm(d, make_active(d, t)) /\ Calm(d, suspend(d, t)) /\ Calm(d, set_tstat(d, t, x))
         /\ Calm(d, make_dormant(d, t))
         /\ Calm(d, activate(d, t)) /\ Calm(d, wakeup(d, t))
<1>1. NoObj \notin ComObj
  BY ObjNames
<1>2. Calm(d, make_active(d, t)) /\ Calm(d, suspend(d, t)) /\ Calm(d, set_tstat(d, t, x))
  BY DEF Calm, Whole, make_active, suspend, set_tstat
<1>3. Calm(d, make_dormant(d, t))
  BY ZenonT(60), <1>1 DEF Calm, Whole, make_dormant
<1>4. Calm(d, activate(d, t))
  BY <1>2, OtherFields DEF activate
<1>5. Calm(d, wakeup(d, t))
  BY EndWaitCalm, OtherFields DEF wakeup, wait_complete
<1>6. QED
  BY <1>2, <1>3, <1>4, <1>5

\* A task that ends may start again.
LEMMA EndCalm ==
  ASSUME NEW d, Whole(d), NEW t
  PROVE  Calm(d, reactivate(make_dormant(d, t), t))
<1> DEFINE d1 == make_dormant(d, t)
           d2 == [d1 EXCEPT !.actque[t] = FALSE]
<1>1. Calm(d, d1)
  BY StateCalm
<1> HIDE DEF d1
<1>2. Whole(d1) /\ Calm(d1, d1)
  BY <1>1 DEF Calm
<1>3. Calm(d1, d2)
  BY <1>2, OtherFields
<1>4. reactivate(d1, t) = d1 \/ reactivate(d1, t) = make_active(d2, t)
  BY DEF reactivate
<1> HIDE DEF d2
<1>5. Calm(d2, make_active(d2, t))
  <2>1. Whole(d2)
    BY <1>3 DEF Calm
  <2>2. QED
    BY <2>1, StateCalm
<1>6. Calm(d1, reactivate(d1, t))
  BY <1>2, <1>3, <1>4, <1>5, CalmSteps
<1>7. Calm(d, reactivate(d1, t))
  BY <1>1, <1>6, CalmSteps
<1>8. QED
  BY <1>7 DEF d1

\* A wait for anything else.
LEMMA WaitCalm ==
  ASSUME NEW d, Whole(d), NEW t, NEW kind, kind \notin ComObj, NEW timed
  PROVE  Calm(d, make_wait(d, t, kind, timed)) /\ Calm(d, wobj_make_wait(d, t, kind, timed))
<1> DEFINE d1 == make_wait(d, t, kind, timed)
<1>1. Calm(d, d1)
  BY DEF Calm, Whole, make_wait
<1> HIDE DEF d1
<1>2. Calm(d1, wobj_queue_insert(d1, t, kind))
  <2>1. Whole(d1)
    BY <1>1 DEF Calm
  <2>2. QED
    BY <2>1, OtherFields DEF wobj_queue_insert
<1>3. Calm(d, wobj_queue_insert(d1, t, kind))
  BY <1>1, <1>2, CalmSteps
<1>4. QED
  BY <1>1, <1>3 DEF wobj_make_wait, d1

\* Changes of priority.
LEMMA PriorityCalm ==
  ASSUME NEW d, Whole(d), NEW t, NEW newpri, NEW mtxmode
  PROVE  Calm(d, change_priority(d, t, newpri, mtxmode))
<1>1. CASE IsRunnable(d, t)
  BY <1>1, OtherFields DEF change_priority
<1>2. CASE ~IsRunnable(d, t)
  <2> DEFINE d1 == [d EXCEPT !.rq.priority[t] = newpri]
             d2 == wobj_change_priority(d1, t, d1.wobj[t])
  <2>1. Calm(d, d1)
    BY OtherFields
  <2>2. change_priority(d, t, newpri, mtxmode) \in {d1, d2}
    BY <1>2, <2>1 DEF change_priority, Calm
  <2> HIDE DEF d1
  <2>3. Calm(d1, d1) /\ Whole(d1)
    BY <2>1 DEF Calm
  <2>4. Calm(d1, d2)
    BY <2>3, OtherFields DEF wobj_change_priority
  <2>5. Calm(d, d2)
    BY <2>1, <2>4, CalmSteps
  <2>6. QED
    BY <2>1, <2>2, <2>5
<1>3. QED
  BY <1>1, <1>2

LEMMA DropCeilingCalm ==
  ASSUME NEW d, Whole(d), NEW t, NEW m
  PROVE  Calm(d, drop_ceiling(d, t, m))
<1>1. Calm(d, d)
  BY DEF Calm
<1>2. QED
  BY <1>1, PriorityCalm DEF drop_ceiling, mutex_drop_priority

\* Mutexes.
LEMMA MutexCalm ==
  ASSUME NEW d, Whole(d), NEW t, NEW m
  PROVE  /\ Calm(d, unlink(d, m)) /\ Calm(d, set_free(d, m))
         /\ Calm(d, mutex_acquire(d, t, m)) /\ Calm(d, mutex_release(d, m))
<1>1. Calm(d, unlink(d, m)) /\ Calm(d, set_free(d, m))
  BY OtherFields DEF unlink, set_free
<1>2. Calm(d, mutex_acquire(d, t, m))
  <2> DEFINE d1 == [d EXCEPT !.loctsk[m] = t, !.mutex_queue[t] = << m >> \o @]
             d2 == change_priority(d1, t, ceilpri[m], TRUE)
  <2>1. Calm(d, d1)
    BY DEF Calm, Whole
  <2>2. mutex_acquire(d, t, m) \in {d1, d2}
    BY DEF mutex_acquire, mutex_raise_priority
  <2> HIDE DEF d1
  <2>3. Calm(d1, d2)
    <3>1. Whole(d1)
      BY <2>1 DEF Calm
    <3>2. QED
      BY <3>1, PriorityCalm
  <2>4. Calm(d, d2)
    BY <2>1, <2>3, CalmSteps
  <2>5. QED
    BY <2>1, <2>2, <2>4
<1>3. Calm(d, mutex_release(d, m))
  <2>1. CASE d.wait_queue[m] = << >>
    BY <2>1, OtherFields DEF mutex_release
  <2>2. CASE d.wait_queue[m] # << >>
    <3> DEFINE w  == Head(d.wait_queue[m])
               d1 == [queue_delete_next(d, m) EXCEPT
                        !.loctsk[m] = w,
                        !.mutex_queue[w] = Append(@, m),
                        !.rq.priority[w] = IF m \in CeilMtx /\ ceilpri[m] < @
                                           THEN ceilpri[m] ELSE @]
    <3>1. Calm(d, d1)
      BY DEF Calm, Whole, queue_delete_next
    <3>2. mutex_release(d, m) = end_wait(d1, w, "E_OK")
      BY <2>2 DEF mutex_release, wait_complete
    <3> HIDE DEF d1
    <3>3. Calm(d1, end_wait(d1, w, "E_OK"))
      BY <3>1, EndWaitCalm DEF Calm
    <3>4. QED
      BY <3>1, <3>2, <3>3, CalmSteps
  <2>3. QED
    BY <2>1, <2>2
<1>4. QED
  BY <1>1, <1>2, <1>3

\* A mutex that is released after a change of its owner's priority.
LEMMA UnlockCalm ==
  ASSUME NEW d, Whole(d), NEW t, NEW m
  PROVE  /\ Calm(d, mutex_release(drop_ceiling(unlink(d, m), t, m), m))
         /\ Calm(d, mutex_release(unlink(d, m), m))
         /\ Calm(d, drop_ceiling(set_free(unlink(d, m), m), t, m))
<1> DEFINE d1 == unlink(d, m)
           d2 == drop_ceiling(d1, t, m)
           d3 == set_free(d1, m)
<1>1. Calm(d, d1)
  BY MutexCalm
<1> HIDE DEF d1
<1>2. Whole(d1)
  BY <1>1 DEF Calm
<1>3. Calm(d1, d2) /\ Calm(d1, d3) /\ Calm(d1, mutex_release(d1, m))
  BY <1>2, MutexCalm, DropCeilingCalm
<1> HIDE DEF d2, d3
<1>4. Calm(d2, mutex_release(d2, m)) /\ Calm(d3, drop_ceiling(d3, t, m))
  <2>1. Whole(d2) /\ Whole(d3)
    BY <1>3 DEF Calm
  <2>2. QED
    BY <2>1, MutexCalm, DropCeilingCalm
<1>5. Calm(d1, mutex_release(d2, m)) /\ Calm(d1, drop_ceiling(d3, t, m))
  BY <1>3, <1>4, CalmSteps
<1>6. /\ Calm(d, mutex_release(d2, m)) /\ Calm(d, drop_ceiling(d3, t, m))
      /\ Calm(d, mutex_release(d1, m))
  BY <1>1, <1>3, <1>5, CalmSteps
<1>7. QED
  BY <1>6 DEF d1, d2, d3

-----------------------------------------------------------------------------
(***************************************************************************)
(* Steps of the kernel.                                                    *)
(***************************************************************************)
\* From d to d2 nothing happens at the objects in O: the control blocks stay,
\* nobody arrives, and whoever waits does so with what he had.  L and L2 are
\* the tasks that are not ending.
LeavesAlone(O, d, L, d2, L2) ==
  /\ \A o \in O : d2.cb[o] = d.cb[o]
  /\ \A t \in L2 : d2.wobj[t] \in O =>
        t \in L /\ d2.wobj[t] = d.wobj[t] /\ d2.winfo[t] = d.winfo[t]

Ends == mutex_release_all \/ end_of_task

\* No step of the kernel but the dispatcher's touches a WINFO.
LEMMA NextIsCalm ==
  ASSUME NEW I, NEW C, KernelInv(I, C), [Next]_vars
  PROVE  Calm(k, k') \/ DispatchTask
<1> DEFINE Goal == Calm(k, k')
<1>1. k \in KernelData(I, C)
  BY DEF KernelInv, DataInv
<1>2. Whole(k)
  BY <1>1, DataIsWhole
<1>3. ASSUME k' = k PROVE Goal
  BY <1>2, <1>3 DEF Calm
<1> HIDE DEF Goal
\* One field of one task.
<1>4. ASSUME NEW t, NEW x,
             \/ k' = make_active(k, t) \/ k' = suspend(k, t) \/ k' = set_tstat(k, t, x)
             \/ k' = [k EXCEPT !.rq = x] \/ k' = [k EXCEPT !.wupque[t] = x]
             \/ k' = [k EXCEPT !.actque[t] = x] \/ k' = [k EXCEPT !.waifbd[t] = x]
      PROVE  Goal
  <2>1. /\ Calm(k, [k EXCEPT !.rq = x]) /\ Calm(k, [k EXCEPT !.wupque[t] = x])
        /\ Calm(k, [k EXCEPT !.actque[t] = x]) /\ Calm(k, [k EXCEPT !.waifbd[t] = x])
    BY <1>2, OtherFields
  <2>2. Calm(k, make_active(k, t)) /\ Calm(k, suspend(k, t)) /\ Calm(k, set_tstat(k, t, x))
    BY <1>2, StateCalm
  <2>3. QED
    BY <1>4, <2>1, <2>2 DEF Goal
<1>5. ASSUME ProcessorNext \/ FlagNext \/ RotateNext PROVE Goal \/ DispatchTask
  <2>1. ASSUME NEW t \in Task, ActivateAtBoot(t) PROVE Goal
    BY <1>4, <2>1 DEF ActivateAtBoot
  <2>2. ASSUME RotateNext PROVE Goal
    <3>1. \E pri : k' = [k EXCEPT !.rq = rotate_ready_queue(@, pri)]
      BY <2>2 DEF RotateNext, rot_rdq, irot_rdq, rot_rdq_self, TaskCall, IntCall
    <3>2. \E x : k' = [k EXCEPT !.rq = x]
      BY <3>1
    <3>3. QED
      BY <1>4, <3>2
  <2>3. ASSUME \/ start_dispatch \/ EnterIdle \/ LeaveIdle
               \/ irq_handler \/ ret_int_nested \/ ret_int_task \/ FlagNext
        PROVE  Goal
    BY <1>3, <2>3 DEF start_dispatch, EnterIdle, LeaveIdle, irq_handler, ret_int_nested,
                      ret_int_task, FlagNext, dis_dsp, ena_dsp, chg_ipm_enaall, chg_ipm_mask,
                      lock_cpu, unlock_cpu
  <2>4. QED
    BY <1>5, <2>1, <2>2, <2>3 DEF ProcessorNext, BootNext
<1>6. ASSUME TaskManageNext, ~Ends PROVE Goal
  <2>1. ASSUME NEW t \in Task, act_tsk(t) \/ iact_tsk(t) \/ can_act(t) PROVE Goal
    <3>1. k' = activate(k, t) \/ k' = [k EXCEPT !.actque[t] = FALSE]
      BY <2>1 DEF act_tsk, iact_tsk, can_act, TaskCall, IntCall, PlainCall
    <3>2. Calm(k, activate(k, t))
      BY <1>2, StateCalm
    <3>3. Calm(k, [k EXCEPT !.actque[t] = FALSE])
      BY <1>2, OtherFields
    <3>4. QED
      BY <3>1, <3>2, <3>3 DEF Goal
  <2>2. ASSUME NEW t \in Task, NEW pri \in Pri, chg_pri(t, pri) PROVE Goal
    <3> DEFINE d1 == [k EXCEPT !.bpriority[t] = pri]
               d2 == change_priority(d1, t, pri, FALSE)
    <3>1. k' = d1 \/ k' = d2
      BY <2>2 DEF chg_pri, TaskCall
    <3>2. Calm(k, d1)
      BY <1>2, OtherFields
    <3> HIDE DEF d1
    <3>3. Whole(d1)
      BY <3>2 DEF Calm
    <3>4. Calm(d1, d2)
      BY <3>3, PriorityCalm
    <3>5. Calm(k, d2)
      BY <3>2, <3>4, CalmSteps
    <3>6. QED
      BY <3>1, <3>2, <3>5 DEF Goal
  <2>3. ASSUME NEW t \in Task, ter_tsk(t) PROVE Goal
    <3>1. \/ k' = [k EXCEPT !.rq = make_non_runnable(@, t)]
          \/ k' = wait_dequeue_tmevtb(wait_dequeue_wobj(k, t), t)
          \/ k' = k
      BY <2>3 DEF ter_tsk, LoopCall
    <3>2. \/ \E x : k' = [k EXCEPT !.rq = x]
          \/ k' = wait_dequeue_tmevtb(wait_dequeue_wobj(k, t), t)
          \/ k' = k
      BY <3>1
    <3>3. ASSUME k' = wait_dequeue_tmevtb(wait_dequeue_wobj(k, t), t) PROVE Goal
      BY <1>2, <3>3, WaitEndsCalm DEF Goal
    <3>4. QED
      BY <1>3, <1>4, <3>2, <3>3
  <2>4. ASSUME ext_tsk PROVE Goal
    <3>1. \E x : k' = [k EXCEPT !.rq = x]
      BY <2>4 DEF ext_tsk
    <3>2. QED
      BY <1>4, <3>1
  <2>5. QED
    BY <1>6, <2>1, <2>2, <2>3, <2>4 DEF TaskManageNext, Ends
<1>7. ASSUME SleepNext PROVE Goal
  <2>1. ASSUME NEW t \in Task, wup_tsk(t) \/ iwup_tsk(t) PROVE Goal
    <3>1. k' = wakeup(k, t)
      BY <2>1 DEF wup_tsk, iwup_tsk, TaskCall, IntCall
    <3>2. QED
      BY <1>2, <3>1, StateCalm DEF Goal
  <2>2. ASSUME NEW t \in Task, can_wup(t) PROVE Goal
    BY <1>4, <2>2 DEF can_wup, PlainCall
  <2>3. ASSUME take_wakeup PROVE Goal
    BY <1>4, <2>3 DEF take_wakeup, PlainCall
  <2>4. ASSUME NEW timed \in BOOLEAN, slp_tsk(timed) \/ dly_tsk PROVE Goal
    <3>1. \E kind \in {"SLP", "DLY"} : \E b \in BOOLEAN : k' = make_wait(k, runtsk, kind, b)
      BY <2>4 DEF slp_tsk, dly_tsk, WaitCall
    <3>2. PICK kind \in {"SLP", "DLY"}, b \in BOOLEAN : k' = make_wait(k, runtsk, kind, b)
      BY <3>1
    <3>3. kind \notin ComObj
      BY ObjNames
    <3>4. Calm(k, k')
      BY <1>2, <3>2, <3>3, WaitCalm
    <3>5. QED
      BY <3>4 DEF Goal
  <2>5. QED
    BY <1>7, <2>1, <2>2, <2>3, <2>4 DEF SleepNext
<1>8. ASSUME ReleaseNext \/ TimeoutNext PROVE Goal
  <2>1. ASSUME NEW t \in Task, rel_wai(t) \/ irel_wai(t) \/ wait_tmout(t) PROVE Goal
    <3>1. \E ercd : k' = end_wait(wait_dequeue_wobj(k, t), t, ercd)
      BY <2>1 DEF rel_wai, irel_wai, wait_tmout, TaskCall, IntCall, wait_release, wait_expire
    <3>2. QED
      BY <1>2, <3>1, WaitEndsCalm DEF Goal
  <2>2. QED
    BY <1>8, <2>1 DEF ReleaseNext, TimeoutNext
<1>9. ASSUME SuspendNext \/ ForbidNext PROVE Goal
  <2>1. \E t \in Task : \/ k' = make_active(k, t) \/ k' = suspend(k, t)
                        \/ \E x : k' = set_tstat(k, t, x)
                        \/ \E x : k' = [k EXCEPT !.waifbd[t] = x]
    BY <1>9 DEF SuspendNext, sus_tsk, rsm_tsk, ForbidNext, dis_wai, ena_wai, TaskCall,
                PlainCall, suspend, set_tstat, make_active
  <2>2. QED
    BY <1>4, <2>1
<1>10. ASSUME SemaphoreNext PROVE Goal \/ init_wait_queue
  <2>1. ASSUME NEW s \in Sem, sig_sem(s) \/ isig_sem(s) PROVE Goal
    <3>1. k' = signal(k, s)
      BY <2>1 DEF sig_sem, isig_sem, TaskCall, IntCall
    <3>2. \/ k' = end_wait(queue_delete_next(k, s), Head(k.wait_queue[s]), "E_OK")
          \/ k' = [k EXCEPT !.semcnt[s] = @ + 1]
      BY <3>1 DEF signal, wait_complete
    <3>3. Calm(k, [k EXCEPT !.semcnt[s] = @ + 1])
      BY <1>2, OtherFields
    <3>4. QED
      BY <1>2, <3>2, <3>3, WaitEndsCalm DEF Goal
  <2>2. ASSUME NEW s \in Sem, take_unit(s) PROVE Goal
    <3>1. Calm(k, [k EXCEPT !.semcnt[s] = @ - 1])
      BY <1>2, OtherFields
    <3>2. QED
      BY <2>2, <3>1 DEF take_unit, PlainCall, Goal
  <2>3. ASSUME NEW s \in Sem, NEW timed \in BOOLEAN, wai_sem(s, timed) PROVE Goal
    <3>1. s \notin ComObj
      BY ObjAssumption
    <3>2. Calm(k, wobj_make_wait(k, runtsk, s, timed))
      BY <1>2, <3>1, WaitCalm
    <3>3. QED
      BY <2>3, <3>2 DEF wai_sem, WaitCall, Goal
  <2>4. ASSUME NEW s \in Sem, ini_sem(s) PROVE Goal
    BY <1>3, <2>4 DEF ini_sem, LoopCall
  <2>5. ASSUME ini_sem_end PROVE Goal
    <3>1. Calm(k, [k EXCEPT !.semcnt[frame.obj] = isemcnt[frame.obj]])
      BY <1>2, OtherFields
    <3>2. QED
      BY <2>5, <3>1 DEF ini_sem_end, LoopEnd, Goal
  <2>6. QED
    BY <1>10, <2>1, <2>2, <2>3, <2>4, <2>5 DEF SemaphoreNext
<1>11. ASSUME init_wait_queue PROVE Goal
  BY <1>2, <1>11, WaitEndsCalm DEF init_wait_queue, LoopTurn, Goal
<1>12. ASSUME MutexNext PROVE Goal
  <2>1. ASSUME NEW m \in Mtx, lock_free_mtx(m) PROVE Goal
    BY <1>2, <2>1, MutexCalm DEF lock_free_mtx, PlainCall, Goal
  <2>2. ASSUME NEW m \in Mtx, NEW timed \in BOOLEAN, wait_mtx(m, timed) PROVE Goal
    <3>1. m \notin ComObj
      BY ObjAssumption
    <3>2. Calm(k, wobj_make_wait(k, runtsk, m, timed))
      BY <1>2, <3>1, WaitCalm
    <3>3. QED
      BY <2>2, <3>2 DEF wait_mtx, WaitCall, Goal
  <2>3. ASSUME NEW m \in Mtx, unl_mtx(m) PROVE Goal
    <3>1. k' = mutex_release(drop_ceiling(unlink(k, m), runtsk, m), m)
      BY <2>3 DEF unl_mtx
    <3>2. QED
      BY <1>2, <3>1, UnlockCalm DEF Goal
  <2>4. ASSUME NEW m \in Mtx, ini_mtx(m) PROVE Goal
    BY <1>3, <2>4 DEF ini_mtx, LoopCall
  <2>5. ASSUME ini_mtx_end PROVE Goal
    <3> DEFINE m == frame.obj
               t == k.loctsk[m]
    <3>1. k' = k \/ k' = drop_ceiling(set_free(unlink(k, m), m), t, m)
      BY <2>5 DEF ini_mtx_end, LoopEnd, set_free
    <3>2. Calm(k, drop_ceiling(set_free(unlink(k, m), m), t, m))
      BY <1>2, UnlockCalm
    <3>3. QED
      BY <1>3, <3>1, <3>2 DEF Goal
  <2>6. QED
    BY <1>11, <1>12, <2>1, <2>2, <2>3, <2>4, <2>5 DEF MutexNext
<1>13. ASSUME Ends PROVE Goal
  <2> DEFINE e == frame.tsk
             m == Head(k.mutex_queue[e])
  <2>1. \/ k' = mutex_release(unlink(k, m), m)
        \/ k' = reactivate(make_dormant(k, e), e)
    BY <1>13 DEF Ends, mutex_release_all, end_of_task, LoopTurn, LoopEnd
  <2>2. QED
    BY <1>2, <2>1, UnlockCalm, EndCalm DEF Goal
<1>14. CASE UNCHANGED vars
  BY <1>3, <1>14 DEF vars, Goal
<1>15. CASE Next
  BY <1>5, <1>6, <1>7, <1>8, <1>9, <1>10, <1>11, <1>12, <1>13, <1>15 DEF Next, Goal
<1>16. QED
  BY <1>14, <1>15

\* A task that ends goes on to end, and loops over wait queues start in the
\* calls that reinitialize an object.
LEMMA WhereStepsAre ==
  ASSUME Next
  PROVE  /\ pc = "release_all" => Ends
         /\ pc' = "init_wait_queue" => init_wait_queue \/ frame'.obj \in Sem \cup Mtx
<1> DEFINE Goal == /\ pc = "release_all" => Ends
                   /\ pc' = "init_wait_queue" => init_wait_queue \/ frame'.obj \in Sem \cup Mtx
<1>1. ASSUME pc # "release_all", pc' # "init_wait_queue" PROVE Goal
  BY <1>1
<1>2. ASSUME TaskContext \/ IntContext PROVE pc \in {"task", "idle"}
  BY <1>2 DEF TaskContext, IntContext
<1>3. ASSUME pc \in {"task", "idle"},
             pc' = pc \/ pc' \in {"task", "dispatcher", "release_all"}
      PROVE  Goal
  BY <1>1, <1>3
<1>4. ASSUME TaskContext \/ IntContext, NEW result,
             TaskCall(result) \/ PlainCall(result) \/ WaitCall(result) \/ IntCall(result)
      PROVE  Goal
  <2>1. pc' = pc \/ pc' \in {"task", "dispatcher"}
    BY <1>4 DEF TaskCall, PlainCall, WaitCall, IntCall
  <2>2. QED
    BY <1>2, <1>3, <1>4, <2>1
<1>5. ASSUME TaskContext, NEW o \in Sem \cup Mtx,
             LoopCall(k, "init_wait_queue", [NoFrame EXCEPT !.obj = o])
      PROVE  Goal
  BY <1>5 DEF TaskContext, LoopCall, NoFrame
<1>6. ASSUME pc = "init_wait_queue", NEW result, LoopEnd(result) PROVE Goal
  BY <1>6 DEF LoopEnd
<1>7. ASSUME ProcessorNext \/ FlagNext PROVE Goal
  <2>1. ASSUME ProcessorNext PROVE Goal
    <3>1. pc # "release_all" /\ pc' # "init_wait_queue"
      BY <2>1 DEF ProcessorNext, BootNext, ActivateAtBoot, start_dispatch, DispatchTask,
                  EnterIdle, LeaveIdle, irq_handler, ret_int_nested, ret_int_task, InHandler
    <3>2. QED
      BY <1>1, <3>1
  <2>2. ASSUME FlagNext PROVE Goal
    <3>1. pc # "release_all" /\ pc' # "init_wait_queue"
      BY <2>2 DEF FlagNext, dis_dsp, ena_dsp, chg_ipm_enaall, chg_ipm_mask, lock_cpu,
                  unlock_cpu, InHandler, TaskContext, IntContext
    <3>2. QED
      BY <1>1, <3>1
  <2>3. QED
    BY <1>7, <2>1, <2>2
<1> HIDE DEF Goal
<1>8. ASSUME RotateNext PROVE Goal
  BY <1>4, <1>8 DEF RotateNext, rot_rdq, rot_rdq_self, irot_rdq
<1>9. ASSUME TaskManageNext PROVE Goal
  <2>1. ASSUME NEW t \in Task, act_tsk(t) \/ iact_tsk(t) \/ can_act(t) PROVE Goal
    BY <1>4, <2>1 DEF act_tsk, iact_tsk, can_act
  <2>2. ASSUME NEW t \in Task, NEW pri \in Pri, chg_pri(t, pri) PROVE Goal
    BY <1>4, <2>2 DEF chg_pri
  <2>3. ASSUME NEW t \in Task, ter_tsk(t) PROVE Goal
    <3>1. pc = "task" /\ pc' = "release_all"
      BY <2>3 DEF ter_tsk, TaskContext, LoopCall
    <3>2. QED
      BY <1>3, <3>1
  <2>4. ASSUME ext_tsk PROVE Goal
    BY <1>3, <2>4 DEF ext_tsk
  <2>5. ASSUME Ends PROVE Goal
    <3>1. pc' # "init_wait_queue"
      BY <2>5 DEF Ends, mutex_release_all, end_of_task, LoopTurn, LoopEnd
    <3>2. QED
      BY <2>5, <3>1 DEF Goal
  <2>6. QED
    BY <1>9, <2>1, <2>2, <2>3, <2>4, <2>5 DEF TaskManageNext, Ends
<1>10. ASSUME SleepNext \/ ReleaseNext \/ TimeoutNext PROVE Goal
  <2>1. ASSUME SleepNext PROVE Goal
    BY <1>4, <2>1 DEF SleepNext, take_wakeup, slp_tsk, dly_tsk, wup_tsk, iwup_tsk, can_wup, MayWait
  <2>2. ASSUME ReleaseNext \/ TimeoutNext PROVE Goal
    BY <1>4, <2>2 DEF ReleaseNext, TimeoutNext, rel_wai, irel_wai, wait_tmout
  <2>3. QED
    BY <1>10, <2>1, <2>2
<1>11. ASSUME SuspendNext \/ ForbidNext PROVE Goal
  BY <1>4, <1>11 DEF SuspendNext, ForbidNext, sus_tsk, rsm_tsk, dis_wai, ena_wai
<1>12. ASSUME init_wait_queue PROVE Goal
  BY <1>12 DEF init_wait_queue, Goal
<1>13. ASSUME SemaphoreNext PROVE Goal
  <2>1. ASSUME NEW s \in Sem, sig_sem(s) \/ isig_sem(s) \/ take_unit(s) PROVE Goal
    BY <1>4, <2>1 DEF sig_sem, isig_sem, take_unit
  <2>2. ASSUME NEW s \in Sem, NEW timed \in BOOLEAN, wai_sem(s, timed) PROVE Goal
    BY <1>4, <2>2 DEF wai_sem, MayWait
  <2>3. ASSUME NEW s \in Sem, ini_sem(s) PROVE Goal
    BY <1>5, <2>3 DEF ini_sem
  <2>4. ASSUME ini_sem_end PROVE Goal
    BY <1>6, <2>4 DEF ini_sem_end
  <2>5. QED
    BY <1>12, <1>13, <2>1, <2>2, <2>3, <2>4 DEF SemaphoreNext
<1>14. ASSUME MutexNext PROVE Goal
  <2>1. ASSUME NEW m \in Mtx, lock_free_mtx(m) PROVE Goal
    BY <1>4, <2>1 DEF lock_free_mtx
  <2>2. ASSUME NEW m \in Mtx, NEW timed \in BOOLEAN, wait_mtx(m, timed) PROVE Goal
    BY <1>4, <2>2 DEF wait_mtx, MayWait
  <2>3. ASSUME NEW m \in Mtx, ini_mtx(m) PROVE Goal
    BY <1>5, <2>3 DEF ini_mtx
  <2>4. ASSUME ini_mtx_end PROVE Goal
    BY <1>6, <2>4 DEF ini_mtx_end
  <2>5. ASSUME NEW m \in Mtx, unl_mtx(m) PROVE Goal
    <3>1. pc = "task" /\ pc' \in {"task", "dispatcher"}
      BY <2>5 DEF unl_mtx, TaskContext
    <3>2. QED
      BY <1>3, <3>1
  <2>6. QED
    BY <1>12, <1>14, <2>1, <2>2, <2>3, <2>4, <2>5 DEF MutexNext
<1>15. QED
  BY <1>7, <1>8, <1>9, <1>10, <1>11, <1>13, <1>14 DEF Next, Goal

\* No step of the kernel does anything at a communication object but end waits.
LEMMA NextLeavesAlone ==
  ASSUME NEW I, NEW C, KernelInv(I, C), [Next]_vars
  PROVE  LeavesAlone(ComObj, k, Live, k', Live')
<1>1. k \in KernelData(I, C)
  BY DEF KernelInv, DataInv
<1>2. ComObj \subseteq Obj /\ NoObj \notin ComObj
  BY ObjNames
<1>3. CASE DispatchTask
  <2> DEFINE s == k.rq.schedtsk
  <2>1. /\ pc = "dispatcher" /\ s # NoTask /\ pc' = "task"
        /\ k' = [k EXCEPT !.wercd[s] = "E_OK", !.winfo[s] = NoInfo]
    BY <1>3 DEF DispatchTask
  <2>2. DataInv(I, C, k, Task) /\ Live = Task /\ Live' = Task
    BY <2>1, InvData DEF Live, Ending
  <2>3. s \in Task /\ k.wobj[s] = NoObj
    <3>1. s \in Task /\ IsRunnable(k, s) /\ Task \in SUBSET Task
      BY <2>1, <2>2, Schedtsk
    <3>2. ~IsWaiting(k, s)
      BY <3>1 DEF IsRunnable, IsWaiting
    <3>3. QED
      BY <2>2, <3>1, <3>2, WaitersFacts
  <2>4. k.winfo \in [Task -> I]
    BY <1>1, DataFields
  <2>5. k'.wobj = k.wobj /\ k'.cb = k.cb /\ \A t \in Task \ {s} : k'.winfo[t] = k.winfo[t]
    BY <1>1, <2>1, <2>4 DEF KernelData
  <2>6. QED
    BY <1>2, <2>2, <2>3, <2>5 DEF LeavesAlone
<1>4. CASE Calm(k, k')
  <2>1. ASSUME NEW t \in Live', k'.wobj[t] \in ComObj PROVE t \in Live
    <3>1. t \in Task
      BY DEF Live
    <3>2. CASE pc # "release_all"
      BY <3>1, <3>2 DEF Live, Ending
    <3>3. CASE UNCHANGED vars
      BY <3>3 DEF vars, Live, Ending
    <3>4. CASE mutex_release_all
      <4>1. pc' = pc /\ frame'.tsk = frame.tsk
        <5>1. frame \in FrameType
          BY DEF KernelInv, ContextInv
        <5>2. QED
          BY <3>4, <5>1 DEF mutex_release_all, LoopTurn, FrameType
      <4>2. QED
        BY <4>1 DEF Live, Ending
    <3>5. CASE end_of_task
      <4> DEFINE e == frame.tsk
      <4>1. pc = "release_all" /\ k' = reactivate(make_dormant(k, e), e)
        BY <3>5 DEF end_of_task, LoopEnd
      <4>2. k.wobj \in [Task -> WaitKind]
        BY <1>1, DataTypes
      <4>3. t = e => k'.wobj[t] = NoObj
        BY <1>1, <3>1, <4>1, <4>2 DEF reactivate, make_active, make_dormant, KernelData
      <4>4. QED
        BY <1>2, <2>1, <3>1, <4>1, <4>3 DEF Live, Ending
    <3>6. QED
      BY <3>2, <3>3, <3>4, <3>5, WhereStepsAre DEF Ends
  <2>2. Live' \subseteq Task
    BY DEF Live
  <2>3. QED
    BY <1>4, <2>1, <2>2 DEF Calm, LeavesAlone
<1>5. QED
  BY <1>3, <1>4, NextIsCalm

-----------------------------------------------------------------------------
(***************************************************************************)
(* What is done at communication objects.                                  *)
(***************************************************************************)
\* Every communication object has a control block.
HasBlocks(d) == d.cb = [o \in ComObj |-> d.cb[o]]

\* The kernel's data is correct, whatever tasks wait with and whatever control
\* blocks there are.
Correct(d, L) == HasBlocks(d) /\ \E I, C : DataInv(I, C, d, L)

\* So is everything else.
KInv == HasBlocks(k) /\ \E I, C : KernelInv(I, C)

LEMMA DataGrows ==
  ASSUME NEW I, NEW C, NEW I2, NEW C2, NEW d, NEW L, DataInv(I, C, d, L)
  PROVE  DataInv(I \cup I2, C \cup C2, d, L)
<1>1. d \in KernelData(I, C) /\ NoInfo \in I /\ QueuesInv(d, L) /\ ObjectsInv(d, L)
  BY DEF DataInv
<1>2. d \in KernelData(I \cup I2, C \cup C2)
  <2>1. d.winfo \in [Task -> I \cup I2] /\ d.cb \in C \cup C2
    BY <1>1, DataFields
  <2>2. QED
    BY <1>1, <2>1 DEF KernelData
<1>3. QED
  BY <1>1, <1>2 DEF DataInv

LEMMA InvGrows ==
  ASSUME NEW I, NEW C, NEW I2, NEW C2, KernelInv(I, C)
  PROVE  KernelInv(I \cup I2, C \cup C2)
  BY DataGrows DEF KernelInv

\* Correct data and a correct context.
LEMMA Together ==
  ASSUME KInv, NEW d, NEW L, Correct(d, L)
  PROVE  \E I, C : KernelInv(I, C) /\ DataInv(I, C, d, L)
<1>1. PICK I, C : KernelInv(I, C)
  BY DEF KInv
<1>2. PICK I2, C2 : DataInv(I2, C2, d, L)
  BY DEF Correct
<1>3. KernelInv(I \cup I2, C \cup C2)
  BY <1>1, InvGrows
<1>4. DataInv(I2 \cup I, C2 \cup C, d, L)
  BY <1>2, DataGrows
<1>5. I2 \cup I = I \cup I2 /\ C2 \cup C = C \cup C2
  OBVIOUS
<1>6. QED
  BY <1>3, <1>4, <1>5

\* Between two calls the data is correct for all tasks.
LEMMA CallFacts ==
  ASSUME KInv, TaskContext \/ IntContext
  PROVE  /\ Correct(k, Task) /\ Live = Task
         /\ TaskContext => runtsk \in Task /\ IsRunnable(k, runtsk)
<1>1. PICK I, C : KernelInv(I, C)
  BY DEF KInv
<1>2. pc # "release_all"
  BY DEF TaskContext, IntContext
<1>3. QED
  BY <1>1, <1>2, InCall, InvData DEF KInv, Correct

\* The types of what communication looks at.
LEMMA CorrectFields ==
  ASSUME NEW d, NEW L, Correct(d, L)
  PROVE  /\ Whole(d) /\ d.wobj \in [Task -> WaitKind] /\ d.wait_queue \in [Obj -> Seq(Task)]
         /\ d.wercd \in [Task -> ErCd]
  BY DataIsWhole, DataTypes DEF Correct, DataInv

\* A queue is empty when nobody waits.
LEMMA EmptyQueue ==
  ASSUME NEW d, NEW L \in SUBSET Task, Correct(d, L), NEW o \in Obj
  PROVE  d.wait_queue[o] = << >> <=> \A t \in L : d.wobj[t] # o
  BY NobodyWaits DEF Correct

-----------------------------------------------------------------------------
\* A control block or a WINFO that is written.
LEMMA SetBlock ==
  ASSUME NEW d, NEW L, Correct(d, L), NEW o, NEW x
  PROVE  LET d2 == [d EXCEPT !.cb[o] = x]
         IN  /\ Correct(d2, L) /\ Keeps(d, d2) /\ d2.rq = d.rq /\ d2.wobj = d.wobj
             /\ d2.winfo = d.winfo /\ d2.wait_queue = d.wait_queue /\ d2.wercd = d.wercd
             /\ d2.cb = [d.cb EXCEPT ![o] = x]
<1> DEFINE cb2 == [d.cb EXCEPT ![o] = x]
           d2 == [d EXCEPT !.cb = cb2]
<1>1. PICK I, C : DataInv(I, C, d, L)
  BY DEF Correct
<1>2. d \in KernelData(I, C) /\ QueuesInv(d, L) /\ ObjectsInv(d, L) /\ NoInfo \in I
  BY <1>1 DEF DataInv
<1> HIDE DEF cb2
<1>3. /\ d2 \in KernelData(I, {cb2}) /\ d2.rq = d.rq /\ SameStates(d2, d)
      /\ d2.wait_queue = d.wait_queue /\ SameRequests(d2, d) /\ SameWINFO(d2, d)
      /\ d2.semcnt = d.semcnt /\ d2.loctsk = d.loctsk /\ d2.mutex_queue = d.mutex_queue
      /\ d2.cb = cb2
  BY <1>2 DEF KernelData, SameStates, SameRequests, SameWINFO
<1> HIDE DEF d2
<1>4. QueuesInv(d2, L)
  BY <1>2, <1>3, QueuesDependOn
<1>5. /\ d2.tstat = d.tstat /\ d2.wobj = d.wobj /\ d2.bpriority = d.bpriority
      /\ d2.actque = d.actque /\ d2.wupque = d.wupque /\ d2.waifbd = d.waifbd
  BY <1>3 DEF SameStates, SameRequests
<1>6. ObjectsInv(d2, L)
  <2>1. \A t : HeldBy(d2, t) = HeldBy(d, t)
    BY <1>3 DEF HeldBy
  <2>2. \A t : mutex_calc_priority(d2, t) = mutex_calc_priority(d, t)
    BY <1>5, <2>1 DEF mutex_calc_priority
  <2>3. QED
    BY <1>2, <1>3, <1>5, <2>1, <2>2
       DEF ObjectsInv, UnitsInv, OwnersInv, WaitersInv, CeilingsInv, PrioritiesInv,
           DormantInv, SleepersInv, IsDormant
<1>7. DataInv(I, {cb2}, d2, L)
  BY <1>2, <1>3, <1>4, <1>6 DEF DataInv
<1>8. Keeps(d, d2)
  BY <1>3, <1>5 DEF Keeps, IsRunnable, IsDormant, SameStates
<1>9. Correct(d2, L)
  <2>1. HasBlocks(d2)
    BY <1>3 DEF Correct, HasBlocks, cb2
  <2>2. QED
    BY <1>7, <2>1 DEF Correct
<1>10. d2 = [d EXCEPT !.cb[o] = x]
  BY DEF d2, cb2
<1>11. QED
  BY <1>3, <1>5, <1>8, <1>9, <1>10 DEF SameWINFO, cb2

LEMMA SetInfo ==
  ASSUME NEW d, NEW L \in SUBSET Task, Correct(d, L), NEW t, NEW x
  PROVE  LET d2 == [d EXCEPT !.winfo[t] = x]
         IN  /\ Correct(d2, L) /\ Keeps(d, d2) /\ d2.rq = d.rq /\ d2.wobj = d.wobj
             /\ d2.cb = d.cb /\ d2.wait_queue = d.wait_queue /\ d2.wercd = d.wercd
             /\ d2.tstat = d.tstat /\ d2.semcnt = d.semcnt /\ d2.loctsk = d.loctsk
             /\ d2.bpriority = d.bpriority
             /\ d2.winfo = [d.winfo EXCEPT ![t] = x]
<1> DEFINE winfo2 == [d.winfo EXCEPT ![t] = x]
           d2 == [d EXCEPT !.winfo = winfo2]
<1>1. PICK I, C : DataInv(I, C, d, L)
  BY DEF Correct
<1>2. /\ d \in KernelData(I, C) /\ QueuesInv(d, L) /\ ObjectsInv(d, L) /\ NoInfo \in I
      /\ d.winfo \in [Task -> I]
  BY <1>1, DataFields DEF DataInv
<1> DEFINE J == I \cup {x}
<1>3. winfo2 \in [Task -> J] /\ d.winfo \in [Task -> J]
  BY <1>2
<1>4. DataInv(J, C, d, L)
  BY <1>2, <1>3 DEF DataInv, KernelData
<1> HIDE DEF winfo2, J
<1>5. /\ d2 \in KernelData(J, C) /\ d2.rq = d.rq /\ SameStates(d2, d)
      /\ d2.wait_queue = d.wait_queue /\ SameRequests(d2, d) /\ SameObjects(d2, d)
      /\ d2.wercd = d.wercd /\ d2.winfo = winfo2
  BY <1>2, <1>3 DEF KernelData, SameStates, SameRequests, SameObjects
<1> HIDE DEF d2
<1>6. OnlyRequests(J, C, d, d2)
  BY <1>5 DEF OnlyRequests, SameRequests
<1>7. Eases(d, d2, L)
  BY <1>2, <1>5 DEF Eases, SameStates, SameRequests, IsDormant, ObjectsInv, DormantInv, SleepersInv
<1>8. DataInv(J, C, d2, L) /\ Keeps(d, d2)
  BY <1>4, <1>6, <1>7, RequestsKept
<1>9. Correct(d2, L)
  BY <1>5, <1>8 DEF Correct, HasBlocks, SameObjects
<1>10. d2 = [d EXCEPT !.winfo[t] = x]
  BY DEF d2, winfo2
<1>11. QED
  BY <1>5, <1>8, <1>9, <1>10 DEF SameStates, SameObjects, SameRequests, winfo2

-----------------------------------------------------------------------------
\* From d to d2, the wait of t ends with ercd and the WINFO x.
Finished(d, d2, t, x, ercd) ==
  /\ d2.wobj = [d.wobj EXCEPT ![t] = NoObj]
  /\ d2.winfo = [d.winfo EXCEPT ![t] = x]
  /\ d2.wercd = [d.wercd EXCEPT ![t] = ercd]
  /\ d2.cb = d.cb
  /\ \A o \in Obj : d2.wait_queue[o] = IF d.wobj[t] = o THEN queue_delete(d.wait_queue[o], t)
                                       ELSE d.wait_queue[o]

LEMMA Finishes ==
  ASSUME NEW d, NEW L \in SUBSET Task, Correct(d, L), NEW t \in L, IsWaiting(d, t),
         NEW x, NEW ercd \in ErCd
  PROVE  LET d2 == end_wait([wait_dequeue_wobj(d, t) EXCEPT !.winfo[t] = x], t, ercd)
         IN  Correct(d2, L) /\ Keeps(d, d2) /\ Finished(d, d2, t, x, ercd)
<1> DEFINE d1 == [d EXCEPT !.winfo[t] = x]
           d2 == wait_dequeue_wobj(d1, t)
           d3 == end_wait(d2, t, ercd)
<1>1. Whole(d)
  BY CorrectFields
<1>2. d2 = [wait_dequeue_wobj(d, t) EXCEPT !.winfo[t] = x]
  BY <1>1 DEF wait_dequeue_wobj, Whole
<1>3. /\ Correct(d1, L) /\ Keeps(d, d1) /\ d1.wobj = d.wobj /\ d1.cb = d.cb
      /\ d1.wait_queue = d.wait_queue /\ d1.wercd = d.wercd /\ d1.tstat = d.tstat
      /\ d1.winfo = [d.winfo EXCEPT ![t] = x]
  BY SetInfo
<1> HIDE DEF d1
<1>4. PICK I, C : DataInv(I, C, d1, L)
  BY <1>3 DEF Correct
<1>5. IsWaiting(d1, t)
  BY <1>3 DEF IsWaiting
<1>6. DataInv(I, C, d3, L) /\ Keeps(d1, d3)
  BY <1>4, <1>5, WaitEnds
<1>7. d1 \in KernelData(I, C) /\ QueuesInv(d1, L)
  BY <1>4 DEF DataInv
<1>8. d2 \in KernelData(I, C) /\ SameStates(d2, d1) /\ SameWINFO(d2, d1) /\ SameObjects(d2, d1)
  BY <1>5, <1>7, Dequeue
<1> DEFINE Left(o) == IF d1.wobj[t] = o THEN queue_delete(d1.wait_queue[o], t)
                      ELSE d1.wait_queue[o]
<1>9. \A o \in Obj : d2.wait_queue[o] = Left(o)
  BY <1>7, DequeuedFields
<1> HIDE DEF d2
<1>10. WaitsNoMore(d2, d3, t, ercd)
  BY <1>8, EndWaitFields
<1>11. Calm(d2, d3) /\ d3.winfo = d2.winfo
  <2>1. Whole(d2)
    BY <1>8, DataIsWhole
  <2>2. d3.winfo = d2.winfo
    BY <2>1 DEF Whole, end_wait, make_non_wait, wait_dequeue_tmevtb, IsSuspended
  <2>3. QED
    BY <2>1, <2>2, EndWaitCalm
<1>12. Keeps(d, d3)
  BY <1>3, <1>6 DEF Keeps
<1>13. Finished(d, d3, t, x, ercd)
  BY <1>3, <1>8, <1>9, <1>10, <1>11
     DEF Finished, WaitsNoMore, Calm, SameStates, SameWINFO, SameObjects
<1> HIDE DEF d3
<1>14. Correct(d3, L)
  BY <1>6, <1>13 DEF Correct, HasBlocks, Finished
<1>15. QED
  BY <1>2, <1>12, <1>13, <1>14 DEF d3

\* The first waiter of an object gets something, or his wait just ends.
LEMMA Grants ==
  ASSUME NEW d, NEW L \in SUBSET Task, Correct(d, L), NEW o \in Obj, d.wait_queue[o] # << >>,
         NEW x
  PROVE  LET t  == Head(d.wait_queue[o])
             d2 == wait_complete_with(queue_delete_next(d, o), t, x)
             d3 == wait_complete(queue_delete_next(d, o), t)
         IN  /\ t \in L /\ d.wobj[t] = o
             /\ Correct(d2, L) /\ Keeps(d, d2) /\ Finished(d, d2, t, x, "E_OK")
             /\ Correct(d3, L) /\ Keeps(d, d3) /\ Finished(d, d3, t, d.winfo[t], "E_OK")
<1> DEFINE t  == Head(d.wait_queue[o])
           d1 == queue_delete_next(d, o)
<1>1. t \in L /\ IsWaiting(d, t) /\ d.wobj[t] = o /\ d1 = wait_dequeue_wobj(d, t)
  BY DequeueNext DEF Correct, DataInv
<1>2. "E_OK" \in ErCd
  BY DEF ErCd
<1> HIDE DEF t
<1>3. /\ wait_complete_with(d1, t, x) = end_wait([wait_dequeue_wobj(d, t) EXCEPT !.winfo[t] = x], t, "E_OK")
      /\ wait_complete(d1, t) =
           end_wait([wait_dequeue_wobj(d, t) EXCEPT !.winfo[t] = d.winfo[t]], t, "E_OK")
  <2>1. Whole(d)
    BY CorrectFields
  <2>2. d1 = [d1 EXCEPT !.winfo[t] = d.winfo[t]]
    BY <2>1 DEF Whole, queue_delete_next
  <2>3. QED
    BY <1>1, <2>2 DEF wait_complete_with, wait_complete
<1> HIDE DEF d1
<1>4. QED
  BY SMTT(60), <1>1, <1>2, <1>3, Finishes DEF t, d1

\* From d to d2, t begins to wait at o with x and takes a place in its queue.
Started(d, d2, t, o, x) ==
  /\ d2.wobj = [d.wobj EXCEPT ![t] = o]
  /\ d2.winfo = [d.winfo EXCEPT ![t] = x]
  /\ d2.cb = d.cb
  /\ d.wobj[t] = NoObj
  /\ \E i \in 1 .. Len(d.wait_queue[o]) + 1 :
        d2.wait_queue = [d.wait_queue EXCEPT ![o] = InsertAt(@, i, t)]

LEMMA Starts ==
  ASSUME NEW d, Correct(d, Task), NEW t \in Task, IsRunnable(d, t), NEW o \in ComObj,
         NEW timed \in BOOLEAN, NEW x
  PROVE  LET d2 == wobj_make_wait_with(d, t, o, timed, x)
             d3 == wobj_make_wait(d, t, o, timed)
         IN  /\ Correct(d2, Task) /\ Started(d, d2, t, o, x)
             /\ Correct(d3, Task) /\ Started(d, d3, t, o, d.winfo[t])
<1>1. ASSUME NEW y
      PROVE  LET d1 == [d EXCEPT !.winfo[t] = y]
                 d2 == wobj_make_wait(d1, t, o, timed)
             IN  Correct(d2, Task) /\ Started(d, d2, t, o, y)
  <2> DEFINE d1 == [d EXCEPT !.winfo[t] = y]
             d2 == wobj_make_wait(d1, t, o, timed)
  <2>1. /\ Correct(d1, Task) /\ d1.wobj = d.wobj /\ d1.cb = d.cb /\ d1.tstat = d.tstat
        /\ d1.wait_queue = d.wait_queue /\ d1.winfo = [d.winfo EXCEPT ![t] = y]
    BY SetInfo
  <2>0. d.wobj[t] = NoObj
    <3>1. PICK I, C : DataInv(I, C, d, Task)
      BY DEF Correct
    <3>2. ~IsWaiting(d, t)
      BY DEF IsRunnable, IsWaiting
    <3>3. QED
      BY <3>1, <3>2 DEF DataInv, QueuesInv, WaitQueueInv, QueuedWhereWaiting
  <2> HIDE DEF d1
  <2>2. PICK I, C : DataInv(I, C, d1, Task)
    BY <2>1 DEF Correct
  <2>3. o \in Obj /\ o \notin Sem /\ o \notin Mtx /\ o \notin CeilMtx
    BY ObjNames, ObjAssumption, CeilingAssumption
  <2>4. IsRunnable(d1, t)
    BY <2>1 DEF IsRunnable
  <2>5. DataInv(I, C, d2, Task)
    BY <2>2, <2>3, <2>4, WaitFor
  <2>6. Whole(d1)
    BY <2>1, CorrectFields
  <2>7. d2.wobj = [d1.wobj EXCEPT ![t] = o] /\ d2.winfo = d1.winfo /\ d2.cb = d1.cb
    BY <2>6 DEF Whole, wobj_make_wait, make_wait, wobj_queue_insert
  <2>10. \E i \in 1 .. Len(d1.wait_queue[o]) + 1 :
           d2.wait_queue = [d1.wait_queue EXCEPT ![o] = InsertAt(@, i, t)]
    <3> DEFINE q == d1.wait_queue[o]
    <3>1. q \in Seq(Task)
      BY <2>1, <2>3, CorrectFields
    <3>2. \/ d2.wait_queue = [d1.wait_queue EXCEPT ![o] = Append(q, t)]
          \/ \E priority : d2.wait_queue = [d1.wait_queue EXCEPT ![o] = queue_insert_tpri(q, t, priority)]
      BY <2>6 DEF Whole, wobj_make_wait, make_wait, wobj_queue_insert
    <3> HIDE DEF q, d2
    <3>3. Append(q, t) = InsertAt(q, Len(q) + 1, t) /\ Len(q) + 1 \in 1 .. Len(q) + 1
      BY <3>1, AppendIsInsert
    <3>4. \A priority : \E i \in 1 .. Len(q) + 1 : queue_insert_tpri(q, t, priority) = InsertAt(q, i, t)
      BY <3>1, InsertTpriPlace
    <3>5. QED
      BY <3>2, <3>3, <3>4 DEF q
  <2> HIDE DEF d2
  <2>11. PICK i \in 1 .. Len(d.wait_queue[o]) + 1 :
           d2.wait_queue = [d.wait_queue EXCEPT ![o] = InsertAt(@, i, t)]
    BY <2>1, <2>10
  <2>12. d2.wobj = [d.wobj EXCEPT ![t] = o] /\ d2.winfo = [d.winfo EXCEPT ![t] = y] /\ d2.cb = d.cb
    BY <2>1, <2>7
  <2>13. Started(d, d2, t, o, y)
    BY <2>0, <2>11, <2>12 DEF Started
  <2>8. Correct(d2, Task) /\ Started(d, d2, t, o, y)
    BY <2>1, <2>5, <2>12, <2>13 DEF Correct, HasBlocks
  <2>9. QED
    BY <2>8 DEF d1, d2
<1>2. [d EXCEPT !.winfo[t] = d.winfo[t]] = d
  <2>1. Whole(d)
    BY CorrectFields
  <2>2. QED
    BY <2>1 DEF Whole
<1>3. /\ Correct(wobj_make_wait([d EXCEPT !.winfo[t] = d.winfo[t]], t, o, timed), Task)
      /\ Started(d, wobj_make_wait([d EXCEPT !.winfo[t] = d.winfo[t]], t, o, timed), t, o, d.winfo[t])
  BY <1>1
<1>4. /\ Correct(wobj_make_wait_with(d, t, o, timed, x), Task)
      /\ Started(d, wobj_make_wait_with(d, t, o, timed, x), t, o, x)
  BY <1>1 DEF wobj_make_wait_with
<1>5. QED
  BY <1>2, <1>3, <1>4

-----------------------------------------------------------------------------
(***************************************************************************)
(* The frames of the calls, for communication objects.                     *)
(***************************************************************************)
\* A call that is over: the data is correct for all tasks, no loop goes on.
Over(result) == KInv' /\ k' = result /\ Live = Task /\ Live' = Task /\ pc' # "init_wait_queue"

LEMMA CallIsOver ==
  ASSUME KInv, NEW result, Correct(result, Task), Keeps(k, result),
         \/ TaskContext /\ TaskCall(result)
         \/ IntContext /\ IntCall(result)
  PROVE  Over(result)
<1>1. PICK I, C : KernelInv(I, C) /\ DataInv(I, C, result, Task)
  BY Together
<1>2. KernelInv(I, C)'
  BY <1>1, CallKeeps
<1>3. k' = result /\ pc \in {"task", "idle"} /\ pc' \in {"task", "idle", "dispatcher"}
  BY DEF TaskContext, IntContext, TaskCall, IntCall
<1>4. KInv'
  BY <1>2, <1>3 DEF KInv, Correct, HasBlocks
<1>5. QED
  BY <1>3, <1>4 DEF Over, Live, Ending

LEMMA PlainCallIsOver ==
  ASSUME KInv, TaskContext, NEW result, Correct(result, Task), Keeps(k, result),
         result.rq = k.rq, PlainCall(result)
  PROVE  Over(result)
<1>1. PICK I, C : KernelInv(I, C) /\ DataInv(I, C, result, Task)
  BY Together
<1>2. KernelInv(I, C)'
  BY <1>1, RequestCallKeeps
<1>3. k' = result /\ pc = "task" /\ pc' = pc
  BY DEF TaskContext, PlainCall
<1>4. KInv'
  BY <1>2, <1>3 DEF KInv, Correct, HasBlocks
<1>5. QED
  BY <1>3, <1>4 DEF Over, Live, Ending

LEMMA WaitCallIsOver ==
  ASSUME KInv, MayWait, NEW result, Correct(result, Task), WaitCall(result)
  PROVE  Over(result)
<1>1. PICK I, C : KernelInv(I, C) /\ DataInv(I, C, result, Task)
  BY Together
<1>2. KernelInv(I, C)'
  BY <1>1, WaitCallKeeps
<1>3. k' = result /\ pc = "task" /\ pc' = "dispatcher"
  BY DEF MayWait, TaskContext, WaitCall
<1>4. KInv'
  BY <1>2, <1>3 DEF KInv, Correct, HasBlocks
<1>5. QED
  BY <1>3, <1>4 DEF Over, Live, Ending

\* A call that loops over the queue of o and has not begun.
LEMMA IniCall ==
  ASSUME KInv, TaskContext, NEW o \in Obj,
         LoopCall(k, "init_wait_queue", [NoFrame EXCEPT !.obj = o])
  PROVE  KInv' /\ k' = k /\ Live = Task /\ Live' = Task /\ frame'.obj = o
<1>1. PICK I, C : KernelInv(I, C)
  BY DEF KInv
<1>2. KernelInv(I, C)'
  BY <1>1, InitCallKeeps
<1>3. k' = k /\ pc = "task" /\ pc' = "init_wait_queue" /\ frame'.obj = o
  BY DEF TaskContext, LoopCall, NoFrame
<1>4. KInv'
  BY <1>2, <1>3 DEF KInv, HasBlocks
<1>5. QED
  BY <1>3, <1>4 DEF Live, Ending

\* What holds in the loop.
LEMMA IniLoop ==
  ASSUME KInv, pc = "init_wait_queue"
  PROVE  Correct(k, Task) /\ Live = Task /\ frame.obj \in Obj
<1>1. PICK I, C : KernelInv(I, C)
  BY DEF KInv
<1>2. DataInv(I, C, k, Task) /\ Live = Task
  BY <1>1, InvData
<1>3. frame.obj \in Obj
  BY <1>1 DEF KernelInv, LoopInv, Looping
<1>4. QED
  BY <1>2, <1>3 DEF KInv, Correct

\* The end of the loop.
LEMMA IniIsOver ==
  ASSUME KInv, pc = "init_wait_queue", NEW result, Correct(result, Task), Keeps(k, result),
         LoopEnd(result)
  PROVE  Over(result)
<1>1. PICK I, C : KernelInv(I, C) /\ DataInv(I, C, result, Task)
  BY Together
<1>2. Looping /\ (~frame.exits => IsRunnable(result, runtsk))
  <2>1. Looping /\ (~frame.exits => runtsk \in Task /\ IsRunnable(k, runtsk))
    BY <1>1 DEF KernelInv, LoopInv, Looping
  <2>2. QED
    BY <2>1 DEF Keeps
<1>3. KernelInv(I, C)'
  BY <1>1, <1>2, LoopEndKeeps
<1>4. k' = result /\ pc' \in {"dispatcher", "task"}
  BY DEF LoopEnd
<1>5. KInv'
  BY <1>3, <1>4 DEF KInv, Correct, HasBlocks
<1>6. QED
  BY <1>4, <1>5 DEF Over, Live, Ending

\* The loop goes on with another queue.
LEMMA IniGoesOn ==
  ASSUME KInv, pc = "init_wait_queue", NEW o \in Obj,
         frame' = [frame EXCEPT !.obj = o],
         UNCHANGED << k, runtsk, pc, flags, reqflg, excpt_nest_count, locked >>
  PROVE  KInv' /\ Live = Task /\ Live' = Task /\ frame'.obj = o
<1>1. PICK I, C : KernelInv(I, C)
  BY DEF KInv
<1>2. frame \in FrameType
  BY <1>1 DEF KernelInv, ContextInv
<1>3. /\ frame' \in FrameType /\ frame'.obj = o /\ frame'.tsk = frame.tsk
      /\ frame'.exits = frame.exits /\ frame'.dspreq = frame.dspreq
  BY <1>2 DEF FrameType
<1>4. Live = Task /\ Live' = Task
  BY DEF Live, Ending
<1>5. /\ UNCHANGED << k, runtsk, pc, reqflg, excpt_nest_count, locked >>
      /\ UNCHANGED << disdsp, ipmflg, dspflg >>
  BY DEF flags
<1>6. ContextInv'
  BY <1>1, <1>3, <1>5
     DEF KernelInv, ContextInv, DispatchInv, RunsSchedtsk, NoLostRequest, DispatchAllowed,
         DspflgExact, RunningIsRunnable, IsRunnable
<1>7. LoopInv'
  BY <1>1, <1>3, <1>5 DEF KernelInv, LoopInv, Looping, IsRunnable, IsDormant
<1>8. DataInv(I, C, k, Live)'
  BY <1>1, <1>4, <1>5 DEF KernelInv
<1>9. KernelInv(I, C)'
  BY <1>6, <1>7, <1>8 DEF KernelInv
<1>10. KInv'
  BY <1>5, <1>9 DEF KInv, HasBlocks
<1>11. QED
  BY <1>3, <1>4, <1>10

\* A step of the kernel.
LEMMA KernelStep ==
  ASSUME KInv, [Next]_vars
  PROVE  KInv' /\ LeavesAlone(ComObj, k, Live, k', Live')
<1>1. PICK I, C : KernelInv(I, C)
  BY DEF KInv
<1>2. KernelInv(I, C)'
  BY <1>1, NextKeepsInv
<1>3. k'.cb = k.cb
  <2>1. CASE Calm(k, k')
    BY <2>1 DEF Calm
  <2>2. CASE DispatchTask
    BY <1>1, <2>2 DEF DispatchTask, KernelInv, DataInv, KernelData
  <2>3. QED
    BY <1>1, <2>1, <2>2, NextIsCalm
<1>4. HasBlocks(k)'
  BY <1>3 DEF KInv, HasBlocks
<1>5. QED
  BY <1>1, <1>2, <1>4, NextLeavesAlone DEF KInv

LEMMA LeavesAloneFewer ==
  ASSUME NEW O, NEW P, P \subseteq O, NEW d, NEW L, NEW d2, NEW L2,
         LeavesAlone(O, d, L, d2, L2)
  PROVE  LeavesAlone(P, d, L, d2, L2)
  BY DEF LeavesAlone

\* Nobody who waits for an object in O stops to, or changes his place.
AllStay(O, d, d2) ==
  /\ \A t \in Task : d.wobj[t] \in O => d2.wobj[t] = d.wobj[t]
  /\ \A o \in O : d2.wait_queue[o] = d.wait_queue[o]

\* The end of a wait, of another object's waiter, and a wait for one.
LEMMA FinishedLeavesAlone ==
  ASSUME NEW d, NEW L \in SUBSET Task, Correct(d, L), NEW t, NEW x, NEW ercd, NEW O, O \subseteq ComObj,
         NEW d2, Finished(d, d2, t, x, ercd)
  PROVE  LeavesAlone(O, d, L, d2, L)
<1>1. Whole(d) /\ NoObj \notin O
  BY CorrectFields, ObjNames
<1>2. QED
  BY <1>1 DEF Finished, LeavesAlone, Whole

LEMMA FinishedStay ==
  ASSUME NEW d, NEW L, Correct(d, L), NEW t, NEW x, NEW ercd, NEW O, d.wobj[t] \notin O,
         O \subseteq ComObj, NEW d2, Finished(d, d2, t, x, ercd)
  PROVE  AllStay(O, d, d2)
<1>1. Whole(d) /\ O \subseteq Obj
  BY CorrectFields, ObjNames
<1>2. QED
  BY <1>1 DEF Finished, AllStay, Whole

LEMMA StartedLeavesAlone ==
  ASSUME NEW d, NEW L \in SUBSET Task, Correct(d, L), NEW t, NEW x, NEW o, NEW O, o \notin O,
         O \subseteq ComObj, NEW d2, Started(d, d2, t, o, x)
  PROVE  LeavesAlone(O, d, L, d2, L) /\ AllStay(O, d, d2)
<1>1. Whole(d) /\ NoObj \notin O
  BY CorrectFields, ObjNames
<1>2. QED
  BY <1>1 DEF Started, LeavesAlone, AllStay, Whole

-----------------------------------------------------------------------------
\* From d to d2, only the control block of o is written.
Written(d, d2, o, x) ==
  /\ d2.wobj = d.wobj /\ d2.winfo = d.winfo /\ d2.wait_queue = d.wait_queue
  /\ d2.wercd = d.wercd /\ d2.rq = d.rq
  /\ d2.cb[o] = x /\ \A p \in ComObj \ {o} : d2.cb[p] = d.cb[p]

LEMMA Writes ==
  ASSUME NEW d, NEW L \in SUBSET Task, Correct(d, L), NEW o \in ComObj, NEW x
  PROVE  LET d2 == [d EXCEPT !.cb[o] = x]
         IN  Correct(d2, L) /\ Keeps(d, d2) /\ Written(d, d2, o, x)
<1> DEFINE d2 == [d EXCEPT !.cb[o] = x]
<1>1. /\ Correct(d2, L) /\ Keeps(d, d2) /\ d2.rq = d.rq /\ d2.wobj = d.wobj
      /\ d2.winfo = d.winfo /\ d2.wait_queue = d.wait_queue /\ d2.wercd = d.wercd
      /\ d2.cb = [d.cb EXCEPT ![o] = x]
  BY SMTT(60), SetBlock
<1> HIDE DEF d2
<1>2. DOMAIN d.cb = ComObj
  BY DEF Correct, HasBlocks
<1>3. Written(d, d2, o, x)
  BY <1>1, <1>2 DEF Written
<1>4. Correct(d2, L) /\ Keeps(d, d2) /\ Written(d, d2, o, x)
  BY <1>1, <1>3
<1>5. QED
  BY <1>4 DEF d2

LEMMA WrittenLeavesAlone ==
  ASSUME NEW d, NEW L \in SUBSET Task, NEW o, NEW x, NEW O, O \subseteq ComObj, o \notin O,
         NEW d2, Written(d, d2, o, x)
  PROVE  LeavesAlone(O, d, L, d2, L) /\ AllStay(O, d, d2)
BY DEF LeavesAlone, AllStay, Written

\* A task that stops to wait for an object in O was not given anything.
GivesNothing(O) ==
  \A t \in Live : k.wobj[t] \in O /\ k'.wobj[t] # k.wobj[t] => k'.wercd[t] # "E_OK"

\* Nothing happens but at the objects in O, and no loop begins elsewhere: a task
\* may leave another's queue, or change its place in it.
Elsewhere(O) ==
  /\ LeavesAlone(ComObj \ O, k, Live, k', Live')
  /\ GivesNothing(ComObj \ O)
  /\ OneQueueMoves(ComObj \ O, k.wait_queue, k'.wait_queue)
  /\ pc' = "init_wait_queue" =>
       \/ pc = "init_wait_queue" /\ frame'.obj = frame.obj
       \/ frame'.obj \in O \cup Sem \cup Mtx

LEMMA KernelElsewhere ==
  ASSUME KInv, [Next]_vars
  PROVE  KInv' /\ Elsewhere({})
<1>1. KInv' /\ LeavesAlone(ComObj, k, Live, k', Live')
  BY KernelStep
<1>2. pc' = "init_wait_queue" =>
        \/ pc = "init_wait_queue" /\ frame'.obj = frame.obj
        \/ frame'.obj \in Sem \cup Mtx
  <2>1. CASE UNCHANGED vars
    BY <2>1 DEF vars
  <2>2. CASE init_wait_queue
    <3>1. frame \in FrameType
      BY DEF KInv, KernelInv, ContextInv
    <3>2. QED
      BY <2>2, <3>1 DEF init_wait_queue, LoopTurn, FrameType
  <2>3. CASE Next
    BY <2>2, <2>3, WhereStepsAre
  <2>4. QED
    BY <2>1, <2>3
<1>3. GivesNothing(ComObj)
  <2>1. PICK I, C : KernelInv(I, C)
    BY DEF KInv
  <2>2. Serves(k, k', Live)
    BY <2>1, NextInOrder DEF InOrder
  <2>3. ComObj \subseteq Obj
    BY ObjNames
  <2>4. QED
    BY <2>2, <2>3 DEF Serves, GivesNothing
<1>4. ComObj \ {} = ComObj
  OBVIOUS
<1>5. OneQueueMoves(ComObj, k.wait_queue, k'.wait_queue)
  <2>1. PICK I, C : KernelInv(I, C)
    BY DEF KInv
  <2>2. QED
    BY <2>1, NextInOrder DEF InOrder
<1>6. QED
  BY <1>1, <1>2, <1>3, <1>4, <1>5 DEF Elsewhere

LEMMA FewerQueuesMove ==
  ASSUME NEW P, NEW Q, P \subseteq Q, NEW wq, NEW wq2, OneQueueMoves(Q, wq, wq2)
  PROVE  OneQueueMoves(P, wq, wq2)
BY DEF OneQueueMoves

\* The steps at other objects, in terms of the steps of a call.
LEMMA OverElsewhere ==
  ASSUME NEW result, Over(result), NEW O, LeavesAlone(ComObj \ O, k, Task, result, Task),
         AllStay(ComObj \ O, k, result)
  PROVE  KInv' /\ Elsewhere(O)
BY DEF Over, Elsewhere, AllStay, GivesNothing, OneQueueMoves

-----------------------------------------------------------------------------
(***************************************************************************)
(* Event flags.                                                            *)
(***************************************************************************)
\* The loop of set_flg over the queue q of f, after n turns: d is the data before
\* it and e what it is now.  Either a waiter of a TA_CLR flag was released and the
\* pattern is cleared, or all the waiters seen stay with a condition that fails.
AllWait(d, e, f) == \A t \in Task : d.wobj[t] = f => e.wobj[t] = f

OneReleased(d, e, f, n) ==
  LET q == d.wait_queue[f]
  IN  /\ f \in ClrFlg /\ Len(e.wait_queue[f]) < Len(q) /\ e.cb[f] = {}
      /\ \E i \in 1 .. n :
           /\ \A t \in Task : d.wobj[t] = f /\ t # q[i] => e.wobj[t] = f
           /\ \A j \in 1 .. i - 1 : ~Satisfies(d.cb[f], d.winfo[q[j]])

AllSeen(d, e, f, n) ==
  LET q == d.wait_queue[f]
  IN  /\ f \in ClrFlg => Len(e.wait_queue[f]) = Len(q) /\ AllWait(d, e, f)
      /\ e.cb[f] = d.cb[f]
      /\ \A i \in n + 1 .. Len(q) : e.wobj[q[i]] = f
      /\ \A i \in 1 .. n : e.wobj[q[i]] = f => ~Satisfies(d.cb[f], d.winfo[q[i]])

Released(d, e, f) ==
  /\ \A t \in Task : e.wobj[t] = f => d.wobj[t] = f /\ e.winfo[t] = d.winfo[t]
  /\ \A t \in Task : d.wobj[t] = f /\ e.wobj[t] # f =>
        e.winfo[t] = [flgptn |-> d.cb[f]] /\ Satisfies(d.cb[f], d.winfo[t])

Scanned(d, e, f, n) ==
  /\ Correct(e, Task) /\ Keeps(d, e) /\ LeavesAlone(ComObj \ {f}, d, Task, e, Task)
  /\ AllStay(ComObj \ {f}, d, e) /\ Released(d, e, f)
  /\ OneReleased(d, e, f, n) \/ AllSeen(d, e, f, n)

\* Those that wait for a flag do so for some pattern.
PatternsOK(d, L) == \A t \in L : d.wobj[t] \in Flg => d.winfo[t] \in WaitPtn

ScanTurn(d, f, e, t) ==
  IF f \in ClrFlg /\ Len(e.wait_queue[f]) < Len(d.wait_queue[f]) THEN e
  ELSE release_if_satisfied(e, t, f)

IsScan(g, d, f, n) ==
  g = [m \in 0 .. n |-> IF m = 0 THEN d ELSE ScanTurn(d, f, g[m - 1], d.wait_queue[f][m])]

LEMMA ScanExists ==
  ASSUME NEW d, NEW f, NEW n \in Nat
  PROVE  \E g : IsScan(g, d, f, n)
<1> DEFINE Bad == {m \in Nat : ~ \E g : IsScan(g, d, f, m)}
           m == primap_search(Bad)
           q == d.wait_queue[f]
<1> SUFFICES ASSUME Bad # {} PROVE FALSE
  OBVIOUS
<1>1. m \in Bad /\ \A j \in Bad : m <= j
  BY SearchFindsMinimum
<1>2. m \in Nat /\ ~ \E g : IsScan(g, d, f, m)
  BY <1>1
<1> HIDE DEF m
<1>3. CASE m = 0
  <2> DEFINE h == [i \in 0 .. 0 |-> d]
  <2>1. IsScan(h, d, f, 0)
    <3>1. h = [i \in 0 .. 0 |-> IF i = 0 THEN d ELSE ScanTurn(d, f, h[i - 1], q[i])]
      OBVIOUS
    <3>2. QED
      BY <3>1 DEF IsScan
  <2>2. QED
    BY <1>2, <1>3, <2>1
<1>4. CASE m > 0
  <2>1. m - 1 \in Nat /\ ~(m <= m - 1)
    BY <1>2, <1>4
  <2>2. PICK g : IsScan(g, d, f, m - 1)
    BY <1>1, <2>1
  <2>3. \A i \in 0 .. m - 1 : g[i] = IF i = 0 THEN d ELSE ScanTurn(d, f, g[i - 1], q[i])
    BY <2>2 DEF IsScan
  <2> DEFINE h == [i \in 0 .. m |-> IF i = m THEN ScanTurn(d, f, g[m - 1], q[m]) ELSE g[i]]
  <2>4. ASSUME NEW i \in 0 .. m
        PROVE  h[i] = IF i = 0 THEN d ELSE ScanTurn(d, f, h[i - 1], q[i])
    <3>1. CASE i = 0
      BY <1>2, <1>4, <2>3, <3>1
    <3>2. CASE i # 0
      <4>1. i - 1 \in 0 .. m /\ i - 1 \in 0 .. m - 1 /\ i - 1 # m
        BY <1>2, <3>2
      <4>2. h[i - 1] = g[i - 1]
        BY <4>1
      <4>3. h[i] = IF i = m THEN ScanTurn(d, f, g[m - 1], q[m]) ELSE g[i]
        OBVIOUS
      <4> HIDE DEF h
      <4>4. i # m => i \in 0 .. m - 1
        BY <1>2
      <4>5. QED
        BY <2>3, <3>2, <4>2, <4>3, <4>4
    <3>3. QED
      BY <3>1, <3>2
  <2>5. IsScan(h, d, f, m)
    BY <2>4 DEF IsScan
  <2>6. QED
    BY <1>2, <2>5
<1>5. QED
  BY <1>2, <1>3, <1>4

LEMMA ScanIs ==
  ASSUME NEW d, NEW f, NEW n \in Nat, Len(d.wait_queue[f]) = n
  PROVE  \E g : IsScan(g, d, f, n) /\ scan_waiters(d, f) = g[n]
<1> DEFINE g == CHOOSE h : IsScan(h, d, f, Len(d.wait_queue[f]))
<1>1. IsScan(g, d, f, Len(d.wait_queue[f]))
  BY ScanExists
<1>2. scan_waiters(d, f) = g[Len(d.wait_queue[f])]
  BY Zenon DEF scan_waiters, IsScan, ScanTurn
<1> HIDE DEF g
<1>3. QED
  BY <1>1, <1>2

\* One turn keeps what the loop has done so far.
LEMMA ScanStep ==
  ASSUME NEW d, Correct(d, Task), NEW f \in Flg, PatternsOK(d, Task),
         NEW n \in 1 .. Len(d.wait_queue[f]), NEW e, Scanned(d, e, f, n - 1)
  PROVE  Scanned(d, ScanTurn(d, f, e, d.wait_queue[f][n]), f, n)
<1> DEFINE q  == d.wait_queue[f]
           t  == q[n]
           w  == e.winfo[t]
           e2 == ScanTurn(d, f, e, t)
<1>1. /\ Correct(e, Task) /\ Keeps(d, e) /\ LeavesAlone(ComObj \ {f}, d, Task, e, Task)
      /\ AllStay(ComObj \ {f}, d, e) /\ Released(d, e, f)
      /\ OneReleased(d, e, f, n - 1) \/ AllSeen(d, e, f, n - 1)
  BY DEF Scanned
<1>2. f \in ComObj /\ f \in Obj /\ f # NoObj
  BY EventFlagAssumption, ObjNames
<1>3. /\ Whole(d) /\ Whole(e) /\ d.wait_queue \in [Obj -> Seq(Task)]
      /\ e.wait_queue \in [Obj -> Seq(Task)]
  BY <1>1, CorrectFields
<1>4. q \in Seq(Task) /\ e.wait_queue[f] \in Seq(Task) /\ n - 1 + 1 = n
  BY <1>2, <1>3
<1>5. t \in Task /\ t \in ToSet(q)
  BY <1>4 DEF ToSet
<1>6. \A u \in Task : d.wobj[u] = f <=> u \in ToSet(q)
  <2>1. PICK I, C : DataInv(I, C, d, Task)
    BY DEF Correct
  <2>2. QED
    BY <1>2, <2>1 DEF DataInv, QueuesInv, WaitQueueInv, QueuedWhereWaiting
<1>7. \A i, j \in 1 .. Len(q) : q[i] = q[j] => i = j
  <2>1. PICK I, C : DataInv(I, C, d, Task)
    BY DEF Correct
  <2>2. IsInjective(q)
    BY <1>2, <2>1 DEF DataInv, QueuesInv, WaitQueueInv, QueuedWhereWaiting
  <2>3. QED
    BY <1>4, <2>2 DEF IsInjective
<1>8. CASE OneReleased(d, e, f, n - 1)
  <2>1. OneReleased(d, e, f, n)
    <3>1. PICK i \in 1 .. n - 1 :
            /\ \A u \in Task : d.wobj[u] = f /\ u # q[i] => e.wobj[u] = f
            /\ \A j \in 1 .. i - 1 : ~Satisfies(d.cb[f], d.winfo[q[j]])
      BY <1>8 DEF OneReleased
    <3>2. i \in 1 .. n
      OBVIOUS
    <3>3. QED
      BY <1>8, <3>1, <3>2, Zenon DEF OneReleased
  <2>2. e2 = e
    BY <1>8 DEF OneReleased, ScanTurn
  <2>3. QED
    BY <1>1, <2>1, <2>2 DEF Scanned
<1>9. CASE AllSeen(d, e, f, n - 1)
  <2>1. e.wobj[t] = f /\ e2 = release_if_satisfied(e, t, f) /\ e.cb[f] = d.cb[f]
    <3>1. n \in n - 1 + 1 .. Len(q)
      BY <1>4
    <3>2. Len(e.wait_queue[f]) = Len(q) \/ f \notin ClrFlg
      BY <1>9 DEF AllSeen
    <3>3. e2 = release_if_satisfied(e, t, f)
      BY <1>4, <3>2 DEF ScanTurn
    <3>4. QED
      BY <1>9, <3>1, <3>3 DEF AllSeen
  <2>2. d.wobj[t] = f /\ w = d.winfo[t] /\ w \in WaitPtn
    BY <1>1, <1>5, <2>1 DEF Released, PatternsOK
  <2>3. CASE ~Satisfies(e.cb[f], w)
    <3>1. e2 = e
      BY <2>1, <2>3 DEF release_if_satisfied
    <3>2. AllSeen(d, e, f, n)
      BY <1>4, <1>9, <2>1, <2>2, <2>3 DEF AllSeen
    <3>3. QED
      BY <1>1, <3>1, <3>2 DEF Scanned
  <2>4. CASE Satisfies(e.cb[f], w)
    <3> DEFINE x  == [flgptn |-> e.cb[f]]
               e1 == end_wait([wait_dequeue_wobj(e, t) EXCEPT !.winfo[t] = x], t, "E_OK")
    <3>1. e2 = clear_by_attribute(e1, f, w)
      <4>1. wait_dequeue_wobj(e, t) = [e EXCEPT !.wait_queue[f] = queue_delete(@, t)]
        BY <1>2, <2>1 DEF wait_dequeue_wobj
      <4>2. QED
        BY <2>1, <2>4, <4>1 DEF release_if_satisfied, wait_complete_with, wait_complete
    <3> HIDE DEF e2, e1
    <3>2. Correct(e1, Task) /\ Keeps(e, e1) /\ Finished(e, e1, t, x, "E_OK")
      <4>1. IsWaiting(e, t)
        <5>1. PICK I, C : DataInv(I, C, e, Task)
          BY <1>1 DEF Correct
        <5>2. QED
          BY <1>2, <1>5, <2>1, <5>1 DEF DataInv, QueuesInv, WaitQueueInv, QueuedWhereWaiting
      <4>2. "E_OK" \in ErCd /\ Task \in SUBSET Task
        BY DEF ErCd
      <4>3. QED
        BY <1>1, <1>5, <4>1, <4>2, Finishes DEF e1
    <3>3. /\ Correct(e2, Task) /\ Keeps(e1, e2) /\ e2.wobj = e1.wobj /\ e2.winfo = e1.winfo
          /\ e2.wait_queue = e1.wait_queue
          /\ \A o \in ComObj \ {f} : e2.cb[o] = e1.cb[o]
          /\ e2.cb[f] = IF f \in ClrFlg THEN {} ELSE e1.cb[f]
      <4>1. CASE f \in ClrFlg
        <5>1. e2 = [e1 EXCEPT !.cb[f] = {}]
          BY <3>1, <4>1 DEF clear_by_attribute
        <5>2. DOMAIN e1.cb = ComObj
          BY <3>2 DEF Correct, HasBlocks
        <5>3. /\ Correct(e2, Task) /\ Keeps(e1, e2) /\ e2.wobj = e1.wobj /\ e2.winfo = e1.winfo
              /\ e2.wait_queue = e1.wait_queue /\ e2.cb = [e1.cb EXCEPT ![f] = {}]
          <6>1. Correct(e1, Task)
            BY <3>2
          <6>2. PICK y : y = {}
            OBVIOUS
          <6>3. LET d2 == [e1 EXCEPT !.cb[f] = y]
                IN  /\ Correct(d2, Task) /\ Keeps(e1, d2) /\ d2.rq = e1.rq /\ d2.wobj = e1.wobj
                    /\ d2.winfo = e1.winfo /\ d2.wait_queue = e1.wait_queue
                    /\ d2.wercd = e1.wercd /\ d2.cb = [e1.cb EXCEPT ![f] = y]
            BY SMTT(60), <6>1, SetBlock
          <6>4. e2 = [e1 EXCEPT !.cb[f] = y]
            BY <5>1, <6>2
          <6>5. QED
            BY <6>2, <6>3, <6>4
        <5>4. QED
          BY <1>2, <4>1, <5>2, <5>3
      <4>2. CASE f \notin ClrFlg
        <5>1. e2 = e1
          BY <3>1, <4>2 DEF clear_by_attribute
        <5>2. Keeps(e1, e1)
          BY <3>2 DEF Keeps
        <5>3. QED
          BY <3>2, <4>2, <5>1, <5>2
      <4>3. QED
        BY <4>1, <4>2
    <3>4. /\ e2.wobj[t] = NoObj /\ e2.winfo[t] = x
          /\ \A u \in Task : u # t => e2.wobj[u] = e.wobj[u] /\ e2.winfo[u] = e.winfo[u]
          /\ e2.wait_queue[f] = queue_delete(e.wait_queue[f], t)
          /\ \A o \in ComObj \ {f} : e2.wait_queue[o] = e.wait_queue[o]
          /\ \A o \in ComObj \ {f} : e2.cb[o] = e.cb[o]
          /\ e2.cb[f] = IF f \in ClrFlg THEN {} ELSE e.cb[f]
      <4>1. /\ e1.wobj = [e.wobj EXCEPT ![t] = NoObj] /\ e1.winfo = [e.winfo EXCEPT ![t] = x]
            /\ e1.cb = e.cb
            /\ \A o \in Obj : e1.wait_queue[o] = IF e.wobj[t] = o THEN queue_delete(e.wait_queue[o], t)
                                                  ELSE e.wait_queue[o]
        BY <3>2 DEF Finished
      <4>2. DOMAIN e.wobj = Task /\ DOMAIN e.winfo = Task
        BY <1>3 DEF Whole
      <4>3. t \in Task /\ e.wobj[t] = f /\ f \in Obj
        BY <1>2, <1>5, <2>1
      <4>4. /\ e1.wobj[t] = NoObj /\ e1.winfo[t] = x
            /\ \A u \in Task : u # t => e1.wobj[u] = e.wobj[u] /\ e1.winfo[u] = e.winfo[u]
        BY <4>1, <4>2, <4>3
      <4>5. /\ e1.wait_queue[f] = queue_delete(e.wait_queue[f], t)
            /\ \A o \in ComObj \ {f} : e1.wait_queue[o] = e.wait_queue[o]
        BY <4>1, <4>3, ObjNames
      <4>6. QED
        BY <3>3, <4>1, <4>4, <4>5
    <3>5. Keeps(d, e2)
      BY <1>1, <3>2, <3>3 DEF Keeps
    <3>6. LeavesAlone(ComObj \ {f}, d, Task, e2, Task) /\ AllStay(ComObj \ {f}, d, e2)
      <4>1. NoObj \notin ComObj
        BY ObjNames
      <4>2. LeavesAlone(ComObj \ {f}, d, Task, e2, Task)
        BY <1>1, <3>4, <4>1 DEF LeavesAlone
      <4>3. AllStay(ComObj \ {f}, d, e2)
        <5>1. \A o \in ComObj \ {f} : e2.wait_queue[o] = e.wait_queue[o]
          BY <3>4
        <5>2. QED
          BY <1>1, <2>1, <3>4, <5>1 DEF AllStay
      <4>4. QED
        BY <4>2, <4>3
    <3>7. Released(d, e2, f)
      BY ZenonT(60), <1>1, <1>2, <1>5, <2>1, <2>2, <2>4, <3>4 DEF Released
    <3>8. CASE f \in ClrFlg
      <4>1. Len(e.wait_queue[f]) = Len(q) /\ AllWait(d, e, f)
        BY <1>9, <3>8 DEF AllSeen
      <4>2. Len(e2.wait_queue[f]) < Len(q)
        <5>1. t \in ToSet(e.wait_queue[f])
          <6>1. PICK I, C : DataInv(I, C, e, Task)
            BY <1>1 DEF Correct
          <6>2. QED
            BY <1>2, <1>5, <2>1, <6>1 DEF DataInv, QueuesInv, WaitQueueInv, QueuedWhereWaiting
        <5>2. Len(queue_delete(e.wait_queue[f], t)) = Len(e.wait_queue[f]) - 1
          BY <1>4, <5>1, QueueDeleteEntries
        <5>3. QED
          BY <1>4, <3>4, <4>1, <5>2
      <4>3. ASSUME NEW j \in 1 .. n - 1 PROVE ~Satisfies(d.cb[f], d.winfo[q[j]])
        <5>1. q[j] \in Task /\ q[j] \in ToSet(q)
          BY <1>4 DEF ToSet
        <5>2. QED
          BY <1>6, <1>9, <4>1, <5>1 DEF AllSeen, AllWait
      <4>4. \A u \in Task : d.wobj[u] = f /\ u # q[n] => e2.wobj[u] = f
        BY <3>4, <4>1 DEF AllWait
      <4>5. OneReleased(d, e2, f, n)
        <5>1. n \in 1 .. n
          OBVIOUS
        <5>2. QED
          BY <3>4, <3>8, <4>2, <4>3, <4>4, <5>1 DEF OneReleased
      <4>6. QED
        BY <3>3, <3>5, <3>6, <3>7, <4>5 DEF Scanned, e2
    <3>9. CASE f \notin ClrFlg
      <4>1. \A i \in 1 .. Len(q) : q[i] \in Task /\ (i # n => q[i] # t)
        BY <1>4, <1>7
      <4>2. \A i \in n + 1 .. Len(q) : e2.wobj[q[i]] = f
        <5>1. ASSUME NEW i \in n + 1 .. Len(q) PROVE e2.wobj[q[i]] = f
          <6>1. i \in 1 .. Len(q) /\ i # n /\ i \in n - 1 + 1 .. Len(q)
            BY <1>4
          <6>2. QED
            BY <1>9, <3>4, <4>1, <6>1 DEF AllSeen
        <5>2. QED
          BY <5>1
      <4>3. \A i \in 1 .. n : e2.wobj[q[i]] = f => ~Satisfies(d.cb[f], d.winfo[q[i]])
        <5>1. ASSUME NEW i \in 1 .. n, e2.wobj[q[i]] = f PROVE ~Satisfies(d.cb[f], d.winfo[q[i]])
          <6>1. i # n
            BY <1>2, <3>4, <5>1
          <6>2. i \in 1 .. n - 1 /\ i \in 1 .. Len(q)
            BY <1>4, <6>1
          <6>3. QED
            BY <1>9, <3>4, <4>1, <5>1, <6>1, <6>2 DEF AllSeen
        <5>2. QED
          BY <5>1
      <4>4. AllSeen(d, e2, f, n)
        BY <2>1, <3>4, <3>9, <4>2, <4>3 DEF AllSeen
      <4>5. QED
        BY <3>3, <3>5, <3>6, <3>7, <4>4 DEF Scanned, e2
    <3>10. QED
      BY <3>8, <3>9
  <2>5. QED
    BY <2>3, <2>4
<1>10. QED
  BY <1>1, <1>8, <1>9

LEMMA Scans ==
  ASSUME NEW d, Correct(d, Task), NEW f \in Flg, PatternsOK(d, Task)
  PROVE  Scanned(d, scan_waiters(d, f), f, Len(d.wait_queue[f]))
<1> DEFINE q == d.wait_queue[f]
           n == Len(q)
<1>1. f \in Obj /\ d.wait_queue \in [Obj -> Seq(Task)]
  BY EventFlagAssumption, ObjNames, CorrectFields
<1>2. q \in Seq(Task)
  BY <1>1
<1>3. n \in Nat
  BY <1>2
<1>4. PICK g : IsScan(g, d, f, n) /\ scan_waiters(d, f) = g[n]
  BY <1>3, ScanIs
<1> HIDE DEF n
<1>5. \A m \in 0 .. n : g[m] = IF m = 0 THEN d ELSE ScanTurn(d, f, g[m - 1], q[m])
  BY <1>4 DEF IsScan
<1> DEFINE Bad == {m \in 0 .. n : ~Scanned(d, g[m], f, m)}
           m == primap_search(Bad)
<1>6. Scanned(d, d, f, 0)
  <2>1. /\ LeavesAlone(ComObj \ {f}, d, Task, d, Task) /\ Keeps(d, d)
        /\ AllStay(ComObj \ {f}, d, d)
    BY DEF LeavesAlone, Keeps, AllStay
  <2>2. Released(d, d, f)
    BY DEF Released
  <2>3. AllSeen(d, d, f, 0)
    <3>1. ASSUME NEW i \in 1 .. Len(q) PROVE d.wobj[q[i]] = f
      <4>1. q[i] \in Task /\ q[i] \in ToSet(q)
        BY <1>2 DEF ToSet
      <4>2. PICK I, C : DataInv(I, C, d, Task)
        BY DEF Correct
      <4>3. QED
        BY <1>1, <4>1, <4>2 DEF DataInv, QueuesInv, WaitQueueInv, QueuedWhereWaiting
    <3>2. QED
      BY <3>1 DEF AllSeen, AllWait
  <2>4. QED
    BY <2>1, <2>2, <2>3 DEF Scanned
<1>7. Bad = {}
  <2> SUFFICES ASSUME Bad # {} PROVE FALSE
    OBVIOUS
  <2>1. Bad \subseteq Nat
    BY <1>3
  <2>2. m \in Bad /\ \A j \in Bad : m <= j
    BY <2>1, SearchFindsMinimum
  <2>3. m \in 0 .. n /\ ~Scanned(d, g[m], f, m)
    BY <2>2
  <2> HIDE DEF m
  <2>4. m # 0
    BY <1>3, <1>5, <1>6, <2>3
  <2>5. m \in 1 .. n /\ m - 1 \in 0 .. n /\ ~(m <= m - 1)
    BY <1>3, <2>3, <2>4
  <2>6. Scanned(d, g[m - 1], f, m - 1)
    BY <2>2, <2>5
  <2>7. g[m] = ScanTurn(d, f, g[m - 1], q[m])
    BY <1>5, <2>3, <2>4
  <2>8. QED
    BY <2>3, <2>5, <2>6, <2>7, ScanStep DEF n
<1>8. n \in 0 .. n
  BY <1>3
<1>9. QED
  BY <1>4, <1>7, <1>8 DEF n

-----------------------------------------------------------------------------
FlagsOK(d, L) ==
  \A t \in L : d.wobj[t] \in Flg =>
    d.winfo[t] \in WaitPtn /\ ~Satisfies(d.cb[d.wobj[t]], d.winfo[t])

LEMMA NothingSatisfies ==
  ASSUME NEW w \in WaitPtn
  PROVE  ~Satisfies({}, w)
BY DEF Satisfies, WaitPtn

LEMMA FlagsLeftAlone ==
  ASSUME NEW d, NEW L, NEW d2, NEW L2, LeavesAlone(Flg, d, L, d2, L2), FlagsOK(d, L)
  PROVE  FlagsOK(d2, L2)
BY DEF LeavesAlone, FlagsOK

\* A pattern that is written may satisfy nobody who waits.
LEMMA FlagWritten ==
  ASSUME NEW d, FlagsOK(d, Task), NEW f \in Flg, NEW x, NEW d2, Written(d, d2, f, x),
         \A t \in Task : d.wobj[t] = f /\ d.winfo[t] \in WaitPtn => ~Satisfies(x, d.winfo[t])
  PROVE  FlagsOK(d2, Task)
<1>1. Flg \subseteq ComObj
  BY EventFlagAssumption
<1>2. QED
  BY <1>1 DEF FlagsOK, Written

\* Who is served at f, if anybody is when the data become e, is told a pattern that
\* satisfies him; with TA_CLR he is the first such and the only one.
GivesAt(e, f) ==
  \A t \in Task : k.wobj[t] = f /\ e.wobj[t] # f =>
    /\ Satisfies(e.winfo[t].flgptn, k.winfo[t])
    /\ f \in ClrFlg =>
         /\ e.cb[f] = {}
         /\ \A u \in Task : k.wobj[u] = f /\ e.wobj[u] # f => u = t
         /\ \A u \in Task : k.wobj[u] = f /\ Precedes(u, t, f)
                                => ~Satisfies(e.winfo[t].flgptn, k.winfo[u])

LEMMA ScanGives ==
  ASSUME Correct(k, Task), NEW f \in Flg, NEW x, NEW d, Written(k, d, f, x), NEW e,
         Scanned(d, e, f, Len(d.wait_queue[f]))
  PROVE  GivesAt(e, f)
<1> DEFINE q == d.wait_queue[f]
<1>1. /\ d.wobj = k.wobj /\ d.winfo = k.winfo /\ q = k.wait_queue[f] /\ d.cb[f] = x
      /\ f \in Obj
  BY EventFlagAssumption, ObjNames DEF Written
<1>2. q \in Seq(Task) /\ \A i, j \in 1 .. Len(q) : q[i] = q[j] => i = j
  <2>1. PICK I, C : DataInv(I, C, k, Task)
    BY DEF Correct
  <2>2. IsInjective(q)
    BY <1>1, <2>1 DEF DataInv, QueuesInv, WaitQueueInv, QueuedWhereWaiting
  <2>3. q \in Seq(Task)
    BY <1>1, CorrectFields
  <2>4. QED
    BY <2>2, <2>3 DEF IsInjective
<1> HIDE DEF q
<1>3. ASSUME NEW t \in Task, k.wobj[t] = f, e.wobj[t] # f
      PROVE  /\ e.winfo[t].flgptn = x /\ Satisfies(x, k.winfo[t])
             /\ f \in ClrFlg =>
                  /\ e.cb[f] = {}
                  /\ \A u \in Task : k.wobj[u] = f /\ e.wobj[u] # f => u = t
                  /\ \A u \in Task : k.wobj[u] = f /\ Precedes(u, t, f) => ~Satisfies(x, k.winfo[u])
  <2>1. e.winfo[t] = [flgptn |-> x] /\ Satisfies(x, k.winfo[t])
    BY <1>1, <1>3 DEF Scanned, Released
  <2>2. CASE f \in ClrFlg
    <3>1. OneReleased(d, e, f, Len(q))
      BY <1>1, <1>3, <2>2 DEF Scanned, AllSeen, AllWait, q
    <3>2. PICK i \in 1 .. Len(q) :
            /\ \A u \in Task : k.wobj[u] = f /\ u # q[i] => e.wobj[u] = f
            /\ \A j \in 1 .. i - 1 : ~Satisfies(x, k.winfo[q[j]])
      BY <1>1, <3>1 DEF OneReleased, q
    <3>3. t = q[i] /\ e.cb[f] = {}
      BY <1>3, <3>1, <3>2 DEF OneReleased
    <3>4. ASSUME NEW u \in Task, Precedes(u, t, f) PROVE ~Satisfies(x, k.winfo[u])
      <4>1. PICK a, b \in DOMAIN q : a < b /\ q[a] = u /\ q[b] = t
        BY <1>1, <1>3, <3>4 DEF Precedes
      <4>2. b = i /\ a \in 1 .. i - 1
        BY <1>2, <3>3, <4>1
      <4>3. QED
        BY <3>2, <4>1, <4>2
    <3>5. QED
      BY <2>1, <3>2, <3>3, <3>4
  <2>3. QED
    BY <2>1, <2>2
<1>4. QED
  BY <1>3 DEF GivesAt

LEMMA SetBits ==
  ASSUME Correct(k, Task), FlagsOK(k, Task), NEW f \in Flg, NEW p
  PROVE  LET e == set_bits(f, p)
         IN  /\ Correct(e, Task) /\ Keeps(k, e) /\ FlagsOK(e, Task)
             /\ LeavesAlone(ComObj \ {f}, k, Task, e, Task) /\ AllStay(ComObj \ {f}, k, e)
             /\ GivesAt(e, f)
<1> DEFINE d == [k EXCEPT !.cb[f] = @ \cup p]
           e == scan_waiters(d, f)
           x == k.cb[f] \cup p
           q == d.wait_queue[f]
<1>1. f \in ComObj /\ f \in Obj
  BY EventFlagAssumption, ObjNames
<1>2. d = [k EXCEPT !.cb[f] = x]
  OBVIOUS
<1> HIDE DEF x
<1>3. Correct(d, Task) /\ Keeps(k, d) /\ Written(k, d, f, x)
  <2>1. Task \in SUBSET Task
    OBVIOUS
  <2>2. QED
    BY <1>1, <1>2, <2>1, Writes
<1> HIDE DEF d
<1>4. PatternsOK(d, Task)
  BY <1>3 DEF Written, FlagsOK, PatternsOK
<1>5. Scanned(d, e, f, Len(q))
  BY <1>3, <1>4, Scans
<1> HIDE DEF e
<1>6. /\ LeavesAlone(ComObj \ {f}, k, Task, e, Task) /\ AllStay(ComObj \ {f}, k, e)
      /\ GivesAt(e, f)
  BY <1>3, <1>5, ScanGives DEF Scanned, LeavesAlone, AllStay, Written
<1>7. Correct(e, Task) /\ Keeps(k, e)
  BY <1>3, <1>5 DEF Scanned, Keeps
<1>8. ASSUME NEW t \in Task, e.wobj[t] \in Flg
      PROVE  e.winfo[t] \in WaitPtn /\ ~Satisfies(e.cb[e.wobj[t]], e.winfo[t])
  <2>1. CASE e.wobj[t] # f
    <3>1. e.wobj[t] \in ComObj \ {f}
      BY <1>8, <2>1, EventFlagAssumption
    <3>2. QED
      BY <1>6, <1>8, <3>1 DEF LeavesAlone, FlagsOK
  <2>2. CASE e.wobj[t] = f
    <3>1. d.wobj[t] = f /\ e.winfo[t] = d.winfo[t]
      BY <1>5, <2>2 DEF Scanned, Released
    <3>2. d.winfo[t] \in WaitPtn
      BY <1>4, <3>1 DEF PatternsOK
    <3>3. t \in ToSet(q)
      <4>1. PICK I, C : DataInv(I, C, d, Task)
        BY <1>3 DEF Correct
      <4>2. QED
        BY <1>1, <3>1, <4>1 DEF DataInv, QueuesInv, WaitQueueInv, QueuedWhereWaiting
    <3>4. q \in Seq(Task)
      BY <1>1, <1>3, CorrectFields
    <3>5. PICK i \in 1 .. Len(q) : q[i] = t
      BY <3>3, <3>4 DEF ToSet
    <3>6. CASE OneReleased(d, e, f, Len(q))
      BY <2>2, <3>1, <3>2, <3>6, NothingSatisfies DEF OneReleased
    <3>7. CASE AllSeen(d, e, f, Len(q))
      BY <2>2, <3>1, <3>2, <3>5, <3>7 DEF AllSeen
    <3>8. QED
      BY <1>5, <3>6, <3>7 DEF Scanned
  <2>3. QED
    BY <2>1, <2>2
<1>9. FlagsOK(e, Task)
  BY <1>8 DEF FlagsOK
<1>10. set_bits(f, p) = e
  BY DEF set_bits, e, d
<1>11. QED
  BY <1>6, <1>7, <1>9, <1>10

LEMMA ClearByAttribute ==
  ASSUME Correct(k, Task), FlagsOK(k, Task), NEW f \in Flg, NEW w
  PROVE  LET e == clear_by_attribute(k, f, w)
         IN  /\ Correct(e, Task) /\ Keeps(k, e) /\ e.rq = k.rq /\ FlagsOK(e, Task)
             /\ LeavesAlone(ComObj \ {f}, k, Task, e, Task) /\ AllStay(ComObj, k, e)
<1> DEFINE e == clear_by_attribute(k, f, w)
<1>1. f \in ComObj /\ Task \in SUBSET Task
  BY EventFlagAssumption
<1>2. CASE f \in ClrFlg
  <2>1. PICK y : y = {}
    OBVIOUS
  <2>2. e = [k EXCEPT !.cb[f] = y]
    BY <1>2, <2>1 DEF clear_by_attribute
  <2> HIDE DEF e
  <2>3. Correct(e, Task) /\ Keeps(k, e) /\ Written(k, e, f, y)
    BY <1>1, <2>2, Writes
  <2>4. FlagsOK(e, Task)
    BY <2>1, <2>3, FlagWritten, NothingSatisfies
  <2>5. LeavesAlone(ComObj \ {f}, k, Task, e, Task) /\ AllStay(ComObj, k, e)
    <3>1. LeavesAlone(ComObj \ {f}, k, Task, e, Task)
      BY <1>1, <2>3, WrittenLeavesAlone, Zenon
    <3>2. AllStay(ComObj, k, e)
      BY <2>3, Zenon DEF Written, AllStay
    <3>3. QED
      BY <3>1, <3>2
  <2>6. QED
    BY <2>3, <2>4, <2>5 DEF Written, e
<1>3. CASE f \notin ClrFlg
  <2>1. e = k
    BY <1>3 DEF clear_by_attribute
  <2>2. /\ Keeps(k, k) /\ LeavesAlone(ComObj \ {f}, k, Task, k, Task)
        /\ AllStay(ComObj, k, k)
    BY DEF Keeps, LeavesAlone, AllStay
  <2>3. QED
    BY <2>1, <2>2
<1>4. QED
  BY <1>2, <1>3

\* The event flags serve as FirstSatisfiedServed and ReleasedByItsCondition say.
FlagGrants ==
  \A f \in Flg, t \in Task : Granted(t, f) =>
    /\ Satisfies(k'.winfo[t].flgptn, k.winfo[t])
    /\ f \in ClrFlg =>
         /\ k'.cb[f] = {}
         /\ \A u \in Task : Granted(u, f) => u = t
         /\ \A u \in Live : k.wobj[u] = f /\ Precedes(u, t, f)
                                => ~Satisfies(k'.winfo[t].flgptn, k.winfo[u])

LEMMA NothingGranted ==
  ASSUME GivesNothing(Flg)
  PROVE  FlagGrants
BY DEF GivesNothing, Granted, FlagGrants

LEMMA FlagStep ==
  ASSUME KInv, FlagsOK(k, Live), EventFlagNext
  PROVE  KInv' /\ FlagsOK(k', Live') /\ Elsewhere(Flg) /\ FlagGrants
<1> DEFINE Goal == KInv' /\ FlagsOK(k', Live') /\ Elsewhere(Flg) /\ FlagGrants
<1>1. Flg \subseteq ComObj /\ Flg \subseteq Obj /\ Task \in SUBSET Task
  BY EventFlagAssumption, ObjNames
<1>2. ASSUME NEW e, Over(e), FlagsOK(e, Task), NEW f \in Flg,
             LeavesAlone(ComObj \ {f}, k, Task, e, Task), AllStay(ComObj \ {f}, k, e),
             GivesAt(e, f) \/ AllWait(k, e, f)
      PROVE  Goal
  <2>1. ComObj \ Flg \subseteq ComObj \ {f}
    OBVIOUS
  <2>2. LeavesAlone(ComObj \ Flg, k, Task, e, Task) /\ AllStay(ComObj \ Flg, k, e)
    BY <1>2, <2>1, LeavesAloneFewer DEF AllStay
  <2>3. KInv' /\ Elsewhere(Flg)
    BY <1>2, <2>2, OverElsewhere
  <2>4. k' = e /\ Live \subseteq Task
    BY <1>2 DEF Over, Live
  <2>5. GivesAt(e, f)
    BY <1>2 DEF GivesAt, AllWait
  <2>6. \A t \in Task : \A g \in Flg : Granted(t, g) => g = f /\ k.wobj[t] = f /\ e.wobj[t] # f
    BY <1>1, <1>2, <2>4 DEF Granted, AllStay
  <2>7. FlagGrants
    BY <2>4, <2>5, <2>6 DEF FlagGrants, GivesAt
  <2>8. QED
    BY <1>2, <2>3, <2>7 DEF Over
<1>3. ASSUME TaskContext \/ IntContext
      PROVE  Correct(k, Task) /\ FlagsOK(k, Task) /\ Live = Task
  BY <1>3, CallFacts
<1>4. ASSUME NEW f \in Flg, NEW p \in Ptn, set_flg(f, p) \/ iset_flg(f, p) PROVE Goal
  <2> DEFINE e == set_bits(f, p)
  <2>1. (TaskContext /\ TaskCall(e)) \/ (IntContext /\ IntCall(e))
    BY <1>4 DEF set_flg, iset_flg
  <2>2. /\ Correct(e, Task) /\ Keeps(k, e) /\ FlagsOK(e, Task)
        /\ LeavesAlone(ComObj \ {f}, k, Task, e, Task) /\ AllStay(ComObj \ {f}, k, e)
        /\ GivesAt(e, f)
    BY <1>3, <2>1, SetBits
  <2> HIDE DEF e
  <2>3. Over(e)
    BY <2>1, <2>2, CallIsOver
  <2>4. QED
    BY <1>2, <2>2, <2>3
<1>5. ASSUME NEW f \in Flg, NEW p \in Ptn, clr_flg(f, p) PROVE Goal
  <2> DEFINE e == [k EXCEPT !.cb[f] = @ \cap p]
             x == k.cb[f] \cap p
  <2>1. TaskContext /\ PlainCall(e) /\ e = [k EXCEPT !.cb[f] = x]
    BY <1>5 DEF clr_flg
  <2>2. \A w \in WaitPtn : ~Satisfies(k.cb[f], w) => ~Satisfies(x, w)
    BY DEF Satisfies
  <2> HIDE DEF x, e
  <2>3. Correct(k, Task) /\ FlagsOK(k, Task)
    BY <1>3, <2>1
  <2>4. Correct(e, Task) /\ Keeps(k, e) /\ Written(k, e, f, x)
    BY <1>1, <2>1, <2>3, Writes
  <2>5. \A t \in Task : k.wobj[t] = f /\ k.winfo[t] \in WaitPtn => ~Satisfies(x, k.winfo[t])
    BY <2>2, <2>3 DEF FlagsOK
  <2>6. FlagsOK(e, Task) /\ LeavesAlone(ComObj \ {f}, k, Task, e, Task)
    BY <1>1, <2>3, <2>4, <2>5, FlagWritten, WrittenLeavesAlone
  <2>7. Over(e)
    BY <2>1, <2>4, PlainCallIsOver DEF Written
  <2>8. AllStay(ComObj \ {f}, k, e) /\ AllWait(k, e, f)
    BY <2>4 DEF Written, AllStay, AllWait
  <2>9. QED
    BY <1>2, <2>6, <2>7, <2>8
<1>6. ASSUME NEW f \in Flg, NEW w \in WaitPtn, take_pattern(f, w) PROVE Goal
  <2> DEFINE e == clear_by_attribute(k, f, w)
  <2>1. TaskContext /\ PlainCall(e)
    BY <1>6 DEF take_pattern
  <2>2. Correct(k, Task) /\ FlagsOK(k, Task)
    BY <1>3, <2>1
  <2>3. /\ Correct(e, Task) /\ Keeps(k, e) /\ e.rq = k.rq /\ FlagsOK(e, Task)
        /\ LeavesAlone(ComObj \ {f}, k, Task, e, Task) /\ AllStay(ComObj, k, e)
    BY <2>2, ClearByAttribute
  <2> HIDE DEF e
  <2>4. Over(e)
    BY <2>1, <2>3, PlainCallIsOver
  <2>5. AllStay(ComObj \ {f}, k, e) /\ AllWait(k, e, f)
    BY <1>1, <2>3 DEF AllStay, AllWait
  <2>6. QED
    BY <1>2, <2>3, <2>4, <2>5
<1>7. ASSUME NEW f \in Flg, NEW w \in WaitPtn, NEW timed \in BOOLEAN, wai_flg(f, w, timed)
      PROVE  Goal
  <2> DEFINE e == wobj_make_wait_with(k, runtsk, f, timed, w)
  <2>1. MayWait /\ TaskContext /\ WaitCall(e) /\ ~Satisfies(k.cb[f], w)
    BY <1>7 DEF wai_flg, MayWait
  <2>2. Correct(k, Task) /\ FlagsOK(k, Task) /\ runtsk \in Task /\ IsRunnable(k, runtsk)
    BY <1>3, <2>1, CallFacts
  <2>3. Correct(e, Task) /\ Started(k, e, runtsk, f, w)
    BY <1>1, <2>2, Starts
  <2> HIDE DEF e
  <2>4. Over(e)
    BY <2>1, <2>3, WaitCallIsOver
  <2>5. LeavesAlone(ComObj \ {f}, k, Task, e, Task) /\ AllStay(ComObj \ {f}, k, e)
    BY <1>1, <2>2, <2>3, StartedLeavesAlone
  <2>6. FlagsOK(e, Task)
    <3>1. Whole(k)
      BY <2>2, CorrectFields
    <3>2. QED
      BY <2>1, <2>2, <2>3, <3>1 DEF FlagsOK, Started, Whole
  <2>7. AllWait(k, e, f)
    <3>1. Whole(k) /\ k.wobj[runtsk] \notin ComObj
      BY <2>2, <2>3, CorrectFields, ObjNames DEF Started
    <3>2. QED
      BY <1>1, <2>2, <2>3, <3>1 DEF Started, Whole, AllWait
  <2>8. QED
    BY <1>2, <2>4, <2>5, <2>6, <2>7
<1>8. ASSUME NEW f \in Flg, ini_flg(f) PROVE Goal
  <2>1. KInv' /\ k' = k /\ Live = Task /\ Live' = Task /\ frame'.obj = f
    BY <1>1, <1>8, IniCall DEF ini_flg
  <2>2. LeavesAlone(ComObj \ Flg, k, Live, k', Live') /\ GivesNothing(ComObj \ Flg)
    BY <2>1 DEF LeavesAlone, GivesNothing
  <2>3. FlagGrants
    BY <2>1, NothingGranted DEF GivesNothing
  <2>4. QED
    BY <2>1, <2>2, <2>3 DEF Elsewhere, OneQueueMoves
<1>9. ASSUME ini_flg_end PROVE Goal
  <2> DEFINE f == frame.obj
             x == iflgptn[f]
             e == [k EXCEPT !.cb[f] = x]
  <2>1. pc = "init_wait_queue" /\ f \in Flg /\ k.wait_queue[f] = << >> /\ LoopEnd(e)
    BY <1>9 DEF ini_flg_end
  <2>2. Correct(k, Task) /\ Live = Task
    BY <2>1, IniLoop
  <2> HIDE DEF f, x
  <2>3. Correct(e, Task) /\ Keeps(k, e) /\ Written(k, e, f, x)
    BY <1>1, <2>1, <2>2, Writes
  <2> HIDE DEF e
  <2>4. Over(e)
    BY <2>1, <2>3, IniIsOver
  <2>5. LeavesAlone(ComObj \ {f}, k, Task, e, Task)
    BY <1>1, <2>1, <2>3, WrittenLeavesAlone
  <2>6. \A t \in Task : k.wobj[t] # f
    BY <1>1, <2>1, <2>2, EmptyQueue
  <2>7. FlagsOK(e, Task)
    BY <2>1, <2>2, <2>3, <2>6, FlagWritten
  <2>8. AllStay(ComObj \ {f}, k, e) /\ AllWait(k, e, f)
    BY <2>3 DEF Written, AllStay, AllWait
  <2>9. QED
    BY <1>2, <2>1, <2>4, <2>5, <2>7, <2>8
<1>10. ASSUME init_wait_queue PROVE Goal
  <2>1. [Next]_vars
    BY <1>10 DEF Next, SemaphoreNext
  <2>2. KInv' /\ Elsewhere({})
    BY <2>1, KernelElsewhere
  <2>3. Flg \subseteq ComObj \ {} /\ ComObj \ Flg \subseteq ComObj \ {}
    BY <1>1
  <2>4. /\ LeavesAlone(ComObj \ {}, k, Live, k', Live') /\ GivesNothing(ComObj \ {})
        /\ OneQueueMoves(ComObj \ Flg, k.wait_queue, k'.wait_queue)
    BY <2>2, <2>3, FewerQueuesMove DEF Elsewhere
  <2>5. LeavesAlone(Flg, k, Live, k', Live') /\ LeavesAlone(ComObj \ Flg, k, Live, k', Live')
    BY <2>3, <2>4, LeavesAloneFewer
  <2>6. GivesNothing(ComObj \ Flg) /\ GivesNothing(Flg)
    BY <2>3, <2>4 DEF GivesNothing
  <2>7. QED
    BY <2>2, <2>4, <2>5, <2>6, FlagsLeftAlone, NothingGranted DEF Elsewhere
<1>11. QED
  BY <1>4, <1>5, <1>6, <1>7, <1>8, <1>9, <1>10 DEF EventFlagNext

-----------------------------------------------------------------------------
(***************************************************************************)
(* Data queues.                                                            *)
(***************************************************************************)
LEMMA ModulusIs ==
  ASSUME NEW a \in Nat, NEW n \in Nat, n > 0
  PROVE  /\ a < n => a % n = a
         /\ a >= n /\ a < n + n => a % n = a - n
<1>1. a < n => a % n = a
  BY Z3
<1>2. a >= n /\ a < n + n => a % n = a - n
  BY Z3
<1>3. QED
  BY <1>1, <1>2

\* The i-th slot of a ring with n slots, for i up to twice as many.
Slot(n, i) == IF i < n THEN i ELSE i - n

\* Slot i is one of the c slots from h on.
Used(n, h, c, i) == (h <= i /\ i < h + c) \/ i + n < h + c

LEMMA UsedSlots ==
  ASSUME NEW n \in Nat, n > 0, NEW h \in 0 .. n - 1, NEW c \in 0 .. n, NEW i \in 0 .. n - 1
  PROVE  /\ c < n => (Used(n, h, c + 1, i) <=> i = Slot(n, h + c) \/ Used(n, h, c, i))
         /\ c > 0 => (Used(n, IF h + 1 >= n THEN 0 ELSE h + 1, c - 1, i) <=> i # h /\ Used(n, h, c, i))
         /\ c = n => Used(n, h, c, i)
<1>1. c < n => (Used(n, h, c + 1, i) <=> i = Slot(n, h + c) \/ Used(n, h, c, i))
  <2>1. CASE h + c < n
    BY <2>1 DEF Used, Slot
  <2>2. CASE h + c >= n
    BY <2>2 DEF Used, Slot
  <2>3. QED
    BY <2>1, <2>2
<1>2. c > 0 => (Used(n, IF h + 1 >= n THEN 0 ELSE h + 1, c - 1, i) <=> i # h /\ Used(n, h, c, i))
  <2>1. CASE h + 1 >= n
    BY <2>1 DEF Used
  <2>2. CASE h + 1 < n
    BY <2>2 DEF Used
  <2>3. QED
    BY <2>1, <2>2
<1>3. c = n => Used(n, h, c, i)
  BY DEF Used
<1>4. QED
  BY <1>1, <1>2, <1>3

\* The n slots of b: those with data are the count slots from head on.
Ring(b, n) ==
  /\ b \in [count : 0 .. n, head : 0 .. n, tail : 0 .. n, mb : [0 .. n - 1 -> Data \cup {NoInfo}]]
  /\ n > 0 => b.head < n /\ b.tail = Slot(n, b.head + b.count)
  /\ \A i \in 0 .. n - 1 :
        b.mb[i] \in Data <=> Used(n, b.head, b.count, i)

LEMMA RingFields ==
  ASSUME NEW n \in Nat, NEW b, Ring(b, n)
  PROVE  /\ b.count \in 0 .. n /\ b.head \in 0 .. n /\ b.tail \in 0 .. n
         /\ b.mb \in [0 .. n - 1 -> Data \cup {NoInfo}]
         /\ n > 0 => /\ b.head \in 0 .. n - 1 /\ b.tail \in 0 .. n - 1
                     /\ b.tail = Slot(n, b.head + b.count)
<1>1. /\ b.count \in 0 .. n /\ b.head \in 0 .. n /\ b.tail \in 0 .. n
      /\ b.mb \in [0 .. n - 1 -> Data \cup {NoInfo}]
  BY DEF Ring
<1>2. QED
  BY <1>1 DEF Ring, Slot

\* What is read off the ring.
LEMMA RingMeans ==
  ASSUME NEW n \in Nat, NEW b, Ring(b, n)
  PROVE  LET used == {(b.head + i) % n : i \in 0 .. b.count - 1}
         IN  /\ b.count \in 0 .. n
             /\ n > 0 => b.head \in DOMAIN b.mb /\ b.tail = (b.head + b.count) % n
             /\ \A i \in DOMAIN b.mb : b.mb[i] \in Data <=> i \in used
<1> DEFINE used == {(b.head + i) % n : i \in 0 .. b.count - 1}
<1>1. /\ b.count \in 0 .. n /\ b.head \in 0 .. n /\ b.tail \in 0 .. n
      /\ b.mb \in [0 .. n - 1 -> Data \cup {NoInfo}]
      /\ n > 0 => /\ b.head \in 0 .. n - 1 /\ b.tail \in 0 .. n - 1
                  /\ b.tail = Slot(n, b.head + b.count)
  BY RingFields
<1>2. ASSUME n > 0, NEW i \in 0 .. n PROVE (b.head + i) % n = Slot(n, b.head + i)
  <2>1. b.head + i \in Nat
    BY <1>1
  <2>2. b.head + i < n + n
    BY <1>1, <1>2
  <2>3. QED
    BY <1>2, <2>1, <2>2, ModulusIs DEF Slot
<1>3. ASSUME NEW j \in 0 .. n - 1 PROVE b.mb[j] \in Data <=> j \in used
  <2>1. n > 0
    OBVIOUS
  <2>2. j \in used <=> \E i \in 0 .. b.count - 1 : j = Slot(n, b.head + i)
    <3>1. \A i \in 0 .. b.count - 1 : i \in 0 .. n
      BY <1>1
    <3>2. QED
      BY <1>2, <2>1, <3>1
  <2>3. (\E i \in 0 .. b.count - 1 : j = Slot(n, b.head + i))
          <=> (b.head <= j /\ j < b.head + b.count) \/ j + n < b.head + b.count
    <3>1. ASSUME NEW i \in 0 .. b.count - 1, j = Slot(n, b.head + i)
          PROVE  (b.head <= j /\ j < b.head + b.count) \/ j + n < b.head + b.count
      BY <1>1, <3>1 DEF Slot
    <3>2. ASSUME b.head <= j, j < b.head + b.count
          PROVE  j - b.head \in 0 .. b.count - 1 /\ j = Slot(n, b.head + (j - b.head))
      BY <1>1, <3>2 DEF Slot
    <3>3. ASSUME j + n < b.head + b.count
          PROVE  (j + n) - b.head \in 0 .. b.count - 1 /\ j = Slot(n, b.head + ((j + n) - b.head))
      BY <1>1, <2>1, <3>3 DEF Slot
    <3>4. QED
      BY <3>1, <3>2, <3>3
  <2>4. QED
    BY <2>2, <2>3 DEF Ring, Used
<1>4. DOMAIN b.mb = 0 .. n - 1
  BY <1>1
<1>5. n > 0 => b.tail = (b.head + b.count) % n
  BY <1>1, <1>2
<1>6. QED
  BY <1>1, <1>3, <1>4, <1>5

\* One slot more at the end, one less at the start.
LEMMA NextSlot ==
  ASSUME NEW n \in Nat, NEW h \in 0 .. n - 1, NEW c \in 0 .. n - 1,
         NEW t \in Nat, t = Slot(n, h + c)
  PROVE  LET u == IF t + 1 >= n THEN 0 ELSE t + 1
         IN  u = Slot(n, h + (c + 1)) /\ u \in 0 .. n - 1
BY DEF Slot

LEMMA SameSlot ==
  ASSUME NEW n \in Nat, NEW h \in 0 .. n - 1, NEW c \in 1 .. n
  PROVE  Slot(n, h + c) = Slot(n, (IF h + 1 >= n THEN 0 ELSE h + 1) + (c - 1))
<1>1. CASE h + 1 >= n
  BY <1>1 DEF Slot
<1>2. CASE h + 1 < n
  BY <1>2 DEF Slot
<1>3. QED
  BY <1>1, <1>2

LEMMA RingEnqueue ==
  ASSUME NEW q \in Dtq, NEW b, Ring(b, dtqcnt[q]), b.count < dtqcnt[q], NEW x \in Data
  PROVE  LET e == enqueue_data(b, q, x)
         IN  Ring(e, dtqcnt[q]) /\ e.count = b.count + 1
<1> DEFINE n == dtqcnt[q]
           e == enqueue_data(b, q, x)
<1>1. n \in Nat
  BY DataQueueAssumption
<1>2. e = [b EXCEPT !.mb[b.tail] = x, !.count = @ + 1, !.tail = IF @ + 1 >= n THEN 0 ELSE @ + 1]
  BY DEF enqueue_data, advance
<1> HIDE DEF n, e
<1>3. Ring(b, n) /\ b.count < n
  BY DEF n
<1>4. /\ b.count \in 0 .. n /\ b.head \in 0 .. n /\ b.tail \in 0 .. n
      /\ b.mb \in [0 .. n - 1 -> Data \cup {NoInfo}]
      /\ n > 0 => /\ b.head \in 0 .. n - 1 /\ b.tail \in 0 .. n - 1
                  /\ b.tail = Slot(n, b.head + b.count)
  BY <1>1, <1>3, RingFields
<1>5. /\ e = [count |-> b.count + 1, head |-> b.head,
              tail |-> IF b.tail + 1 >= n THEN 0 ELSE b.tail + 1, mb |-> [b.mb EXCEPT ![b.tail] = x]]
  BY <1>2, <1>3 DEF Ring
<1>6. n > 0 /\ b.count + 1 \in 0 .. n
  BY <1>1, <1>3, <1>4
<1>7. e.tail \in 0 .. n - 1 /\ e.tail = Slot(n, b.head + (b.count + 1))
  <2>1. b.head \in 0 .. n - 1 /\ b.count \in 0 .. n - 1 /\ b.tail \in Nat
    BY <1>1, <1>3, <1>4, <1>6
  <2>2. b.tail = Slot(n, b.head + b.count)
    BY <1>4, <1>6
  <2> DEFINE u == IF b.tail + 1 >= n THEN 0 ELSE b.tail + 1
  <2>3. u = Slot(n, b.head + (b.count + 1)) /\ u \in 0 .. n - 1
    BY <1>1, <2>1, <2>2, NextSlot
  <2>4. e.tail = u
    BY <1>5
  <2>5. QED
    BY <2>3, <2>4
<1>8. e.mb \in [0 .. n - 1 -> Data \cup {NoInfo}]
  BY <1>4, <1>5
<1>9. e.head = b.head /\ e.count = b.count + 1 /\ e.mb = [b.mb EXCEPT ![b.tail] = x]
  BY <1>5
<1>10. e \in [count : 0 .. n, head : 0 .. n, tail : 0 .. n, mb : [0 .. n - 1 -> Data \cup {NoInfo}]]
  BY <1>1, <1>4, <1>5, <1>6, <1>7, <1>8
<1>11. ASSUME NEW i \in 0 .. n - 1
       PROVE  e.mb[i] \in Data <=> Used(n, e.head, e.count, i)
  <2>1. e.mb[i] \in Data <=> i = b.tail \/ b.mb[i] \in Data
    BY <1>4, <1>6, <1>9
  <2>2. b.mb[i] \in Data <=> Used(n, b.head, b.count, i)
    BY <1>3 DEF Ring
  <2>3. Used(n, b.head, b.count + 1, i) <=> i = b.tail \/ Used(n, b.head, b.count, i)
    BY <1>1, <1>3, <1>4, <1>6, UsedSlots
  <2>4. QED
    BY <1>9, <2>1, <2>2, <2>3
<1>12. Ring(e, n)
  <2>1. e.head < n /\ e.tail = Slot(n, e.head + e.count)
    BY <1>1, <1>4, <1>6, <1>7, <1>9
  <2>2. QED
    BY <1>10, <1>11, <2>1 DEF Ring
<1>13. QED
  BY <1>9, <1>12 DEF n, e

LEMMA RingDequeue ==
  ASSUME NEW q \in Dtq, NEW b, Ring(b, dtqcnt[q]), b.count > 0
  PROVE  LET e == dequeue_data(b, q)
         IN  Ring(e, dtqcnt[q]) /\ e.count = b.count - 1
<1> DEFINE n == dtqcnt[q]
           e == dequeue_data(b, q)
<1>1. n \in Nat
  BY DataQueueAssumption
<1>2. e = [b EXCEPT !.mb[b.head] = NoInfo, !.count = @ - 1, !.head = IF @ + 1 >= n THEN 0 ELSE @ + 1]
  BY DEF dequeue_data, advance
<1> HIDE DEF n, e
<1>3. Ring(b, n) /\ b.count > 0
  BY DEF n
<1>4. /\ b.count \in 0 .. n /\ b.head \in 0 .. n /\ b.tail \in 0 .. n
      /\ b.mb \in [0 .. n - 1 -> Data \cup {NoInfo}]
      /\ n > 0 => /\ b.head \in 0 .. n - 1 /\ b.tail \in 0 .. n - 1
                  /\ b.tail = Slot(n, b.head + b.count)
  BY <1>1, <1>3, RingFields
<1>5. e = [count |-> b.count - 1, head |-> IF b.head + 1 >= n THEN 0 ELSE b.head + 1,
           tail |-> b.tail, mb |-> [b.mb EXCEPT ![b.head] = NoInfo]]
  BY <1>2, <1>3 DEF Ring
<1>6. n > 0 /\ b.count - 1 \in 0 .. n
  BY <1>1, <1>3, <1>4
<1>7. /\ e.head = (IF b.head + 1 >= n THEN 0 ELSE b.head + 1) /\ e.head \in 0 .. n - 1
      /\ e.tail = b.tail /\ e.count = b.count - 1 /\ e.mb = [b.mb EXCEPT ![b.head] = NoInfo]
  BY <1>1, <1>4, <1>5, <1>6
<1>8. e.tail = Slot(n, e.head + e.count)
  <2>1. b.head \in 0 .. n - 1 /\ b.count \in 1 .. n
    BY <1>1, <1>3, <1>4, <1>6
  <2> DEFINE u == IF b.head + 1 >= n THEN 0 ELSE b.head + 1
  <2>2. Slot(n, b.head + b.count) = Slot(n, u + (b.count - 1))
    BY <1>1, <2>1, SameSlot
  <2>3. e.head = u /\ e.count = b.count - 1 /\ e.tail = b.tail
    BY <1>7
  <2> HIDE DEF u
  <2>4. e.tail = Slot(n, b.head + b.count)
    BY <1>4, <1>6, <2>3
  <2>5. QED
    BY <2>2, <2>3, <2>4
<1>9. e \in [count : 0 .. n, head : 0 .. n, tail : 0 .. n, mb : [0 .. n - 1 -> Data \cup {NoInfo}]]
  <2>1. e.mb \in [0 .. n - 1 -> Data \cup {NoInfo}]
    BY <1>4, <1>7
  <2>2. e.head \in 0 .. n /\ e.tail \in 0 .. n /\ e.count \in 0 .. n
    BY <1>1, <1>4, <1>6, <1>7
  <2>3. e = [count |-> e.count, head |-> e.head, tail |-> e.tail, mb |-> e.mb]
    BY <1>5
  <2>4. QED
    BY <2>1, <2>2, <2>3
<1>10. ASSUME NEW i \in 0 .. n - 1
       PROVE  e.mb[i] \in Data <=> Used(n, e.head, e.count, i)
  <2>1. e.mb[i] \in Data <=> i # b.head /\ b.mb[i] \in Data
    BY <1>4, <1>6, <1>7, DataQueueAssumption
  <2>2. b.mb[i] \in Data <=> Used(n, b.head, b.count, i)
    BY <1>3 DEF Ring
  <2>3. Used(n, e.head, b.count - 1, i) <=> i # b.head /\ Used(n, b.head, b.count, i)
    <3>1. Used(n, IF b.head + 1 >= n THEN 0 ELSE b.head + 1, b.count - 1, i)
            <=> i # b.head /\ Used(n, b.head, b.count, i)
      BY <1>1, <1>3, <1>4, <1>6, UsedSlots
    <3>2. QED
      BY <1>7, <3>1
  <2>4. QED
    BY <1>7, <2>1, <2>2, <2>3
<1>11. Ring(e, n)
  <2>1. e.head < n /\ e.tail = Slot(n, e.head + e.count)
    BY <1>1, <1>6, <1>7, <1>8
  <2>2. QED
    BY <1>9, <1>10, <2>1 DEF Ring
<1>12. QED
  BY <1>7, <1>11 DEF n, e

LEMMA RingForce ==
  ASSUME NEW q \in Dtq, NEW b, Ring(b, dtqcnt[q]), dtqcnt[q] > 0, b.count = dtqcnt[q], NEW x \in Data
  PROVE  LET e == force_enqueue_data(b, q, x)
         IN  Ring(e, dtqcnt[q]) /\ e.count = b.count
<1> DEFINE n == dtqcnt[q]
           e == force_enqueue_data(b, q, x)
<1>1. n \in Nat
  BY DataQueueAssumption
<1>2. e = [b EXCEPT !.mb[b.tail] = x, !.tail = IF @ + 1 >= n THEN 0 ELSE @ + 1,
                    !.head = IF b.tail + 1 >= n THEN 0 ELSE b.tail + 1]
  BY <1>1 DEF force_enqueue_data, advance
<1> HIDE DEF n, e
<1>3. Ring(b, n) /\ b.count = n /\ n > 0
  BY DEF n
<1>4. /\ b.count \in 0 .. n /\ b.mb \in [0 .. n - 1 -> Data \cup {NoInfo}]
      /\ b.head \in 0 .. n - 1 /\ b.tail \in 0 .. n - 1
      /\ b.tail = Slot(n, b.head + b.count)
  BY <1>1, <1>3, RingFields
<1>5. e = [count |-> b.count, head |-> IF b.tail + 1 >= n THEN 0 ELSE b.tail + 1,
           tail |-> IF b.tail + 1 >= n THEN 0 ELSE b.tail + 1, mb |-> [b.mb EXCEPT ![b.tail] = x]]
  BY <1>2, <1>3 DEF Ring
<1>6. /\ e.head = (IF b.tail + 1 >= n THEN 0 ELSE b.tail + 1) /\ e.head \in 0 .. n - 1
      /\ e.tail = e.head /\ e.count = n /\ e.mb = [b.mb EXCEPT ![b.tail] = x]
  BY <1>1, <1>3, <1>4, <1>5
<1>7. e.tail = Slot(n, e.head + e.count)
  BY <1>1, <1>3, <1>6 DEF Slot
<1>8. e \in [count : 0 .. n, head : 0 .. n, tail : 0 .. n, mb : [0 .. n - 1 -> Data \cup {NoInfo}]]
  <2>1. e.mb \in [0 .. n - 1 -> Data \cup {NoInfo}]
    BY <1>4, <1>6
  <2>2. e.head \in 0 .. n /\ e.tail \in 0 .. n /\ e.count \in 0 .. n
    BY <1>1, <1>6
  <2>3. e = [count |-> e.count, head |-> e.head, tail |-> e.tail, mb |-> e.mb]
    BY <1>5
  <2>4. QED
    BY <2>1, <2>2, <2>3
<1>9. ASSUME NEW i \in 0 .. n - 1
      PROVE  e.mb[i] \in Data <=> Used(n, e.head, e.count, i)
  <2>1. e.mb[i] \in Data <=> i = b.tail \/ b.mb[i] \in Data
    BY <1>4, <1>6
  <2>2. b.mb[i] \in Data <=> Used(n, b.head, b.count, i)
    BY <1>3 DEF Ring
  <2>3. Used(n, b.head, n, i) /\ Used(n, e.head, n, i)
    <3>1. n \in 0 .. n /\ n > 0
      BY <1>1, <1>3
    <3>2. Used(n, b.head, n, i)
      BY <1>1, <1>4, <3>1, UsedSlots
    <3>3. Used(n, e.head, n, i)
      BY <1>1, <1>6, <3>1, UsedSlots
    <3>4. QED
      BY <3>2, <3>3
  <2>4. QED
    BY <1>3, <1>6, <2>1, <2>2, <2>3
<1>10. Ring(e, n)
  BY <1>3, <1>6, <1>7, <1>8, <1>9 DEF Ring
<1>11. QED
  BY <1>3, <1>6, <1>10 DEF n, e

LEMMA RingEmpty ==
  ASSUME NEW q \in Dtq
  PROVE  Ring(EmptyRing(q), dtqcnt[q])
<1>1. dtqcnt[q] \in Nat /\ NoInfo \notin Data
  BY DataQueueAssumption
<1>2. QED
  BY <1>1 DEF Ring, EmptyRing, Slot, Used

-----------------------------------------------------------------------------
\* The data queue q: its ring is right, its receivers wait for nothing that is
\* there, its senders for room only.
QueueOK(d, L, q) ==
  /\ Ring(d.cb[q], dtqcnt[q])
  /\ \A t \in L : d.wobj[t] = rwait[q] => d.cb[q].count = 0 /\ \A u \in L : d.wobj[u] # q
  /\ \A t \in L : d.wobj[t] = q => d.winfo[t] \in Data /\ d.cb[q].count = dtqcnt[q]

QueuesOK(d, L) == \A q \in Dtq : QueueOK(d, L, q)

DtqObj == Dtq \cup Range(rwait)

LEMMA DtqNames ==
  /\ \A q \in Dtq : /\ q \in ComObj /\ q \in Obj /\ rwait[q] \in ComObj /\ rwait[q] \in Obj
                    /\ rwait[q] # q /\ rwait[q] \in DtqObj /\ q \in DtqObj /\ dtqcnt[q] \in Nat
  /\ \A q, r \in Dtq : q # r => rwait[q] # rwait[r] /\ rwait[q] # r
  /\ NoObj \notin ComObj /\ DtqObj \subseteq ComObj /\ NoInfo \notin Data
<1>1. rwait \in [Dtq -> ComObj \ (Dtq \cup TPriObj)] /\ IsInjective(rwait)
  BY DataQueueAssumption
<1>2. ComObj \subseteq Obj /\ NoObj \notin ComObj
  BY ObjNames
<1>3. \A q \in Dtq : rwait[q] \in Range(rwait)
  BY <1>1 DEF Range
<1>4. Range(rwait) \subseteq ComObj
  BY <1>1 DEF Range
<1>5. \A q, r \in Dtq : q # r => rwait[q] # rwait[r] /\ rwait[q] # r
  BY <1>1 DEF IsInjective
<1>6. QED
  BY <1>1, <1>2, <1>3, <1>4, <1>5, DataQueueAssumption DEF DtqObj

LEMMA QueuesLeftAlone ==
  ASSUME NEW d, NEW L, NEW d2, NEW L2, LeavesAlone(DtqObj, d, L, d2, L2), QueuesOK(d, L)
  PROVE  QueuesOK(d2, L2)
<1>1. ASSUME NEW q \in Dtq PROVE QueueOK(d2, L2, q)
  <2>1. QueueOK(d, L, q) /\ q \in DtqObj /\ rwait[q] \in DtqObj
    BY DtqNames DEF QueuesOK
  <2>2. d2.cb[q] = d.cb[q]
    BY <2>1 DEF LeavesAlone
  <2>3. \A t \in L2 : d2.wobj[t] \in {q, rwait[q]} =>
            t \in L /\ d.wobj[t] = d2.wobj[t] /\ d2.winfo[t] = d.winfo[t]
    BY <2>1 DEF LeavesAlone
  <2>4. QED
    BY <2>1, <2>2, <2>3 DEF QueueOK
<1>2. QED
  BY <1>1 DEF QueuesOK

\* What is done at q is done at no other queue.
LEMMA OtherQueues ==
  ASSUME NEW d, NEW L, QueuesOK(d, L), NEW q \in Dtq, NEW e,
         LeavesAlone(ComObj \ {q, rwait[q]}, d, L, e, L), QueueOK(e, L, q)
  PROVE  QueuesOK(e, L)
<1>1. ASSUME NEW r \in Dtq, r # q PROVE QueueOK(e, L, r)
  <2>1. QueueOK(d, L, r) /\ r \in ComObj \ {q, rwait[q]} /\ rwait[r] \in ComObj \ {q, rwait[q]}
    BY <1>1, DtqNames DEF QueuesOK
  <2>2. e.cb[r] = d.cb[r]
    BY <2>1 DEF LeavesAlone
  <2>3. \A t \in L : e.wobj[t] \in {r, rwait[r]} =>
            d.wobj[t] = e.wobj[t] /\ e.winfo[t] = d.winfo[t]
    BY <2>1 DEF LeavesAlone
  <2>4. QED
    BY <2>1, <2>2, <2>3 DEF QueueOK
<1>2. QED
  BY <1>1 DEF QueuesOK

\* What a call does at q.
AtQueue(d, L, e, q) ==
  /\ Correct(e, L) /\ Keeps(d, e) /\ QueuesOK(e, L)
  /\ LeavesAlone(ComObj \ {q, rwait[q]}, d, L, e, L) /\ AllStay(ComObj \ {q, rwait[q]}, d, e)

\* Somebody's wait at q ends.
LEMMA FinishedAtQueue ==
  ASSUME NEW d, NEW L \in SUBSET Task, Correct(d, L), QueuesOK(d, L), NEW q \in Dtq,
         NEW t \in L, d.wobj[t] \in {q, rwait[q]}, NEW x, NEW ercd,
         NEW e, Correct(e, L), Keeps(d, e), Finished(d, e, t, x, ercd)
  PROVE  AtQueue(d, L, e, q)
<1>1. LeavesAlone(ComObj, d, L, e, L)
  BY FinishedLeavesAlone
<1>2. LeavesAlone(DtqObj, d, L, e, L) /\ LeavesAlone(ComObj \ {q, rwait[q]}, d, L, e, L)
  <2>1. DtqObj \subseteq ComObj /\ ComObj \ {q, rwait[q]} \subseteq ComObj
    BY DtqNames
  <2>2. QED
    BY <1>1, <2>1, LeavesAloneFewer
<1>3. AllStay(ComObj \ {q, rwait[q]}, d, e)
  BY FinishedStay
<1>4. QED
  BY <1>2, <1>3, QueuesLeftAlone DEF AtQueue

\* The ring of q is written.
LEMMA WrittenAtQueue ==
  ASSUME NEW d, NEW L \in SUBSET Task, QueuesOK(d, L), NEW q \in Dtq, NEW b,
         Ring(b, dtqcnt[q]),
         \A t \in L : d.wobj[t] = rwait[q] => b.count = 0,
         \A t \in L : d.wobj[t] = q => b.count = dtqcnt[q],
         NEW e, Correct(e, L), Keeps(d, e), Written(d, e, q, b)
  PROVE  AtQueue(d, L, e, q)
<1>1. QueueOK(d, L, q)
  BY DEF QueuesOK
<1>2. QueueOK(e, L, q)
  BY <1>1 DEF QueueOK, Written
<1>3. LeavesAlone(ComObj \ {q, rwait[q]}, d, L, e, L) /\ AllStay(ComObj \ {q, rwait[q]}, d, e)
  BY WrittenLeavesAlone
<1>4. QED
  BY <1>2, <1>3, OtherQueues DEF AtQueue

LEMMA HandsOver ==
  ASSUME NEW d, NEW L \in SUBSET Task, Correct(d, L), QueuesOK(d, L), NEW q \in Dtq,
         d.wait_queue[rwait[q]] # << >>, NEW x
  PROVE  LET e == hand_over(d, q, x)
         IN  AtQueue(d, L, e, q) /\ e.cb = d.cb
<1> DEFINE t == Head(d.wait_queue[rwait[q]])
           e == hand_over(d, q, x)
<1>1. rwait[q] \in Obj
  BY DtqNames
<1>2. e = wait_complete_with(queue_delete_next(d, rwait[q]), t, x)
  BY DEF hand_over
<1>3. t \in L /\ d.wobj[t] = rwait[q] /\ Correct(e, L) /\ Keeps(d, e) /\ Finished(d, e, t, x, "E_OK")
  <2> HIDE DEF e
  <2>1. LET f == wait_complete_with(queue_delete_next(d, rwait[q]), t, x)
        IN  t \in L /\ d.wobj[t] = rwait[q] /\ Correct(f, L) /\ Keeps(d, f) /\ Finished(d, f, t, x, "E_OK")
    BY <1>1, Grants
  <2>2. QED
    BY <1>2, <2>1
<1> HIDE DEF t, e
<1>4. AtQueue(d, L, e, q)
  BY <1>3, FinishedAtQueue
<1>5. QED
  BY <1>3, <1>4 DEF Finished, e

LEMMA Sends ==
  ASSUME NEW d, NEW L \in SUBSET Task, Correct(d, L), QueuesOK(d, L), NEW q \in Dtq, NEW x \in Data,
         CanSend(d, q)
  PROVE  LET e == send_data(d, q, x)
         IN  AtQueue(d, L, e, q) /\ e.cb[q].count <= d.cb[q].count + 1
<1> DEFINE e == send_data(d, q, x)
<1>1. q \in ComObj /\ rwait[q] \in Obj /\ dtqcnt[q] \in Nat
  BY DtqNames
<1>2. QueueOK(d, L, q) /\ Ring(d.cb[q], dtqcnt[q])
  BY DEF QueuesOK, QueueOK
<1>3. d.cb[q].count \in 0 .. dtqcnt[q]
  BY <1>1, <1>2, RingFields
<1>4. CASE d.wait_queue[rwait[q]] # << >>
  <2>1. e = hand_over(d, q, x)
    BY <1>4 DEF send_data
  <2> HIDE DEF e
  <2>2. AtQueue(d, L, e, q) /\ e.cb = d.cb
    BY <1>4, <2>1, HandsOver
  <2>3. QED
    BY <1>1, <1>3, <2>2 DEF e
<1>5. CASE d.wait_queue[rwait[q]] = << >>
  <2> DEFINE b == enqueue_data(d.cb[q], q, x)
  <2>1. e = [d EXCEPT !.cb[q] = b] /\ d.cb[q].count < dtqcnt[q]
    BY <1>5 DEF send_data, CanSend
  <2>2. Ring(b, dtqcnt[q]) /\ b.count = d.cb[q].count + 1
    BY <1>2, <2>1, RingEnqueue
  <2> HIDE DEF b, e
  <2>3. Correct(e, L) /\ Keeps(d, e) /\ Written(d, e, q, b)
    BY <1>1, <2>1, Writes
  <2>4. \A t \in L : d.wobj[t] # rwait[q]
    BY <1>1, <1>5, EmptyQueue
  <2>5. \A t \in L : d.wobj[t] # q
    BY <1>1, <1>2, <1>3, <2>1 DEF QueueOK
  <2>6. AtQueue(d, L, e, q)
    BY <2>2, <2>3, <2>4, <2>5, WrittenAtQueue
  <2>7. e.cb[q] = b
    BY <1>1, <2>3 DEF Written
  <2>8. QED
    BY <1>1, <1>3, <2>2, <2>6, <2>7 DEF e
<1>6. QED
  BY <1>4, <1>5

LEMMA ForcedSends ==
  ASSUME NEW d, NEW L \in SUBSET Task, Correct(d, L), QueuesOK(d, L), NEW q \in Dtq, NEW x \in Data,
         dtqcnt[q] > 0
  PROVE  AtQueue(d, L, force_send_data(d, q, x), q)
<1> DEFINE e == force_send_data(d, q, x)
<1>1. q \in ComObj /\ rwait[q] \in Obj /\ dtqcnt[q] \in Nat
  BY DtqNames
<1>2. QueueOK(d, L, q) /\ Ring(d.cb[q], dtqcnt[q])
  BY DEF QueuesOK, QueueOK
<1>3. d.cb[q].count \in 0 .. dtqcnt[q]
  BY <1>1, <1>2, RingFields
<1>4. CASE CanSend(d, q)
  <2>1. e = send_data(d, q, x)
    BY <1>4 DEF send_data, force_send_data, force_enqueue_data, CanSend
  <2>2. AtQueue(d, L, send_data(d, q, x), q)
    BY <1>4, Sends
  <2>3. QED
    BY <2>1, <2>2
<1>5. CASE ~CanSend(d, q)
  <2> DEFINE b == force_enqueue_data(d.cb[q], q, x)
  <2>1. /\ d.wait_queue[rwait[q]] = << >> /\ e = [d EXCEPT !.cb[q] = b]
        /\ d.cb[q].count = dtqcnt[q]
    BY <1>1, <1>3, <1>5 DEF force_send_data, CanSend
  <2>2. Ring(b, dtqcnt[q]) /\ b.count = d.cb[q].count
    BY <1>2, <2>1, RingForce
  <2> HIDE DEF b, e
  <2>3. Correct(e, L) /\ Keeps(d, e) /\ Written(d, e, q, b)
    BY <1>1, <2>1, Writes
  <2>4. \A t \in L : d.wobj[t] # rwait[q]
    BY <1>1, <2>1, EmptyQueue
  <2>5. AtQueue(d, L, e, q)
    BY <2>1, <2>2, <2>3, <2>4, WrittenAtQueue
  <2>6. QED
    BY <2>5 DEF e
<1>6. QED
  BY <1>4, <1>5

LEMMA Receives ==
  ASSUME NEW d, NEW L \in SUBSET Task, Correct(d, L), QueuesOK(d, L), NEW q \in Dtq,
         CanReceive(d, q)
  PROVE  AtQueue(d, L, receive_data(d, q), q)
<1> DEFINE e == receive_data(d, q)
           c == d.cb[q]
           b == dequeue_data(c, q)
           s == Head(d.wait_queue[q])
<1>1. q \in ComObj /\ q \in Obj /\ rwait[q] \in Obj /\ dtqcnt[q] \in Nat
  BY DtqNames
<1>2. QueueOK(d, L, q) /\ Ring(c, dtqcnt[q])
  BY DEF QueuesOK, QueueOK
<1>3. c.count \in 0 .. dtqcnt[q]
  BY <1>1, <1>2, RingFields
<1>4. c.count > 0 => Ring(b, dtqcnt[q]) /\ b.count = c.count - 1
  BY <1>2, RingDequeue
<1>5. c.count > 0 => \A t \in L : d.wobj[t] # rwait[q]
  BY <1>2, <1>3 DEF QueueOK
<1> HIDE DEF b, c
<1>6. CASE d.wait_queue[q] = << >>
  <2>1. c.count > 0
    BY <1>3, <1>6 DEF CanReceive, c
  <2>2. e = [d EXCEPT !.cb[q] = b]
    BY <1>6, <2>1 DEF receive_data, b, c
  <2> HIDE DEF e
  <2>3. Correct(e, L) /\ Keeps(d, e) /\ Written(d, e, q, b)
    BY <1>1, <2>2, Writes
  <2>4. \A t \in L : d.wobj[t] # q
    BY <1>1, <1>6, EmptyQueue
  <2>5. AtQueue(d, L, e, q)
    BY <1>4, <1>5, <2>1, <2>3, <2>4, WrittenAtQueue
  <2>6. QED
    BY <2>5 DEF e
<1>7. CASE d.wait_queue[q] # << >> /\ ~(c.count > 0)
  <2>1. e = wait_complete(queue_delete_next(d, q), s)
    BY <1>7 DEF receive_data, c
  <2>2. s \in L /\ d.wobj[s] = q /\ Correct(e, L) /\ Keeps(d, e) /\ Finished(d, e, s, d.winfo[s], "E_OK")
    <3> HIDE DEF e
    <3>1. LET f == wait_complete(queue_delete_next(d, q), s)
          IN  s \in L /\ d.wobj[s] = q /\ Correct(f, L) /\ Keeps(d, f) /\ Finished(d, f, s, d.winfo[s], "E_OK")
      BY <1>1, <1>7, Grants
    <3>2. QED
      BY <2>1, <3>1
  <2> HIDE DEF e, s
  <2>3. AtQueue(d, L, e, q)
    BY <2>2, FinishedAtQueue
  <2>4. QED
    BY <2>3 DEF e
<1>8. CASE d.wait_queue[q] # << >> /\ c.count > 0
  <2> DEFINE a  == enqueue_data(b, q, d.winfo[s])
             d1 == [d EXCEPT !.cb[q] = a]
  <2>1. s \in L /\ d.wobj[s] = q
    BY <1>1, <1>8, Grants
  <2>2. d.winfo[s] \in Data /\ c.count = dtqcnt[q]
    BY <1>2, <2>1 DEF QueueOK, c
  <2>3. Ring(a, dtqcnt[q]) /\ a.count = c.count
    <3>1. b.count < dtqcnt[q] /\ Ring(b, dtqcnt[q])
      BY <1>1, <1>3, <1>4, <1>8, <2>2
    <3>2. LET e1 == enqueue_data(b, q, d.winfo[s])
          IN  Ring(e1, dtqcnt[q]) /\ e1.count = b.count + 1
      BY <2>2, <3>1, RingEnqueue
    <3>3. QED
      BY <1>3, <1>4, <1>8, <3>2
  <2>4. Whole(d) /\ DOMAIN d.cb = ComObj
    BY CorrectFields DEF Correct, HasBlocks
  <2>5. e = wait_complete(queue_delete_next(d1, q), s)
    <3>1. [[d EXCEPT !.cb[q] = b] EXCEPT !.cb[q] = enqueue_data(@, q, d.winfo[s])] = d1
      BY <1>1, <2>4 DEF Whole
    <3>2. QED
      BY <1>8, <3>1 DEF receive_data, b, c
  <2> HIDE DEF a
  <2>6. Correct(d1, L) /\ Keeps(d, d1) /\ Written(d, d1, q, a)
    BY <1>1, Writes
  <2> HIDE DEF d1, e
  <2>7. AtQueue(d, L, d1, q)
    BY <1>5, <1>8, <2>2, <2>3, <2>6, WrittenAtQueue
  <2>8. d1.wait_queue[q] # << >> /\ s = Head(d1.wait_queue[q])
    BY <1>8, <2>6 DEF Written
  <2>9. s \in L /\ d1.wobj[s] = q /\ Correct(e, L) /\ Keeps(d1, e) /\ Finished(d1, e, s, d1.winfo[s], "E_OK")
    <3>1. LET f == wait_complete(queue_delete_next(d1, q), Head(d1.wait_queue[q]))
          IN  Correct(f, L) /\ Keeps(d1, f)
              /\ Finished(d1, f, Head(d1.wait_queue[q]), d1.winfo[Head(d1.wait_queue[q])], "E_OK")
      BY <1>1, <2>6, <2>8, Grants
    <3>2. QED
      BY <2>1, <2>5, <2>6, <2>8, <3>1 DEF Written
  <2> HIDE DEF s
  <2>10. AtQueue(d1, L, e, q)
    BY <2>6, <2>7, <2>9, FinishedAtQueue DEF AtQueue
  <2>11. AtQueue(d, L, e, q)
    BY <2>7, <2>10 DEF AtQueue, Keeps, LeavesAlone, AllStay
  <2>12. QED
    BY <2>11 DEF e
<1>9. QED
  BY <1>6, <1>7, <1>8

\* One send of psnd_dtq_ndata.
SendOne(acc, d, x) ==
  IF CanSend(acc.k, d) THEN [acc EXCEPT !.k = send_data(acc.k, d, x)]
  ELSE [acc EXCEPT !.ok = FALSE]

LEMMA SendAllTwo ==
  ASSUME NEW d, NEW q, NEW x, NEW y
  PROVE  send_all(d, q, << x, y >>) =
           SendOne(SendOne([k |-> d, ok |-> TRUE], q, x), q, y)
<1> DEFINE xs == << x, y >>
           a0 == [k |-> d, ok |-> TRUE]
           IsSent(g) == g = [n \in 0 .. Len(xs) |-> IF n = 0 THEN a0
                                                    ELSE SendOne(g[n - 1], q, xs[n])]
           f == CHOOSE g : IsSent(g)
           h == [n \in 0 .. 2 |-> IF n = 0 THEN a0
                                  ELSE IF n = 1 THEN SendOne(a0, q, x)
                                  ELSE SendOne(SendOne(a0, q, x), q, y)]
<1>1. send_all(d, q, xs) = f[Len(xs)]
  BY Zenon DEF send_all, SendOne
<1>2. Len(xs) = 2 /\ xs[1] = x /\ xs[2] = y
  OBVIOUS
<1> HIDE DEF xs, a0
<1>3. IsSent(h)
  <2>1. h[0] = a0 /\ h[1] = SendOne(a0, q, x) /\ h[2] = SendOne(SendOne(a0, q, x), q, y)
    OBVIOUS
  <2>2. ASSUME NEW n \in 0 .. 2
        PROVE  h[n] = IF n = 0 THEN a0 ELSE SendOne(h[n - 1], q, xs[n])
    <3>1. n = 0 \/ n = 1 \/ n = 2
      OBVIOUS
    <3>2. 1 - 1 = 0 /\ 2 - 1 = 1
      OBVIOUS
    <3> HIDE DEF h
    <3>3. QED
      BY <1>2, <2>1, <3>1, <3>2
  <2>3. h = [n \in 0 .. 2 |-> h[n]]
    OBVIOUS
  <2> HIDE DEF h
  <2>4. h = [n \in 0 .. 2 |-> IF n = 0 THEN a0 ELSE SendOne(h[n - 1], q, xs[n])]
    BY <2>2, <2>3
  <2>5. QED
    BY <1>2, <2>4
<1> HIDE DEF h
<1>4. IsSent(f)
  BY <1>3
<1> HIDE DEF f
<1>5. f = [n \in 0 .. 2 |-> IF n = 0 THEN a0 ELSE SendOne(f[n - 1], q, xs[n])]
  BY <1>2, <1>4
<1>6. f[0] = a0 /\ f[1] = SendOne(f[0], q, xs[1]) /\ f[2] = SendOne(f[1], q, xs[2])
  <2>1. 0 \in 0 .. 2 /\ 1 \in 0 .. 2 /\ 2 \in 0 .. 2 /\ 1 - 1 = 0 /\ 2 - 1 = 1
    OBVIOUS
  <2>2. f[0] = IF 0 = 0 THEN a0 ELSE SendOne(f[0 - 1], q, xs[0])
    BY <1>5, <2>1
  <2>3. f[1] = IF 1 = 0 THEN a0 ELSE SendOne(f[1 - 1], q, xs[1])
    BY <1>5, <2>1
  <2>4. f[2] = IF 2 = 0 THEN a0 ELSE SendOne(f[2 - 1], q, xs[2])
    BY <1>5, <2>1
  <2>5. QED
    BY <2>1, <2>2, <2>3, <2>4
<1>7. QED
  BY <1>1, <1>2, <1>6 DEF a0, xs

\* A send of two data for which there is room.
LEMMA SendsTwo ==
  ASSUME NEW d, NEW L \in SUBSET Task, Correct(d, L), QueuesOK(d, L), NEW q \in Dtq,
         NEW x \in Data, NEW y \in Data, d.cb[q].count + 2 <= dtqcnt[q]
  PROVE  LET s == send_all(d, q, << x, y >>)
         IN  s.ok = TRUE /\ AtQueue(d, L, s.k, q)
<1> DEFINE e == send_data(d, q, x)
           f == send_data(e, q, y)
<1>1. dtqcnt[q] \in Nat /\ d.cb[q].count \in 0 .. dtqcnt[q]
  <2>1. Ring(d.cb[q], dtqcnt[q]) /\ dtqcnt[q] \in Nat
    BY DtqNames DEF QueuesOK, QueueOK
  <2>2. QED
    BY <2>1, RingFields
<1>2. CanSend(d, q)
  BY <1>1 DEF CanSend
<1>3. AtQueue(d, L, e, q) /\ e.cb[q].count <= d.cb[q].count + 1
  BY <1>2, Sends
<1> HIDE DEF e
<1>4. Correct(e, L) /\ QueuesOK(e, L)
  BY <1>3 DEF AtQueue
<1>5. e.cb[q].count \in 0 .. dtqcnt[q]
  <2>1. Ring(e.cb[q], dtqcnt[q])
    BY <1>4 DEF QueuesOK, QueueOK
  <2>2. QED
    BY <1>1, <2>1, RingFields
<1>6. CanSend(e, q)
  BY <1>1, <1>3, <1>5 DEF CanSend
<1>7. AtQueue(e, L, f, q)
  BY <1>4, <1>6, Sends
<1> HIDE DEF f
<1>8. AtQueue(d, L, f, q)
  BY <1>3, <1>7 DEF AtQueue, Keeps, LeavesAlone, AllStay
<1>9. SendOne([k |-> d, ok |-> TRUE], q, x) = [k |-> e, ok |-> TRUE]
  BY <1>2 DEF SendOne, e
<1>10. SendOne([k |-> e, ok |-> TRUE], q, y) = [k |-> f, ok |-> TRUE]
  BY <1>6 DEF SendOne, f
<1>11. send_all(d, q, << x, y >>) = [k |-> f, ok |-> TRUE]
  BY <1>9, <1>10, SendAllTwo
<1>12. QED
  BY <1>8, <1>11

-----------------------------------------------------------------------------
\* While ini_dtq ends the waits of the receivers, there are no senders.
DtqLoop ==
  pc = "init_wait_queue" => \A q \in Dtq : frame.obj = rwait[q] => \A t \in Task : k.wobj[t] # q

DtqInv == QueuesOK(k, Live) /\ DtqLoop

\* What happens at other objects leaves it alone.
LEMMA DtqElsewhere ==
  ASSUME KInv, DtqInv, NEW O, O \cap DtqObj = {}, Elsewhere(O)
  PROVE  DtqInv'
<1>1. LeavesAlone(ComObj \ O, k, Live, k', Live')
  BY DEF Elsewhere
<1>2. LeavesAlone(DtqObj, k, Live, k', Live')
  <2>1. DtqObj \subseteq ComObj \ O
    BY DtqNames
  <2>2. QED
    BY <1>1, <2>1, LeavesAloneFewer
<1>3. QueuesOK(k', Live')
  BY <1>2, QueuesLeftAlone DEF DtqInv
<1>4. DtqLoop'
  <2> SUFFICES ASSUME pc' = "init_wait_queue", NEW q \in Dtq, frame'.obj = rwait[q], NEW t \in Task
               PROVE  k'.wobj[t] # q
    BY DEF DtqLoop
  <2>1. rwait[q] \in ComObj /\ rwait[q] \in DtqObj /\ q \in DtqObj
    BY DtqNames
  <2>2. rwait[q] \notin O \cup Sem \cup Mtx
    BY <2>1, ObjAssumption
  <2>3. pc = "init_wait_queue" /\ frame.obj = rwait[q]
    BY <2>2 DEF Elsewhere
  <2>4. k.wobj[t] # q
    BY <2>3 DEF DtqInv, DtqLoop
  <2>5. t \in Live'
    BY DEF Live, Ending
  <2>6. QED
    BY <1>2, <2>1, <2>4, <2>5 DEF LeavesAlone
<1>5. QED
  BY <1>3, <1>4 DEF DtqInv

LEMMA DtqStep ==
  ASSUME KInv, DtqInv, DataQueueNext
  PROVE  KInv' /\ DtqInv' /\ Elsewhere(DtqObj)
<1> DEFINE Goal == KInv' /\ DtqInv' /\ Elsewhere(DtqObj)
<1>1. Task \in SUBSET Task /\ DtqObj \subseteq ComObj
  BY DtqNames
<1>2. ASSUME NEW q \in Dtq, NEW e, Over(e), AtQueue(k, Task, e, q)
      PROVE  Goal
  <2>1. ComObj \ DtqObj \subseteq ComObj \ {q, rwait[q]}
    BY DtqNames
  <2>2. LeavesAlone(ComObj \ DtqObj, k, Task, e, Task) /\ AllStay(ComObj \ DtqObj, k, e)
    BY <1>2, <2>1, LeavesAloneFewer DEF AtQueue, AllStay
  <2>3. KInv' /\ Elsewhere(DtqObj)
    BY <1>2, <2>2, OverElsewhere
  <2>4. QueuesOK(k', Live') /\ DtqLoop'
    BY <1>2 DEF Over, AtQueue, DtqLoop
  <2>5. QED
    BY <2>3, <2>4 DEF DtqInv
<1>3. ASSUME TaskContext \/ IntContext
      PROVE  Correct(k, Task) /\ QueuesOK(k, Task) /\ Live = Task
  BY <1>3, CallFacts DEF DtqInv
<1>4. ASSUME NEW q \in Dtq, NEW e,
             (TaskContext /\ TaskCall(e)) \/ (IntContext /\ IntCall(e)),
             AtQueue(k, Task, e, q)
      PROVE  Goal
  <2>1. Over(e)
    BY <1>4, CallIsOver DEF AtQueue
  <2>2. QED
    BY <1>2, <1>4, <2>1
<1>5. ASSUME NEW q \in Dtq, NEW x \in Data, psnd_dtq(q, x) \/ ipsnd_dtq(q, x) PROVE Goal
  <2> DEFINE e == send_data(k, q, x)
  <2>1. ((TaskContext /\ TaskCall(e)) \/ (IntContext /\ IntCall(e))) /\ CanSend(k, q)
    BY <1>5 DEF psnd_dtq, ipsnd_dtq
  <2>2. AtQueue(k, Task, e, q)
    BY <1>1, <1>3, <2>1, Sends
  <2> HIDE DEF e
  <2>3. QED
    BY <1>4, <2>1, <2>2
<1>6. ASSUME NEW q \in Dtq, NEW x \in Data, fsnd_dtq(q, x) \/ ifsnd_dtq(q, x) PROVE Goal
  <2> DEFINE e == force_send_data(k, q, x)
  <2>1. ((TaskContext /\ TaskCall(e)) \/ (IntContext /\ IntCall(e))) /\ dtqcnt[q] > 0
    BY <1>6 DEF fsnd_dtq, ifsnd_dtq
  <2>2. AtQueue(k, Task, e, q)
    BY <1>1, <1>3, <2>1, ForcedSends
  <2> HIDE DEF e
  <2>3. QED
    BY <1>4, <2>1, <2>2
<1>7. ASSUME NEW q \in Dtq, NEW x \in Data, NEW y \in Data,
             psnd_dtq_ndata(q, << x, y >>) \/ ipsnd_dtq_ndata(q, << x, y >>)
      PROVE  Goal
  <2> DEFINE e == send_all(k, q, << x, y >>).k
  <2>1. (TaskContext /\ TaskCall(e)) \/ (IntContext /\ IntCall(e))
    BY <1>7 DEF psnd_dtq_ndata, ipsnd_dtq_ndata
  <2>2. k.cb[q].count + 2 <= dtqcnt[q]
    BY <1>7 DEF psnd_dtq_ndata, ipsnd_dtq_ndata, HasRoom
  <2>3. AtQueue(k, Task, e, q)
    BY <1>1, <1>3, <2>1, <2>2, SendsTwo
  <2> HIDE DEF e
  <2>4. QED
    BY <1>4, <2>1, <2>3
<1>8. ASSUME NEW q \in Dtq, prcv_dtq(q) PROVE Goal
  <2> DEFINE e == receive_data(k, q)
  <2>1. ((TaskContext /\ TaskCall(e)) \/ (IntContext /\ IntCall(e))) /\ CanReceive(k, q)
    BY <1>8 DEF prcv_dtq
  <2>2. AtQueue(k, Task, e, q)
    BY <1>1, <1>3, <2>1, Receives
  <2> HIDE DEF e
  <2>3. QED
    BY <1>4, <2>1, <2>2
<1>9. ASSUME NEW q \in Dtq, NEW o \in {q, rwait[q]}, NEW x, NEW e, Started(k, e, runtsk, o, x),
             Correct(e, Task), MayWait, WaitCall(e),
             o = q => x \in Data /\ ~CanSend(k, q),
             o = rwait[q] => ~CanReceive(k, q)
      PROVE  Goal
  <2>1. /\ Correct(k, Task) /\ QueuesOK(k, Task) /\ Live = Task
        /\ runtsk \in Task /\ TaskContext
    BY <1>3, <1>9, CallFacts DEF MayWait
  <2>2. KInv' /\ k' = e /\ Live' = Task /\ pc' # "init_wait_queue"
    BY <1>9, WaitCallIsOver DEF Over
  <2>3. QueueOK(k, Task, q) /\ q \in Obj /\ rwait[q] \in Obj /\ rwait[q] # q /\ dtqcnt[q] \in Nat
    BY <2>1, DtqNames DEF QueuesOK
  <2>4. k.cb[q].count \in 0 .. dtqcnt[q]
    BY <2>3, RingFields DEF QueueOK
  <2>5. Whole(k)
    BY <2>1, CorrectFields
  <2>6. QueueOK(e, Task, q)
    <3>1. CASE o = q
      <4>1. k.wait_queue[rwait[q]] = << >> /\ k.cb[q].count = dtqcnt[q]
        BY <1>9, <2>3, <2>4, <3>1 DEF CanSend
      <4>2. \A t \in Task : k.wobj[t] # rwait[q]
        BY <1>1, <2>1, <2>3, <4>1, EmptyQueue
      <4>3. QED
        BY <1>9, <2>1, <2>3, <2>5, <3>1, <4>1, <4>2 DEF QueueOK, Started, Whole
    <3>2. CASE o = rwait[q]
      <4>1. k.wait_queue[q] = << >> /\ k.cb[q].count = 0
        BY <1>9, <2>3, <2>4, <3>2 DEF CanReceive
      <4>2. \A t \in Task : k.wobj[t] # q
        BY <1>1, <2>1, <2>3, <4>1, EmptyQueue
      <4>3. QED
        BY <1>9, <2>1, <2>3, <2>5, <3>2, <4>1, <4>2 DEF QueueOK, Started, Whole
    <3>3. QED
      BY <1>9, <3>1, <3>2
  <2>7. LeavesAlone(ComObj \ {q, rwait[q]}, k, Task, e, Task) /\ AllStay(ComObj \ {q, rwait[q]}, k, e)
    BY <1>1, <1>9, <2>1, StartedLeavesAlone
  <2>8. QueuesOK(e, Task)
    BY <2>1, <2>6, <2>7, OtherQueues
  <2>9. ComObj \ DtqObj \subseteq ComObj \ {q, rwait[q]}
    BY DtqNames
  <2>10. LeavesAlone(ComObj \ DtqObj, k, Task, e, Task) /\ AllStay(ComObj \ DtqObj, k, e)
    BY <2>7, <2>9, LeavesAloneFewer DEF AllStay
  <2>11. QED
    BY <2>1, <2>2, <2>8, <2>10 DEF DtqInv, DtqLoop, Elsewhere, OneQueueMoves, AllStay, GivesNothing
<1>10. ASSUME NEW q \in Dtq, NEW x \in Data, NEW timed \in BOOLEAN, snd_dtq(q, x, timed) PROVE Goal
  <2> DEFINE e == wobj_make_wait_with(k, runtsk, q, timed, x)
  <2>1. MayWait /\ TaskContext /\ WaitCall(e) /\ ~CanSend(k, q)
    BY <1>10 DEF snd_dtq, MayWait
  <2>2. Correct(k, Task) /\ runtsk \in Task /\ IsRunnable(k, runtsk)
    BY <1>3, <2>1, CallFacts
  <2>3. q \in ComObj /\ rwait[q] # q
    BY DtqNames
  <2>4. Correct(e, Task) /\ Started(k, e, runtsk, q, x)
    BY <2>2, <2>3, Starts
  <2> HIDE DEF e
  <2>5. QED
    BY <1>9, <2>1, <2>3, <2>4
<1>11. ASSUME NEW q \in Dtq, NEW timed \in BOOLEAN, rcv_dtq(q, timed) PROVE Goal
  <2> DEFINE e == wobj_make_wait(k, runtsk, rwait[q], timed)
  <2>1. MayWait /\ TaskContext /\ WaitCall(e) /\ ~CanReceive(k, q)
    BY <1>11 DEF rcv_dtq, MayWait
  <2>2. Correct(k, Task) /\ runtsk \in Task /\ IsRunnable(k, runtsk)
    BY <1>3, <2>1, CallFacts
  <2>3. rwait[q] \in ComObj /\ rwait[q] # q
    BY DtqNames
  <2>4. Correct(e, Task) /\ Started(k, e, runtsk, rwait[q], k.winfo[runtsk])
    BY <2>2, <2>3, Starts
  <2> HIDE DEF e
  <2>5. QED
    BY <1>9, <2>1, <2>3, <2>4
<1>12. ASSUME NEW q \in Dtq, ini_dtq(q) PROVE Goal
  <2>1. q \in Obj /\ q \in DtqObj /\ \A r \in Dtq : rwait[r] # q
    BY DtqNames
  <2>2. KInv' /\ k' = k /\ Live = Task /\ Live' = Task /\ frame'.obj = q
    BY <1>12, <2>1, IniCall DEF ini_dtq
  <2>3. LeavesAlone(ComObj \ DtqObj, k, Live, k', Live') /\ GivesNothing(ComObj \ DtqObj)
    BY <2>2 DEF LeavesAlone, GivesNothing
  <2>4. DtqInv'
    BY <2>1, <2>2 DEF DtqInv, DtqLoop
  <2>5. QED
    BY <2>1, <2>2, <2>3, <2>4 DEF Elsewhere, OneQueueMoves
<1>13. ASSUME ini_dtq_rwait PROVE Goal
  <2>1. /\ pc = "init_wait_queue" /\ frame.obj \in Dtq /\ k.wait_queue[frame.obj] = << >>
        /\ frame' = [frame EXCEPT !.obj = rwait[frame.obj]]
        /\ UNCHANGED << k, runtsk, pc, flags, reqflg, excpt_nest_count, locked >>
    BY <1>13 DEF ini_dtq_rwait
  <2>2. Correct(k, Task) /\ Live = Task
    BY <2>1, IniLoop
  <2>3. PICK q \in Dtq : frame.obj = q
    BY <2>1
  <2>4. q \in Obj /\ rwait[q] \in Obj /\ rwait[q] \in DtqObj
    BY DtqNames
  <2>5. KInv' /\ Live = Task /\ Live' = Task /\ frame'.obj = rwait[q]
    BY <2>1, <2>3, <2>4, IniGoesOn
  <2>6. \A t \in Task : k.wobj[t] # q
    BY <1>1, <2>1, <2>2, <2>3, <2>4, EmptyQueue
  <2>7. DtqLoop'
    <3>1. \A r \in Dtq : rwait[r] = rwait[q] => r = q
      BY DtqNames
    <3>2. QED
      BY <2>1, <2>5, <2>6, <3>1 DEF DtqLoop
  <2>8. /\ DtqInv' /\ LeavesAlone(ComObj \ DtqObj, k, Live, k', Live') /\ GivesNothing(ComObj \ DtqObj)
        /\ k' = k
    BY <2>1, <2>5, <2>7 DEF DtqInv, LeavesAlone, GivesNothing
  <2>9. QED
    BY <2>4, <2>5, <2>8 DEF Elsewhere, OneQueueMoves
<1>14. ASSUME ini_dtq_end PROVE Goal
  <2>1. PICK q \in Dtq : /\ pc = "init_wait_queue" /\ frame.obj = rwait[q]
                         /\ k.wait_queue[rwait[q]] = << >>
                         /\ LoopEnd([k EXCEPT !.cb[q] = EmptyRing(q)])
    BY <1>14 DEF ini_dtq_end
  <2> DEFINE b == EmptyRing(q)
             e == [k EXCEPT !.cb[q] = b]
  <2>2. Correct(k, Task) /\ Live = Task /\ QueuesOK(k, Task)
    BY <2>1, IniLoop DEF DtqInv
  <2>3. Ring(b, dtqcnt[q]) /\ q \in ComObj /\ rwait[q] \in Obj
    BY RingEmpty, DtqNames
  <2> HIDE DEF b
  <2>4. Correct(e, Task) /\ Keeps(k, e) /\ Written(k, e, q, b)
    BY <1>1, <2>2, <2>3, Writes
  <2>5. LoopEnd(e)
    BY <2>1 DEF b
  <2> HIDE DEF e
  <2>6. Over(e)
    BY <2>1, <2>4, <2>5, IniIsOver
  <2>7. \A t \in Task : k.wobj[t] # rwait[q] /\ k.wobj[t] # q
    BY <1>1, <2>1, <2>2, <2>3, EmptyQueue DEF DtqInv, DtqLoop
  <2>8. AtQueue(k, Task, e, q)
    BY <1>1, <2>2, <2>3, <2>4, <2>7, WrittenAtQueue
  <2>9. QED
    BY <1>2, <2>6, <2>8
<1>15. ASSUME init_wait_queue PROVE Goal
  <2>1. [Next]_vars
    BY <1>15 DEF Next, SemaphoreNext
  <2>2. KInv' /\ Elsewhere({})
    BY <2>1, KernelElsewhere
  <2>3. DtqInv'
    BY <2>2, DtqElsewhere
  <2>4. ComObj \ DtqObj \subseteq ComObj \ {}
    OBVIOUS
  <2>5. /\ LeavesAlone(ComObj \ DtqObj, k, Live, k', Live') /\ GivesNothing(ComObj \ DtqObj)
        /\ OneQueueMoves(ComObj \ DtqObj, k.wait_queue, k'.wait_queue)
    BY <2>2, <2>4, LeavesAloneFewer, FewerQueuesMove DEF Elsewhere, GivesNothing
  <2>6. QED
    BY <2>2, <2>3, <2>5 DEF Elsewhere
<1>16. QED
  BY <1>5, <1>6, <1>7, <1>8, <1>10, <1>11, <1>12, <1>13, <1>14, <1>15 DEF DataQueueNext

-----------------------------------------------------------------------------
(***************************************************************************)
(* Priority data queues.                                                   *)
(***************************************************************************)
Entry == [blk : Nat, data : PriVal, datapri : Nat]

\* The blocks that carry the data of a list.
Carriers(list) == [i \in DOMAIN list |-> list[i].blk]

LEMMA CarriersAre ==
  ASSUME NEW list \in Seq(Entry)
  PROVE  /\ Carriers(list) \in Seq(Nat) /\ Len(Carriers(list)) = Len(list)
         /\ \A i \in 1 .. Len(list) : Carriers(list)[i] = list[i].blk
<1>1. DOMAIN list = 1 .. Len(list) /\ Len(list) \in Nat
  OBVIOUS
<1>2. \A i \in 1 .. Len(list) : list[i].blk \in Nat
  <2>1. \A i \in 1 .. Len(list) : list[i] \in Entry
    OBVIOUS
  <2>2. QED
    BY <2>1 DEF Entry
<1>3. Carriers(list) \in [1 .. Len(list) -> Nat]
  BY <1>1, <1>2 DEF Carriers
<1>4. QED
  BY <1>1, <1>3 DEF Carriers

\* b has n blocks: those used ever are in one of the two lists, once.
Blocks(b, n) ==
  /\ b \in [list : Seq(Entry), freelist : Seq(Nat), unused : Nat]
  /\ IsInjective(Carriers(b.list)) /\ IsInjective(b.freelist)
  /\ ToSet(Carriers(b.list)) \cap ToSet(b.freelist) = {}
  /\ ToSet(Carriers(b.list)) \cup ToSet(b.freelist) = 0 .. b.unused - 1
  /\ Len(b.list) + Len(b.freelist) = b.unused /\ b.unused <= n

LEMMA BlocksFields ==
  ASSUME NEW n, NEW b, Blocks(b, n)
  PROVE  /\ b.list \in Seq(Entry) /\ b.freelist \in Seq(Nat) /\ b.unused \in Nat
         /\ Len(b.list) \in Nat /\ Len(b.freelist) \in Nat
BY DEF Blocks

\* Two lists without a common entry, one after the other.
LEMMA ConcatDistinct ==
  ASSUME NEW S, NEW q \in Seq(S), NEW r \in Seq(S), IsInjective(q), IsInjective(r),
         ToSet(q) \cap ToSet(r) = {}
  PROVE  IsInjective(q \o r) /\ ToSet(q \o r) = ToSet(q) \cup ToSet(r)
<1> DEFINE s == q \o r
<1>1. /\ s \in Seq(S) /\ Len(s) = Len(q) + Len(r)
      /\ \A i \in 1 .. Len(s) : s[i] = IF i <= Len(q) THEN q[i] ELSE r[i - Len(q)]
  BY ConcatProperties
<1> HIDE DEF s
<1>2. DOMAIN s = 1 .. Len(s) /\ DOMAIN q = 1 .. Len(q) /\ DOMAIN r = 1 .. Len(r)
  BY <1>1
<1>3. \A i \in 1 .. Len(q) : i \in 1 .. Len(s) /\ s[i] = q[i] /\ q[i] \in ToSet(q)
  BY SMTT(60), <1>1 DEF ToSet
<1>4. \A i \in 1 .. Len(r) : i + Len(q) \in 1 .. Len(s) /\ s[i + Len(q)] = r[i] /\ r[i] \in ToSet(r)
  <2>1. \A i \in 1 .. Len(r) : r[i] \in ToSet(r)
    BY DEF ToSet
  <2>2. \A i \in 1 .. Len(r) : i + Len(q) \in 1 .. Len(s) /\ s[i + Len(q)] = r[i]
    <3> SUFFICES ASSUME NEW i \in 1 .. Len(r)
                 PROVE  i + Len(q) \in 1 .. Len(s) /\ s[i + Len(q)] = r[i]
      OBVIOUS
    <3>1. /\ i + Len(q) \in 1 .. Len(s) /\ ~(i + Len(q) <= Len(q))
          /\ i + Len(q) - Len(q) = i
      BY <1>1
    <3>2. QED
      BY <1>1, <3>1
  <2>3. QED
    BY <2>1, <2>2
<1>5. \A i \in 1 .. Len(s) : \/ i \in 1 .. Len(q) /\ s[i] = q[i]
                             \/ i - Len(q) \in 1 .. Len(r) /\ s[i] = r[i - Len(q)]
  BY <1>1
<1>6. ToSet(s) = ToSet(q) \cup ToSet(r)
  <2>1. ToSet(s) \subseteq ToSet(q) \cup ToSet(r)
    <3>1. \A i \in 1 .. Len(s) : s[i] \in ToSet(q) \/ s[i] \in ToSet(r)
      BY <1>3, <1>4, <1>5
    <3>2. \A x \in ToSet(s) : \E i \in 1 .. Len(s) : s[i] = x
      BY <1>2 DEF ToSet
    <3>3. QED
      BY <3>1, <3>2
  <2>2. ToSet(q) \subseteq ToSet(s)
    BY <1>2, <1>3 DEF ToSet
  <2>3. ToSet(r) \subseteq ToSet(s)
    BY <1>2, <1>4 DEF ToSet
  <2>4. QED
    BY <2>1, <2>2, <2>3
<1>7. ASSUME NEW i \in 1 .. Len(s), NEW j \in 1 .. Len(s), s[i] = s[j] PROVE i = j
  <2>1. CASE i \in 1 .. Len(q) /\ j \in 1 .. Len(q)
    BY <1>2, <1>3, <1>7, <2>1 DEF IsInjective
  <2>2. CASE i \notin 1 .. Len(q) /\ j \notin 1 .. Len(q)
    <3>1. /\ i - Len(q) \in 1 .. Len(r) /\ s[i] = r[i - Len(q)]
          /\ j - Len(q) \in 1 .. Len(r) /\ s[j] = r[j - Len(q)]
      BY <1>5, <2>2
    <3>2. i - Len(q) = j - Len(q)
      BY <1>2, <1>7, <3>1 DEF IsInjective
    <3>3. QED
      BY <3>2
  <2>3. CASE i \in 1 .. Len(q) /\ j \notin 1 .. Len(q)
    <3>1. s[i] \in ToSet(q) /\ s[j] \in ToSet(r)
      BY <1>3, <1>4, <1>5, <2>3
    <3>2. QED
      BY <1>7, <3>1
  <2>4. CASE i \notin 1 .. Len(q) /\ j \in 1 .. Len(q)
    <3>1. s[j] \in ToSet(q) /\ s[i] \in ToSet(r)
      BY <1>3, <1>4, <1>5, <2>4
    <3>2. QED
      BY <1>7, <3>1
  <2>5. QED
    BY <2>1, <2>2, <2>3, <2>4
<1>8. IsInjective(s)
  BY <1>2, <1>7 DEF IsInjective
<1>9. QED
  BY <1>6, <1>8 DEF s

LEMMA BlocksMean ==
  ASSUME NEW n \in Nat, NEW b, Blocks(b, n)
  PROVE  LET blks == [i \in DOMAIN b.list |-> b.list[i].blk] \o b.freelist
         IN  b.unused <= n /\ IsInjective(blks) /\ ToSet(blks) = 0 .. b.unused - 1
<1>1. b.list \in Seq(Entry) /\ b.freelist \in Seq(Nat)
  BY BlocksFields
<1>2. Carriers(b.list) \in Seq(Nat)
  BY <1>1, CarriersAre
<1>3. /\ IsInjective(Carriers(b.list) \o b.freelist)
      /\ ToSet(Carriers(b.list) \o b.freelist) = ToSet(Carriers(b.list)) \cup ToSet(b.freelist)
  BY <1>1, <1>2, ConcatDistinct DEF Blocks
<1>4. QED
  BY <1>3 DEF Blocks, Carriers

\* A datum is inserted at some place.
LEMMA InsertsByPriority ==
  ASSUME NEW list \in Seq(Entry), NEW e \in Entry
  PROVE  \E at \in 1 .. Len(list) + 1 : insert_by_priority(list, e) = InsertAt(list, at, e)
<1> DEFINE below == {i \in DOMAIN list : list[i].datapri > e.datapri}
           at == IF below = {} THEN Len(list) + 1 ELSE primap_search(below)
<1>1. insert_by_priority(list, e) = InsertAt(list, at, e)
  BY DEF insert_by_priority, primap_search
<1>2. DOMAIN list = 1 .. Len(list) /\ Len(list) \in Nat
  OBVIOUS
<1>3. below # {} => primap_search(below) \in below
  <2>1. below \subseteq Nat
    BY <1>2
  <2>2. QED
    BY <2>1, SearchFindsMinimum
<1>4. at \in 1 .. Len(list) + 1
  BY <1>2, <1>3
<1> HIDE DEF at
<1>5. QED
  BY <1>1, <1>4

InsertedAt(q, n, t, r) ==
  /\ Len(r) = Len(q) + 1
  /\ \A i \in 1 .. Len(r) : r[i] = IF i < n THEN q[i] ELSE IF i = n THEN t ELSE q[i - 1]

LEMMA NumberInserted ==
  ASSUME NEW q \in Seq(Nat), NEW n \in 1 .. Len(q) + 1, NEW t \in Nat,
         t \notin ToSet(q), IsInjective(q), NEW r \in Seq(Nat), InsertedAt(q, n, t, r)
  PROVE  IsInjective(r) /\ ToSet(r) = ToSet(q) \cup {t}
BY SMTT(60), InsertedOrder DEF InsertedAt

LEMMA CarriersInserted ==
  ASSUME NEW list \in Seq(Entry), NEW e \in Entry, IsInjective(Carriers(list)),
         e.blk \notin ToSet(Carriers(list))
  PROVE  LET r == insert_by_priority(list, e)
         IN  /\ r \in Seq(Entry) /\ Len(r) = Len(list) + 1
             /\ IsInjective(Carriers(r)) /\ ToSet(Carriers(r)) = ToSet(Carriers(list)) \cup {e.blk}
<1> DEFINE r == insert_by_priority(list, e)
           c == Carriers(list)
<1>1. PICK at \in 1 .. Len(list) + 1 : r = InsertAt(list, at, e)
  BY InsertsByPriority
<1>2. /\ r \in Seq(Entry) /\ Len(r) = Len(list) + 1
      /\ \A i \in 1 .. Len(r) : r[i] = IF i < at THEN list[i] ELSE IF i = at THEN e ELSE list[i - 1]
  BY SMTT(60), <1>1, InsertAtEntries
<1> HIDE DEF r
<1>3. c \in Seq(Nat) /\ Len(c) = Len(list) /\ \A i \in 1 .. Len(list) : c[i] = list[i].blk
  BY CarriersAre
<1>4. /\ Carriers(r) \in Seq(Nat) /\ Len(Carriers(r)) = Len(r)
      /\ \A i \in 1 .. Len(r) : Carriers(r)[i] = r[i].blk
  BY <1>2, CarriersAre
<1>5. e.blk \in Nat /\ Len(list) \in Nat
  BY DEF Entry
<1>6. \A i \in 1 .. Len(Carriers(r)) :
         Carriers(r)[i] = IF i < at THEN c[i] ELSE IF i = at THEN e.blk ELSE c[i - 1]
  <2>1. ASSUME NEW i \in 1 .. Len(r)
        PROVE  r[i].blk = IF i < at THEN c[i] ELSE IF i = at THEN e.blk ELSE c[i - 1]
    <3>1. CASE i < at
      <4>1. i \in 1 .. Len(list)
        BY <1>1, <1>5, <3>1
      <4>2. QED
        BY <1>2, <1>3, <3>1, <4>1
    <3>2. CASE i = at
      BY <1>2, <3>2
    <3>3. CASE i > at
      <4>1. i - 1 \in 1 .. Len(list)
        BY <1>1, <1>2, <1>5, <3>3
      <4>2. r[i] = list[i - 1]
        BY <1>1, <1>2, <3>3
      <4>3. c[i - 1] = list[i - 1].blk
        BY <1>3, <4>1
      <4>4. ~(i < at) /\ i # at
        BY <1>1, <3>3
      <4>5. QED
        BY <4>2, <4>3, <4>4
    <3>4. QED
      BY <1>1, <1>5, <3>1, <3>2, <3>3
  <2>2. QED
    BY <1>4, <2>1
<1> HIDE DEF c
<1>7. at \in 1 .. Len(c) + 1 /\ Len(Carriers(r)) = Len(c) + 1
  BY <1>1, <1>2, <1>3, <1>4
<1>8. IsInjective(c) /\ e.blk \notin ToSet(c)
  BY DEF c
<1>9. IsInjective(Carriers(r)) /\ ToSet(Carriers(r)) = ToSet(c) \cup {e.blk}
  <2>1. c \in Seq(Nat) /\ Carriers(r) \in Seq(Nat) /\ e.blk \in Nat
    BY <1>3, <1>4, <1>5
  <2> DEFINE s == Carriers(r)
  <2> HIDE DEF s
  <2>2. /\ s \in Seq(Nat) /\ Len(s) = Len(c) + 1
        /\ \A i \in 1 .. Len(s) : s[i] = IF i < at THEN c[i] ELSE IF i = at THEN e.blk ELSE c[i - 1]
    BY <1>6, <1>7, <2>1 DEF s
  <2>3. PICK v \in Nat : v = e.blk
    BY <2>1
  <2>4. PICK j \in 1 .. Len(c) + 1 : j = at
    BY <1>7
  <2>5. /\ c \in Seq(Nat) /\ s \in Seq(Nat) /\ IsInjective(c) /\ v \notin ToSet(c)
        /\ InsertedAt(c, j, v, s)
    BY <1>8, <2>1, <2>2, <2>3, <2>4 DEF InsertedAt
  <2>6. IsInjective(s) /\ ToSet(s) = ToSet(c) \cup {v}
    BY <2>3, <2>4, <2>5, NumberInserted
  <2>7. QED
    BY <2>3, <2>6 DEF s
<1>10. QED
  BY <1>2, <1>9 DEF r, c

LEMMA TailEntries ==
  ASSUME NEW S, NEW q \in Seq(S), q # << >>, IsInjective(q)
  PROVE  /\ Tail(q) \in Seq(S) /\ Len(Tail(q)) = Len(q) - 1 /\ IsInjective(Tail(q))
         /\ Head(q) \in ToSet(q) /\ Head(q) \in S /\ ToSet(Tail(q)) = ToSet(q) \ {Head(q)}
<1>1. Head(q) \in ToSet(q) /\ Tail(q) = queue_delete(q, Head(q))
  BY TailIsQueueDelete
<1>2. LET r == queue_delete(q, Head(q))
      IN  r \in Seq(S) /\ IsInjective(r) /\ ToSet(r) = ToSet(q) \ {Head(q)}
  BY <1>1, QueueDelete
<1>3. Len(Tail(q)) = Len(q) - 1 /\ Head(q) \in S
  BY HeadTailProperties
<1>4. QED
  BY <1>1, <1>2, <1>3

LEMMA OneMoves ==
  ASSUME NEW i \in Nat, NEW j \in Nat
  PROVE  (i + 1) + (j - 1) = i + j /\ (i - 1) + (j + 1) = i + j
OBVIOUS

LEMMA PriEnqueue ==
  ASSUME NEW n \in Nat, NEW b, Blocks(b, n), Len(b.list) < n,
         NEW p \in Pdq, NEW x \in PriData(p)
  PROVE  LET e == enqueue_pridata(b, x)
         IN  Blocks(e, n) /\ Len(e.list) = Len(b.list) + 1
<1> DEFINE blk == IF b.freelist # << >> THEN Head(b.freelist) ELSE b.unused
           y   == [blk |-> blk, data |-> x.data, datapri |-> x.datapri]
           l   == insert_by_priority(b.list, y)
           f   == IF b.freelist # << >> THEN Tail(b.freelist) ELSE b.freelist
           u   == IF b.freelist # << >> THEN b.unused ELSE b.unused + 1
           e   == [list |-> l, freelist |-> f, unused |-> u]
           c   == Carriers(b.list)
<1>1. enqueue_pridata(b, x) = e
  BY DEF enqueue_pridata
<1>2. /\ b.list \in Seq(Entry) /\ b.freelist \in Seq(Nat) /\ b.unused \in Nat
      /\ Len(b.list) \in Nat /\ Len(b.freelist) \in Nat
  BY BlocksFields
<1>3. /\ IsInjective(c) /\ IsInjective(b.freelist) /\ ToSet(c) \cap ToSet(b.freelist) = {}
      /\ ToSet(c) \cup ToSet(b.freelist) = 0 .. b.unused - 1
      /\ Len(b.list) + Len(b.freelist) = b.unused /\ b.unused <= n
  BY DEF Blocks
<1>4. CASE b.freelist # << >>
  <2>1. blk = Head(b.freelist) /\ f = Tail(b.freelist) /\ u = b.unused
    BY <1>4
  <2>2. /\ f \in Seq(Nat) /\ Len(f) = Len(b.freelist) - 1 /\ IsInjective(f)
        /\ blk \in ToSet(b.freelist) /\ blk \in Nat /\ ToSet(f) = ToSet(b.freelist) \ {blk}
    BY <1>2, <1>3, <1>4, <2>1, TailEntries
  <2>3. y \in Entry /\ y.blk = blk
    BY <2>2 DEF PriData, Entry
  <2> HIDE DEF y, blk, f, u
  <2>4. /\ l \in Seq(Entry) /\ Len(l) = Len(b.list) + 1
        /\ IsInjective(Carriers(l)) /\ ToSet(Carriers(l)) = ToSet(c) \cup {blk}
    BY <1>2, <1>3, <2>2, <2>3, CarriersInserted
  <2> HIDE DEF l, c
  <2>5. Blocks(e, n)
    <3>1. e \in [list : Seq(Entry), freelist : Seq(Nat), unused : Nat]
      BY <1>2, <2>1, <2>2, <2>4
    <3>2. /\ ToSet(Carriers(l)) \cap ToSet(f) = {}
          /\ ToSet(Carriers(l)) \cup ToSet(f) = 0 .. u - 1
      BY <1>3, <2>1, <2>2, <2>4
    <3>3. Len(l) + Len(f) = u /\ u <= n
      <4>1. Len(l) = Len(b.list) + 1 /\ Len(f) = Len(b.freelist) - 1
        BY <2>2, <2>4
      <4>2. PICK i \in Nat : i = Len(b.list)
        BY <1>2
      <4>3. PICK j \in Nat : j = Len(b.freelist)
        BY <1>2
      <4>4. i + j = b.unused
        BY <1>3, <4>2, <4>3
      <4>5. Len(l) = i + 1 /\ Len(f) = j - 1
        BY <4>1, <4>2, <4>3
      <4>6. (i + 1) + (j - 1) = i + j
        BY OneMoves, Zenon
      <4>7. QED
        BY <1>3, <2>1, <4>4, <4>5, <4>6
    <3>4. QED
      BY <2>2, <2>4, <3>1, <3>2, <3>3 DEF Blocks
  <2>6. QED
    BY <1>1, <2>4, <2>5
<1>5. CASE b.freelist = << >>
  <2>1. blk = b.unused /\ f = << >> /\ u = b.unused + 1
    BY <1>5
  <2>2. ToSet(b.freelist) = {} /\ Len(b.freelist) = 0
    BY <1>5 DEF ToSet
  <2>3. y \in Entry /\ y.blk = blk /\ blk \notin ToSet(c)
    BY <1>2, <1>3, <2>1 DEF PriData, Entry
  <2> HIDE DEF y, blk, f, u
  <2>4. /\ l \in Seq(Entry) /\ Len(l) = Len(b.list) + 1
        /\ IsInjective(Carriers(l)) /\ ToSet(Carriers(l)) = ToSet(c) \cup {blk}
    BY <1>2, <1>3, <2>3, CarriersInserted
  <2> HIDE DEF l, c
  <2>5. ToSet(c) \cup {blk} = 0 .. u - 1
    BY <1>2, <1>3, <2>1, <2>2
  <2>6. u <= n /\ u \in Nat /\ Len(l) + Len(f) = u
    BY <1>2, <1>3, <2>1, <2>2, <2>4
  <2>7. f \in Seq(Nat) /\ IsInjective(f) /\ ToSet(f) = {}
    BY <2>1 DEF IsInjective, ToSet
  <2>8. Blocks(e, n)
    BY <2>4, <2>5, <2>6, <2>7 DEF Blocks
  <2>9. QED
    BY <1>1, <2>4, <2>8
<1>6. QED
  BY <1>4, <1>5

LEMMA PriDequeue ==
  ASSUME NEW n \in Nat, NEW b, Blocks(b, n), b.list # << >>
  PROVE  LET e == dequeue_pridata(b)
         IN  Blocks(e, n) /\ Len(e.list) = Len(b.list) - 1
<1> DEFINE h == Head(b.list)
           l == Tail(b.list)
           f == << h.blk >> \o b.freelist
           e == [list |-> l, freelist |-> f, unused |-> b.unused]
           c == Carriers(b.list)
<1>1. dequeue_pridata(b) = e
  <2>1. b = [list |-> b.list, freelist |-> b.freelist, unused |-> b.unused]
    BY DEF Blocks
  <2>2. dequeue_pridata(b) = [b EXCEPT !.list = l, !.freelist = f]
    BY DEF dequeue_pridata
  <2> HIDE DEF l, f
  <2>3. QED
    BY <2>1, <2>2
<1>2. /\ b.list \in Seq(Entry) /\ b.freelist \in Seq(Nat) /\ b.unused \in Nat
      /\ Len(b.list) \in Nat /\ Len(b.freelist) \in Nat
  BY BlocksFields
<1>3. /\ IsInjective(c) /\ IsInjective(b.freelist) /\ ToSet(c) \cap ToSet(b.freelist) = {}
      /\ ToSet(c) \cup ToSet(b.freelist) = 0 .. b.unused - 1
      /\ Len(b.list) + Len(b.freelist) = b.unused /\ b.unused <= n
  BY DEF Blocks
<1>4. /\ l \in Seq(Entry) /\ Len(l) = Len(b.list) - 1
      /\ \A i \in 1 .. Len(l) : l[i] = b.list[i + 1]
  BY <1>2, HeadTailProperties
<1>5. c \in Seq(Nat) /\ Len(c) = Len(b.list) /\ \A i \in 1 .. Len(b.list) : c[i] = b.list[i].blk
  BY <1>2, CarriersAre
<1>6. /\ Carriers(l) \in Seq(Nat) /\ Len(Carriers(l)) = Len(l)
      /\ \A i \in 1 .. Len(l) : Carriers(l)[i] = l[i].blk
  BY <1>4, CarriersAre
<1>7. h = b.list[1] /\ Len(b.list) > 0
  BY <1>2
<1> HIDE DEF l, c, h
<1>8. c # << >> /\ Head(c) = h.blk
  BY <1>5, <1>7
<1>9. /\ Tail(c) \in Seq(Nat) /\ Len(Tail(c)) = Len(c) - 1 /\ IsInjective(Tail(c))
      /\ h.blk \in ToSet(c) /\ h.blk \in Nat /\ ToSet(Tail(c)) = ToSet(c) \ {h.blk}
  BY <1>3, <1>5, <1>8, TailEntries
<1>10. Carriers(l) = Tail(c)
  <2>1. \A i \in 1 .. Len(Tail(c)) : Tail(c)[i] = c[i + 1]
    BY <1>5, <1>8, HeadTailProperties
  <2>2. \A i \in 1 .. Len(l) : Carriers(l)[i] = Tail(c)[i]
    <3>1. ASSUME NEW i \in 1 .. Len(l) PROVE Carriers(l)[i] = Tail(c)[i]
      <4>1. i + 1 \in 1 .. Len(b.list) /\ i \in 1 .. Len(Tail(c))
        BY <1>2, <1>4, <1>5, <1>9
      <4>2. Carriers(l)[i] = b.list[i + 1].blk
        BY <1>4, <1>6
      <4>3. Tail(c)[i] = b.list[i + 1].blk
        BY <1>5, <2>1, <4>1
      <4>4. QED
        BY <4>2, <4>3
    <3>2. QED
      BY <3>1
  <2>3. Len(Carriers(l)) = Len(Tail(c))
    BY <1>4, <1>5, <1>6, <1>9
  <2>4. QED
    BY <1>6, <1>9, <2>2, <2>3, SeqEqual
<1>11. /\ f \in Seq(Nat) /\ IsInjective(f) /\ ToSet(f) = ToSet(b.freelist) \cup {h.blk}
  <2>1. h.blk \notin ToSet(b.freelist)
    BY <1>3, <1>9
  <2>2. QED
    BY <1>2, <1>3, <1>9, <2>1, QueuePrepend
<1>12. Len(f) = Len(b.freelist) + 1
  <2>1. << h.blk >> \in Seq(Nat) /\ Len(<< h.blk >>) = 1
    BY <1>9
  <2>2. Len(f) = Len(<< h.blk >>) + Len(b.freelist)
    BY <1>2, <2>1, ConcatProperties
  <2>3. QED
    BY <1>2, <2>1, <2>2
<1> HIDE DEF f
<1>13. Blocks(e, n)
  <2>1. e \in [list : Seq(Entry), freelist : Seq(Nat), unused : Nat]
    BY <1>2, <1>4, <1>11
  <2>2. /\ ToSet(Carriers(l)) \cap ToSet(f) = {}
        /\ ToSet(Carriers(l)) \cup ToSet(f) = 0 .. b.unused - 1
    BY <1>3, <1>9, <1>10, <1>11
  <2>3. Len(l) + Len(f) = b.unused
    <3>1. PICK i \in Nat : i = Len(b.list)
      BY <1>2
    <3>2. PICK j \in Nat : j = Len(b.freelist)
      BY <1>2
    <3>3. i + j = b.unused
      BY <1>3, <3>1, <3>2
    <3>4. Len(l) = i - 1 /\ Len(f) = j + 1
      BY <1>4, <1>12, <3>1, <3>2
    <3>5. (i - 1) + (j + 1) = i + j
      BY OneMoves, Zenon
    <3>6. QED
      BY <3>3, <3>4, <3>5
  <2>4. QED
    BY <1>3, <1>9, <1>10, <1>11, <2>1, <2>2, <2>3 DEF Blocks
<1>14. QED
  BY <1>1, <1>4, <1>13

LEMMA PriEmpty ==
  ASSUME NEW n \in Nat
  PROVE  Blocks(NoPriData, n)
<1>1. Carriers(<< >>) = << >>
  BY DEF Carriers
<1>2. ToSet(<< >>) = {} /\ IsInjective(<< >>)
  BY DEF ToSet, IsInjective
<1>3. QED
  BY <1>1, <1>2 DEF Blocks, NoPriData

-----------------------------------------------------------------------------
\* The priority data queue p: its blocks are right, its receivers wait for
\* nothing that is there, its senders for room only.
PriQueueOK(d, L, p) ==
  /\ Blocks(d.cb[p], pdqcnt[p])
  /\ \A t \in L : d.wobj[t] = pdqrwait[p] => d.cb[p].list = << >> /\ \A u \in L : d.wobj[u] # p
  /\ \A t \in L : d.wobj[t] = p => d.winfo[t] \in PriData(p) /\ Len(d.cb[p].list) = pdqcnt[p]

PriQueuesOK(d, L) == \A p \in Pdq : PriQueueOK(d, L, p)

PdqObj == Pdq \cup Range(pdqrwait)

LEMMA PdqNames ==
  /\ \A p \in Pdq : /\ p \in ComObj /\ p \in Obj /\ pdqrwait[p] \in ComObj /\ pdqrwait[p] \in Obj
                    /\ pdqrwait[p] # p /\ pdqrwait[p] \in PdqObj /\ p \in PdqObj /\ pdqcnt[p] \in Nat
  /\ \A p, r \in Pdq : p # r => pdqrwait[p] # pdqrwait[r] /\ pdqrwait[p] # r
  /\ NoObj \notin ComObj /\ PdqObj \subseteq ComObj
<1>1. pdqrwait \in [Pdq -> ComObj \ (Pdq \cup TPriObj)] /\ IsInjective(pdqrwait)
  BY PriDataQueueAssumption
<1>2. ComObj \subseteq Obj /\ NoObj \notin ComObj
  BY ObjNames
<1>3. \A p \in Pdq : pdqrwait[p] \in Range(pdqrwait)
  BY <1>1 DEF Range
<1>4. Range(pdqrwait) \subseteq ComObj
  BY <1>1 DEF Range
<1>5. \A p, r \in Pdq : p # r => pdqrwait[p] # pdqrwait[r] /\ pdqrwait[p] # r
  BY <1>1 DEF IsInjective
<1>6. QED
  BY <1>1, <1>2, <1>3, <1>4, <1>5, PriDataQueueAssumption DEF PdqObj

LEMMA PriQueuesLeftAlone ==
  ASSUME NEW d, NEW L, NEW d2, NEW L2, LeavesAlone(PdqObj, d, L, d2, L2), PriQueuesOK(d, L)
  PROVE  PriQueuesOK(d2, L2)
<1>1. ASSUME NEW p \in Pdq PROVE PriQueueOK(d2, L2, p)
  <2>1. PriQueueOK(d, L, p) /\ p \in PdqObj /\ pdqrwait[p] \in PdqObj
    BY PdqNames DEF PriQueuesOK
  <2>2. d2.cb[p] = d.cb[p]
    BY <2>1 DEF LeavesAlone
  <2>3. \A t \in L2 : d2.wobj[t] \in {p, pdqrwait[p]} =>
            t \in L /\ d.wobj[t] = d2.wobj[t] /\ d2.winfo[t] = d.winfo[t]
    BY <2>1 DEF LeavesAlone
  <2>4. QED
    BY <2>1, <2>2, <2>3 DEF PriQueueOK
<1>2. QED
  BY <1>1 DEF PriQueuesOK

\* What is done at p is done at no other queue.
LEMMA OtherPriQueues ==
  ASSUME NEW d, NEW L, PriQueuesOK(d, L), NEW p \in Pdq, NEW e,
         LeavesAlone(ComObj \ {p, pdqrwait[p]}, d, L, e, L), PriQueueOK(e, L, p)
  PROVE  PriQueuesOK(e, L)
<1>1. ASSUME NEW r \in Pdq, r # p PROVE PriQueueOK(e, L, r)
  <2>1. PriQueueOK(d, L, r) /\ r \in ComObj \ {p, pdqrwait[p]} /\ pdqrwait[r] \in ComObj \ {p, pdqrwait[p]}
    BY <1>1, PdqNames DEF PriQueuesOK
  <2>2. e.cb[r] = d.cb[r]
    BY <2>1 DEF LeavesAlone
  <2>3. \A t \in L : e.wobj[t] \in {r, pdqrwait[r]} =>
            d.wobj[t] = e.wobj[t] /\ e.winfo[t] = d.winfo[t]
    BY <2>1 DEF LeavesAlone
  <2>4. QED
    BY <2>1, <2>2, <2>3 DEF PriQueueOK
<1>2. QED
  BY <1>1 DEF PriQueuesOK

\* What a call does at p.
AtPriQueue(d, L, e, p) ==
  /\ Correct(e, L) /\ Keeps(d, e) /\ PriQueuesOK(e, L)
  /\ LeavesAlone(ComObj \ {p, pdqrwait[p]}, d, L, e, L) /\ AllStay(ComObj \ {p, pdqrwait[p]}, d, e)

\* Somebody's wait at p ends.
LEMMA FinishedAtPriQueue ==
  ASSUME NEW d, NEW L \in SUBSET Task, Correct(d, L), PriQueuesOK(d, L), NEW p \in Pdq,
         NEW t \in L, d.wobj[t] \in {p, pdqrwait[p]}, NEW x, NEW ercd,
         NEW e, Correct(e, L), Keeps(d, e), Finished(d, e, t, x, ercd)
  PROVE  AtPriQueue(d, L, e, p)
<1>1. LeavesAlone(ComObj, d, L, e, L)
  BY FinishedLeavesAlone
<1>2. LeavesAlone(PdqObj, d, L, e, L) /\ LeavesAlone(ComObj \ {p, pdqrwait[p]}, d, L, e, L)
  <2>1. PdqObj \subseteq ComObj /\ ComObj \ {p, pdqrwait[p]} \subseteq ComObj
    BY PdqNames
  <2>2. QED
    BY <1>1, <2>1, LeavesAloneFewer
<1>3. AllStay(ComObj \ {p, pdqrwait[p]}, d, e)
  BY FinishedStay
<1>4. QED
  BY <1>2, <1>3, PriQueuesLeftAlone DEF AtPriQueue

\* The control block of p is written.
LEMMA WrittenAtPriQueue ==
  ASSUME NEW d, NEW L \in SUBSET Task, PriQueuesOK(d, L), NEW p \in Pdq, NEW b,
         Blocks(b, pdqcnt[p]),
         \A t \in L : d.wobj[t] = pdqrwait[p] => b.list = << >>,
         \A t \in L : d.wobj[t] = p => Len(b.list) = pdqcnt[p],
         NEW e, Correct(e, L), Keeps(d, e), Written(d, e, p, b)
  PROVE  AtPriQueue(d, L, e, p)
<1>1. PriQueueOK(d, L, p)
  BY DEF PriQueuesOK
<1>2. PriQueueOK(e, L, p)
  BY <1>1 DEF PriQueueOK, Written
<1>3. LeavesAlone(ComObj \ {p, pdqrwait[p]}, d, L, e, L) /\ AllStay(ComObj \ {p, pdqrwait[p]}, d, e)
  BY WrittenLeavesAlone
<1>4. QED
  BY <1>2, <1>3, OtherPriQueues DEF AtPriQueue

LEMMA BlocksLength ==
  ASSUME NEW n \in Nat, NEW b, Blocks(b, n)
  PROVE  Len(b.list) \in 0 .. n /\ (b.list = << >> <=> Len(b.list) = 0)
<1>1. /\ b.list \in Seq(Entry) /\ Len(b.list) \in Nat /\ Len(b.freelist) \in Nat
      /\ b.unused \in Nat
  BY BlocksFields
<1>2. Len(b.list) + Len(b.freelist) = b.unused /\ b.unused <= n
  BY DEF Blocks
<1>3. Len(b.list) <= n
  <2>1. PICK i \in Nat : i = Len(b.list)
    BY <1>1
  <2>2. PICK j \in Nat : j = Len(b.freelist)
    BY <1>1
  <2>3. PICK u \in Nat : u = b.unused
    BY <1>1
  <2>4. i + j = u /\ u <= n
    BY <1>2, <2>1, <2>2, <2>3
  <2>5. i <= n
    BY <2>4
  <2>6. QED
    BY <2>1, <2>5
<1>4. QED
  BY <1>1, <1>3, EmptySeq

\* A datum goes to the first receiver that waits, or into a block.
LEMMA PriSends ==
  ASSUME Correct(k, Task), PriQueuesOK(k, Task), NEW p \in Pdq, NEW x \in PriData(p), CanSendPri(p)
  PROVE  AtPriQueue(k, Task, send_pridata(p, x), p)
<1> DEFINE e == send_pridata(p, x)
<1>1. p \in ComObj /\ p \in Obj /\ pdqrwait[p] \in Obj /\ pdqcnt[p] \in Nat /\ Task \in SUBSET Task
  BY PdqNames
<1>2. PriQueueOK(k, Task, p) /\ Blocks(k.cb[p], pdqcnt[p])
  BY DEF PriQueuesOK, PriQueueOK
<1>3. Len(k.cb[p].list) \in 0 .. pdqcnt[p]
  BY <1>1, <1>2, BlocksLength
<1>4. CASE k.wait_queue[pdqrwait[p]] # << >>
  <2> DEFINE t == Head(k.wait_queue[pdqrwait[p]])
  <2>1. e = wait_complete_with(queue_delete_next(k, pdqrwait[p]), t, x)
    BY <1>4 DEF send_pridata
  <2>2. t \in Task /\ k.wobj[t] = pdqrwait[p] /\ Correct(e, Task) /\ Keeps(k, e) /\ Finished(k, e, t, x, "E_OK")
    <3> HIDE DEF e
    <3>1. LET f == wait_complete_with(queue_delete_next(k, pdqrwait[p]), t, x)
          IN  t \in Task /\ k.wobj[t] = pdqrwait[p] /\ Correct(f, Task) /\ Keeps(k, f) /\ Finished(k, f, t, x, "E_OK")
      BY <1>1, <1>4, Grants
    <3>2. QED
      BY <2>1, <3>1
  <2> HIDE DEF t, e
  <2>3. AtPriQueue(k, Task, e, p)
    BY <1>1, <2>2, FinishedAtPriQueue
  <2>4. QED
    BY <2>3 DEF e
<1>5. CASE k.wait_queue[pdqrwait[p]] = << >>
  <2> DEFINE b == enqueue_pridata(k.cb[p], x)
  <2>1. e = [k EXCEPT !.cb[p] = b] /\ Len(k.cb[p].list) < pdqcnt[p]
    <3>1. Len(k.cb[p].list) < pdqcnt[p]
      BY <1>5 DEF CanSendPri
    <3>2. QED
      BY <1>5, <3>1 DEF send_pridata
  <2>2. Blocks(b, pdqcnt[p])
    BY <1>1, <1>2, <2>1, PriEnqueue
  <2> HIDE DEF b, e
  <2>3. Correct(e, Task) /\ Keeps(k, e) /\ Written(k, e, p, b)
    BY <1>1, <2>1, Writes
  <2>4. \A t \in Task : k.wobj[t] # pdqrwait[p]
    BY <1>1, <1>5, EmptyQueue
  <2>5. \A t \in Task : k.wobj[t] # p
    BY <1>1, <1>2, <1>3, <2>1 DEF PriQueueOK
  <2>6. AtPriQueue(k, Task, e, p)
    BY <1>1, <2>2, <2>3, <2>4, <2>5, WrittenAtPriQueue
  <2>7. QED
    BY <2>6 DEF e
<1>6. QED
  BY <1>4, <1>5

\* The first datum is taken; the first sender that waits, if any, sends his.
LEMMA PriReceives ==
  ASSUME Correct(k, Task), PriQueuesOK(k, Task), NEW p \in Pdq, CanReceivePri(p)
  PROVE  AtPriQueue(k, Task, receive_pridata(p), p)
<1> DEFINE e == receive_pridata(p)
           c == k.cb[p]
           b == dequeue_pridata(c)
           s == Head(k.wait_queue[p])
<1>1. /\ p \in ComObj /\ p \in Obj /\ pdqrwait[p] \in Obj /\ pdqcnt[p] \in Nat
      /\ Task \in SUBSET Task
  BY PdqNames
<1>2. PriQueueOK(k, Task, p) /\ Blocks(c, pdqcnt[p])
  BY DEF PriQueuesOK, PriQueueOK
<1>3. Len(c.list) \in 0 .. pdqcnt[p]
  BY <1>1, <1>2, BlocksLength
<1>4. c.list # << >> => Blocks(b, pdqcnt[p]) /\ Len(b.list) = Len(c.list) - 1
  BY <1>1, <1>2, PriDequeue
<1>5. c.list # << >> => \A t \in Task : k.wobj[t] # pdqrwait[p]
  BY <1>2 DEF PriQueueOK
<1> HIDE DEF b, c
<1>6. CASE k.wait_queue[p] = << >>
  <2>1. c.list # << >>
    BY <1>6 DEF CanReceivePri, c
  <2>2. e = [k EXCEPT !.cb[p] = b]
    BY <1>6, <2>1 DEF receive_pridata, b, c
  <2> HIDE DEF e
  <2>3. Correct(e, Task) /\ Keeps(k, e) /\ Written(k, e, p, b)
    BY <1>1, <2>2, Writes
  <2>4. \A t \in Task : k.wobj[t] # p
    BY <1>1, <1>6, EmptyQueue
  <2>5. AtPriQueue(k, Task, e, p)
    BY <1>1, <1>4, <1>5, <2>1, <2>3, <2>4, WrittenAtPriQueue
  <2>6. QED
    BY <2>5 DEF e
<1>7. CASE k.wait_queue[p] # << >> /\ c.list = << >>
  <2>1. e = wait_complete(queue_delete_next(k, p), s)
    BY <1>7 DEF receive_pridata, c
  <2>2. s \in Task /\ k.wobj[s] = p /\ Correct(e, Task) /\ Keeps(k, e) /\ Finished(k, e, s, k.winfo[s], "E_OK")
    <3> HIDE DEF e
    <3>1. LET f == wait_complete(queue_delete_next(k, p), s)
          IN  s \in Task /\ k.wobj[s] = p /\ Correct(f, Task) /\ Keeps(k, f) /\ Finished(k, f, s, k.winfo[s], "E_OK")
      BY <1>1, <1>7, Grants
    <3>2. QED
      BY <2>1, <3>1
  <2> HIDE DEF e, s
  <2>3. AtPriQueue(k, Task, e, p)
    BY <1>1, <2>2, FinishedAtPriQueue
  <2>4. QED
    BY <2>3 DEF e
<1>8. CASE k.wait_queue[p] # << >> /\ c.list # << >>
  <2> DEFINE a  == enqueue_pridata(b, k.winfo[s])
             k1 == [k EXCEPT !.cb[p] = a]
  <2>1. s \in Task /\ k.wobj[s] = p
    BY <1>1, <1>8, Grants
  <2>2. k.winfo[s] \in PriData(p) /\ Len(c.list) = pdqcnt[p]
    BY <1>2, <2>1 DEF PriQueueOK, c
  <2>3. Blocks(a, pdqcnt[p]) /\ Len(a.list) = Len(c.list)
    <3>1. Len(b.list) < pdqcnt[p] /\ Blocks(b, pdqcnt[p])
      BY <1>1, <1>3, <1>4, <1>8, <2>2
    <3>2. LET e1 == enqueue_pridata(b, k.winfo[s])
          IN  Blocks(e1, pdqcnt[p]) /\ Len(e1.list) = Len(b.list) + 1
      BY <1>1, <2>2, <3>1, PriEnqueue
    <3>3. QED
      BY <1>3, <1>4, <1>8, <3>2
  <2>4. Whole(k) /\ DOMAIN k.cb = ComObj
    BY <1>1, CorrectFields DEF Correct, HasBlocks
  <2>5. e = wait_complete(queue_delete_next(k1, p), s)
    <3>1. [[k EXCEPT !.cb[p] = b] EXCEPT !.cb[p] = enqueue_pridata(@, k.winfo[s])] = k1
      BY <1>1, <2>4 DEF Whole
    <3>2. QED
      BY <1>8, <3>1 DEF receive_pridata, b, c
  <2> HIDE DEF a
  <2>6. Correct(k1, Task) /\ Keeps(k, k1) /\ Written(k, k1, p, a)
    BY <1>1, Writes
  <2> HIDE DEF k1, e
  <2>7. AtPriQueue(k, Task, k1, p)
    BY <1>1, <1>5, <1>8, <2>2, <2>3, <2>6, WrittenAtPriQueue
  <2>8. k1.wait_queue[p] # << >> /\ s = Head(k1.wait_queue[p])
    BY <1>8, <2>6 DEF Written
  <2>9. s \in Task /\ k1.wobj[s] = p /\ Correct(e, Task) /\ Keeps(k1, e) /\ Finished(k1, e, s, k1.winfo[s], "E_OK")
    <3>1. LET f == wait_complete(queue_delete_next(k1, p), Head(k1.wait_queue[p]))
          IN  Correct(f, Task) /\ Keeps(k1, f)
              /\ Finished(k1, f, Head(k1.wait_queue[p]), k1.winfo[Head(k1.wait_queue[p])], "E_OK")
      BY <1>1, <2>6, <2>8, Grants
    <3>2. QED
      BY <2>1, <2>5, <2>6, <2>8, <3>1 DEF Written
  <2> HIDE DEF s
  <2>10. AtPriQueue(k1, Task, e, p)
    BY <1>1, <2>6, <2>7, <2>9, FinishedAtPriQueue DEF AtPriQueue
  <2>11. AtPriQueue(k, Task, e, p)
    BY <2>7, <2>10 DEF AtPriQueue, Keeps, LeavesAlone, AllStay
  <2>12. QED
    BY <2>11 DEF e
<1>9. QED
  BY <1>6, <1>7, <1>8

-----------------------------------------------------------------------------
\* While ini_pdq ends the waits of the receivers, there are no senders.
PdqLoop ==
  pc = "init_wait_queue" => \A p \in Pdq : frame.obj = pdqrwait[p] => \A t \in Task : k.wobj[t] # p

PdqInv == PriQueuesOK(k, Live) /\ PdqLoop

\* What happens at other objects leaves it alone.
LEMMA PdqElsewhere ==
  ASSUME KInv, PdqInv, NEW O, O \cap PdqObj = {}, Elsewhere(O)
  PROVE  PdqInv'
<1>1. LeavesAlone(ComObj \ O, k, Live, k', Live')
  BY DEF Elsewhere
<1>2. LeavesAlone(PdqObj, k, Live, k', Live')
  <2>1. PdqObj \subseteq ComObj \ O
    BY PdqNames
  <2>2. QED
    BY <1>1, <2>1, LeavesAloneFewer
<1>3. PriQueuesOK(k', Live')
  BY <1>2, PriQueuesLeftAlone DEF PdqInv
<1>4. PdqLoop'
  <2> SUFFICES ASSUME pc' = "init_wait_queue", NEW p \in Pdq, frame'.obj = pdqrwait[p], NEW t \in Task
               PROVE  k'.wobj[t] # p
    BY DEF PdqLoop
  <2>1. pdqrwait[p] \in ComObj /\ pdqrwait[p] \in PdqObj /\ p \in PdqObj
    BY PdqNames
  <2>2. pdqrwait[p] \notin O \cup Sem \cup Mtx
    BY <2>1, ObjAssumption
  <2>3. pc = "init_wait_queue" /\ frame.obj = pdqrwait[p]
    BY <2>2 DEF Elsewhere
  <2>4. k.wobj[t] # p
    BY <2>3 DEF PdqInv, PdqLoop
  <2>5. t \in Live'
    BY DEF Live, Ending
  <2>6. QED
    BY <1>2, <2>1, <2>4, <2>5 DEF LeavesAlone
<1>5. QED
  BY <1>3, <1>4 DEF PdqInv

LEMMA PdqStep ==
  ASSUME KInv, PdqInv, PriDataQueueNext
  PROVE  KInv' /\ PdqInv' /\ Elsewhere(PdqObj)
<1> DEFINE Goal == KInv' /\ PdqInv' /\ Elsewhere(PdqObj)
<1>1. Task \in SUBSET Task /\ PdqObj \subseteq ComObj
  BY PdqNames
<1>2. ASSUME NEW p \in Pdq, NEW e, Over(e), AtPriQueue(k, Task, e, p)
      PROVE  Goal
  <2>1. ComObj \ PdqObj \subseteq ComObj \ {p, pdqrwait[p]}
    BY PdqNames
  <2>2. LeavesAlone(ComObj \ PdqObj, k, Task, e, Task) /\ AllStay(ComObj \ PdqObj, k, e)
    BY <1>2, <2>1, LeavesAloneFewer DEF AtPriQueue, AllStay
  <2>3. KInv' /\ Elsewhere(PdqObj)
    BY <1>2, <2>2, OverElsewhere
  <2>4. PriQueuesOK(k', Live') /\ PdqLoop'
    BY <1>2 DEF Over, AtPriQueue, PdqLoop
  <2>5. QED
    BY <2>3, <2>4 DEF PdqInv
<1>3. ASSUME TaskContext \/ IntContext
      PROVE  Correct(k, Task) /\ PriQueuesOK(k, Task) /\ Live = Task
  BY <1>3, CallFacts DEF PdqInv
<1>4. ASSUME NEW p \in Pdq, NEW e,
             (TaskContext /\ TaskCall(e)) \/ (IntContext /\ IntCall(e)),
             AtPriQueue(k, Task, e, p)
      PROVE  Goal
  <2>1. Over(e)
    BY <1>4, CallIsOver DEF AtPriQueue
  <2>2. QED
    BY <1>2, <1>4, <2>1
<1>5. ASSUME NEW p \in Pdq, NEW x \in PriData(p), psnd_pdq(p, x) \/ ipsnd_pdq(p, x) PROVE Goal
  <2> DEFINE e == send_pridata(p, x)
  <2>1. ((TaskContext /\ TaskCall(e)) \/ (IntContext /\ IntCall(e))) /\ CanSendPri(p)
    BY <1>5 DEF psnd_pdq, ipsnd_pdq
  <2>2. AtPriQueue(k, Task, e, p)
    BY <1>1, <1>3, <2>1, PriSends
  <2> HIDE DEF e
  <2>3. QED
    BY <1>4, <2>1, <2>2
<1>6. ASSUME NEW p \in Pdq, prcv_pdq(p) PROVE Goal
  <2> DEFINE e == receive_pridata(p)
  <2>1. ((TaskContext /\ TaskCall(e)) \/ (IntContext /\ IntCall(e))) /\ CanReceivePri(p)
    BY <1>6 DEF prcv_pdq
  <2>2. AtPriQueue(k, Task, e, p)
    BY <1>1, <1>3, <2>1, PriReceives
  <2> HIDE DEF e
  <2>3. QED
    BY <1>4, <2>1, <2>2
<1>7. ASSUME NEW p \in Pdq, NEW o \in {p, pdqrwait[p]}, NEW x, NEW e, Started(k, e, runtsk, o, x),
             Correct(e, Task), MayWait, WaitCall(e),
             o = p => x \in PriData(p) /\ ~CanSendPri(p),
             o = pdqrwait[p] => ~CanReceivePri(p)
      PROVE  Goal
  <2>1. /\ Correct(k, Task) /\ PriQueuesOK(k, Task) /\ Live = Task
        /\ runtsk \in Task /\ TaskContext
    BY <1>3, <1>7, CallFacts DEF MayWait
  <2>2. KInv' /\ k' = e /\ Live' = Task /\ pc' # "init_wait_queue"
    BY <1>7, WaitCallIsOver DEF Over
  <2>3. PriQueueOK(k, Task, p) /\ p \in Obj /\ pdqrwait[p] \in Obj /\ pdqrwait[p] # p /\ pdqcnt[p] \in Nat
    BY <2>1, PdqNames DEF PriQueuesOK
  <2>4. Len(k.cb[p].list) \in 0 .. pdqcnt[p]
    BY <2>3, BlocksLength DEF PriQueueOK
  <2>5. Whole(k)
    BY <2>1, CorrectFields
  <2>6. PriQueueOK(e, Task, p)
    <3>1. CASE o = p
      <4>1. k.wait_queue[pdqrwait[p]] = << >> /\ Len(k.cb[p].list) = pdqcnt[p]
        BY <1>7, <2>3, <2>4, <3>1 DEF CanSendPri
      <4>2. \A t \in Task : k.wobj[t] # pdqrwait[p]
        BY <1>1, <2>1, <2>3, <4>1, EmptyQueue
      <4>3. QED
        BY <1>7, <2>1, <2>3, <2>5, <3>1, <4>1, <4>2 DEF PriQueueOK, Started, Whole
    <3>2. CASE o = pdqrwait[p]
      <4>1. k.wait_queue[p] = << >> /\ k.cb[p].list = << >>
        BY <1>7, <2>3, <2>4, <3>2 DEF CanReceivePri
      <4>2. \A t \in Task : k.wobj[t] # p
        BY <1>1, <2>1, <2>3, <4>1, EmptyQueue
      <4>3. QED
        BY <1>7, <2>1, <2>3, <2>5, <3>2, <4>1, <4>2 DEF PriQueueOK, Started, Whole
    <3>3. QED
      BY <1>7, <3>1, <3>2
  <2>7. LeavesAlone(ComObj \ {p, pdqrwait[p]}, k, Task, e, Task) /\ AllStay(ComObj \ {p, pdqrwait[p]}, k, e)
    BY <1>1, <1>7, <2>1, StartedLeavesAlone
  <2>8. PriQueuesOK(e, Task)
    BY <2>1, <2>6, <2>7, OtherPriQueues
  <2>9. ComObj \ PdqObj \subseteq ComObj \ {p, pdqrwait[p]}
    BY PdqNames
  <2>10. LeavesAlone(ComObj \ PdqObj, k, Task, e, Task) /\ AllStay(ComObj \ PdqObj, k, e)
    BY <2>7, <2>9, LeavesAloneFewer DEF AllStay
  <2>11. QED
    BY <2>1, <2>2, <2>8, <2>10 DEF PdqInv, PdqLoop, Elsewhere, OneQueueMoves, AllStay, GivesNothing
<1>8. ASSUME NEW p \in Pdq, NEW x \in PriData(p), NEW timed \in BOOLEAN, snd_pdq(p, x, timed) PROVE Goal
  <2> DEFINE e == wobj_make_wait_with(k, runtsk, p, timed, x)
  <2>1. MayWait /\ TaskContext /\ WaitCall(e) /\ ~CanSendPri(p)
    BY <1>8 DEF snd_pdq, MayWait
  <2>2. Correct(k, Task) /\ runtsk \in Task /\ IsRunnable(k, runtsk)
    BY <1>3, <2>1, CallFacts
  <2>3. p \in ComObj /\ pdqrwait[p] # p
    BY PdqNames
  <2>4. Correct(e, Task) /\ Started(k, e, runtsk, p, x)
    BY <2>2, <2>3, Starts
  <2> HIDE DEF e
  <2>5. QED
    BY <1>7, <2>1, <2>3, <2>4
<1>9. ASSUME NEW p \in Pdq, NEW timed \in BOOLEAN, rcv_pdq(p, timed) PROVE Goal
  <2> DEFINE e == wobj_make_wait(k, runtsk, pdqrwait[p], timed)
  <2>1. MayWait /\ TaskContext /\ WaitCall(e) /\ ~CanReceivePri(p)
    BY <1>9 DEF rcv_pdq, MayWait
  <2>2. Correct(k, Task) /\ runtsk \in Task /\ IsRunnable(k, runtsk)
    BY <1>3, <2>1, CallFacts
  <2>3. pdqrwait[p] \in ComObj /\ pdqrwait[p] # p
    BY PdqNames
  <2>4. Correct(e, Task) /\ Started(k, e, runtsk, pdqrwait[p], k.winfo[runtsk])
    BY <2>2, <2>3, Starts
  <2> HIDE DEF e
  <2>5. QED
    BY <1>7, <2>1, <2>3, <2>4
<1>10. ASSUME NEW p \in Pdq, ini_pdq(p) PROVE Goal
  <2>1. p \in Obj /\ p \in PdqObj /\ \A r \in Pdq : pdqrwait[r] # p
    BY PdqNames
  <2>2. KInv' /\ k' = k /\ Live = Task /\ Live' = Task /\ frame'.obj = p
    BY <1>10, <2>1, IniCall DEF ini_pdq
  <2>3. LeavesAlone(ComObj \ PdqObj, k, Live, k', Live') /\ GivesNothing(ComObj \ PdqObj)
    BY <2>2 DEF LeavesAlone, GivesNothing
  <2>4. PdqInv'
    BY <2>1, <2>2 DEF PdqInv, PdqLoop
  <2>5. QED
    BY <2>1, <2>2, <2>3, <2>4 DEF Elsewhere, OneQueueMoves
<1>11. ASSUME ini_pdq_rwait PROVE Goal
  <2>1. /\ pc = "init_wait_queue" /\ frame.obj \in Pdq /\ k.wait_queue[frame.obj] = << >>
        /\ frame' = [frame EXCEPT !.obj = pdqrwait[frame.obj]]
        /\ UNCHANGED << k, runtsk, pc, flags, reqflg, excpt_nest_count, locked >>
    BY <1>11 DEF ini_pdq_rwait
  <2>2. Correct(k, Task) /\ Live = Task
    BY <2>1, IniLoop
  <2>3. PICK p \in Pdq : frame.obj = p
    BY <2>1
  <2>4. p \in Obj /\ pdqrwait[p] \in Obj /\ pdqrwait[p] \in PdqObj
    BY PdqNames
  <2>5. KInv' /\ Live = Task /\ Live' = Task /\ frame'.obj = pdqrwait[p]
    BY <2>1, <2>3, <2>4, IniGoesOn
  <2>6. \A t \in Task : k.wobj[t] # p
    BY <1>1, <2>1, <2>2, <2>3, <2>4, EmptyQueue
  <2>7. PdqLoop'
    <3>1. \A r \in Pdq : pdqrwait[r] = pdqrwait[p] => r = p
      BY PdqNames
    <3>2. QED
      BY <2>1, <2>5, <2>6, <3>1 DEF PdqLoop
  <2>8. /\ PdqInv' /\ LeavesAlone(ComObj \ PdqObj, k, Live, k', Live') /\ GivesNothing(ComObj \ PdqObj)
        /\ k' = k
    BY <2>1, <2>5, <2>7 DEF PdqInv, LeavesAlone, GivesNothing
  <2>9. QED
    BY <2>4, <2>5, <2>8 DEF Elsewhere, OneQueueMoves
<1>12. ASSUME ini_pdq_end PROVE Goal
  <2>1. PICK p \in Pdq : /\ pc = "init_wait_queue" /\ frame.obj = pdqrwait[p]
                         /\ k.wait_queue[pdqrwait[p]] = << >>
                         /\ LoopEnd([k EXCEPT !.cb[p] = NoPriData])
    BY <1>12 DEF ini_pdq_end
  <2> DEFINE b == NoPriData
             e == [k EXCEPT !.cb[p] = b]
  <2>2. Correct(k, Task) /\ Live = Task /\ PriQueuesOK(k, Task)
    BY <2>1, IniLoop DEF PdqInv
  <2>3. Blocks(b, pdqcnt[p]) /\ p \in ComObj /\ pdqrwait[p] \in Obj
    BY PriEmpty, PdqNames
  <2> HIDE DEF b
  <2>4. Correct(e, Task) /\ Keeps(k, e) /\ Written(k, e, p, b)
    BY <1>1, <2>2, <2>3, Writes
  <2>5. LoopEnd(e)
    BY <2>1 DEF b
  <2> HIDE DEF e
  <2>6. Over(e)
    BY <2>1, <2>4, <2>5, IniIsOver
  <2>7. \A t \in Task : k.wobj[t] # pdqrwait[p] /\ k.wobj[t] # p
    BY <1>1, <2>1, <2>2, <2>3, EmptyQueue DEF PdqInv, PdqLoop
  <2>8. AtPriQueue(k, Task, e, p)
    BY <1>1, <2>2, <2>3, <2>4, <2>7, WrittenAtPriQueue
  <2>9. QED
    BY <1>2, <2>6, <2>8
<1>13. ASSUME init_wait_queue PROVE Goal
  <2>1. [Next]_vars
    BY <1>13 DEF Next, SemaphoreNext
  <2>2. KInv' /\ Elsewhere({})
    BY <2>1, KernelElsewhere
  <2>3. PdqInv'
    BY <2>2, PdqElsewhere
  <2>4. ComObj \ PdqObj \subseteq ComObj \ {}
    OBVIOUS
  <2>5. /\ LeavesAlone(ComObj \ PdqObj, k, Live, k', Live') /\ GivesNothing(ComObj \ PdqObj)
        /\ OneQueueMoves(ComObj \ PdqObj, k.wait_queue, k'.wait_queue)
    BY <2>2, <2>4, LeavesAloneFewer, FewerQueuesMove DEF Elsewhere, GivesNothing
  <2>6. QED
    BY <2>2, <2>3, <2>5 DEF Elsewhere
<1>14. QED
  BY <1>5, <1>6, <1>7, <1>6, <1>8, <1>9, <1>10, <1>11, <1>12, <1>13 DEF PriDataQueueNext

-----------------------------------------------------------------------------
(***************************************************************************)
(* Fixed-sized memory pools.                                               *)
(***************************************************************************)
\* The i-th block of a list of blocks, and what ends the list.
Nth(s, i) == IF i <= Len(s) THEN s[i] ELSE INDEX_NULL

\* s is the list that starts at freelist.
Chain(b, s) ==
  /\ s \in Seq(Nat) /\ IsInjective(s) /\ b.freelist = Nth(s, 1)
  /\ \A i \in 1 .. Len(s) : b.next[s[i]] = Nth(s, i + 1)

FreeBlocks(b) == {blk \in 0 .. b.unused - 1 : b.next[blk] # INDEX_ALLOC}

\* s holds just the blocks that were given back, and fblkcnt is exact.
Holds(b, n, s) ==
  Chain(b, s) /\ ToSet(s) = FreeBlocks(b) /\ Len(s) + n = b.fblkcnt + b.unused

Pool(b, n) ==
  /\ b \in [fblkcnt : Nat, unused : 0 .. n, freelist : Int, next : [0 .. n - 1 -> Int]]
  /\ \E s : Holds(b, n, s)

LEMMA PoolFields ==
  ASSUME NEW n \in Nat, NEW b, Pool(b, n)
  PROVE  /\ b.fblkcnt \in Nat /\ b.unused \in 0 .. n /\ b.unused \in Nat /\ b.freelist \in Int
         /\ b.next \in [0 .. n - 1 -> Int]
         /\ b = [fblkcnt |-> b.fblkcnt, unused |-> b.unused, freelist |-> b.freelist, next |-> b.next]
BY DEF Pool

\* The list is empty just when freelist says so.
LEMMA ChainStart ==
  ASSUME NEW b, NEW s, Chain(b, s)
  PROVE  /\ b.freelist = INDEX_NULL <=> s = << >>
         /\ s # << >> => /\ b.freelist = s[1] /\ s[1] = Head(s) /\ s[1] \in ToSet(s) /\ s[1] \in Nat
                         /\ Len(s) \in Nat \ {0}
<1>1. s \in Seq(Nat) /\ Len(s) \in Nat
  BY DEF Chain
<1>2. CASE s = << >>
  BY <1>2 DEF Chain, Nth
<1>3. CASE s # << >>
  <2>1. Len(s) \in Nat \ {0} /\ 1 \in 1 .. Len(s)
    BY <1>1, <1>3, EmptySeq
  <2>2. s[1] \in Nat /\ s[1] = Head(s)
    BY <1>1, <2>1
  <2>3. s[1] \in ToSet(s)
    BY <1>1, <2>1 DEF ToSet
  <2>4. b.freelist = s[1]
    BY <2>1 DEF Chain, Nth
  <2>5. QED
    BY <1>3, <2>1, <2>2, <2>3, <2>4 DEF INDEX_NULL
<1>4. QED
  BY <1>2, <1>3

\* The list goes on behind its first block, whose link is then free to change.
LEMMA ChainTail ==
  ASSUME NEW b, NEW s, Chain(b, s), s # << >>, NEW c,
         c.freelist = b.next[s[1]],
         \A blk \in ToSet(s) \ {s[1]} : c.next[blk] = b.next[blk]
  PROVE  Chain(c, Tail(s)) /\ Len(Tail(s)) = Len(s) - 1 /\ ToSet(Tail(s)) = ToSet(s) \ {s[1]}
<1> DEFINE r == Tail(s)
<1>1. s \in Seq(Nat) /\ Len(s) \in Nat \ {0} /\ IsInjective(s) /\ s[1] = Head(s)
  BY ChainStart DEF Chain
<1>2. /\ r \in Seq(Nat) /\ Len(r) = Len(s) - 1 /\ IsInjective(r)
      /\ ToSet(r) = ToSet(s) \ {s[1]}
  BY <1>1, TailEntries
<1>3. \A i \in 1 .. Len(r) : r[i] = s[i + 1] /\ i + 1 \in 1 .. Len(s)
  <2>1. \A i \in 1 .. Len(r) : r[i] = s[i + 1]
    BY <1>1, HeadTailProperties
  <2>2. QED
    BY <1>1, <1>2, <2>1
<1>4. Len(r) \in Nat /\ \A i \in Nat \ {0} : Nth(r, i) = Nth(s, i + 1)
  <2>1. Len(r) \in Nat
    BY <1>2
  <2> SUFFICES ASSUME NEW i \in Nat \ {0} PROVE Nth(r, i) = Nth(s, i + 1)
    BY <2>1
  <2>2. i <= Len(r) <=> i + 1 <= Len(s)
    BY <1>1, <1>2
  <2>3. i <= Len(r) => r[i] = s[i + 1]
    BY <1>3, <2>1
  <2>4. QED
    BY <2>2, <2>3 DEF Nth
<1> HIDE DEF r
<1>5. c.freelist = Nth(r, 1)
  <2>1. b.next[s[1]] = Nth(s, 2)
    BY <1>1 DEF Chain
  <2>2. QED
    BY <1>4, <2>1
<1>6. ASSUME NEW i \in 1 .. Len(r) PROVE c.next[r[i]] = Nth(r, i + 1)
  <2>1. r[i] \in ToSet(r) /\ i + 1 \in Nat \ {0} /\ i + 1 + 1 = i + 2
    BY <1>2, <1>4 DEF ToSet
  <2>2. c.next[r[i]] = b.next[s[i + 1]]
    BY <1>2, <1>3, <2>1
  <2>3. b.next[s[i + 1]] = Nth(s, i + 1 + 1)
    BY <1>3 DEF Chain
  <2>4. QED
    BY <1>4, <2>1, <2>2, <2>3
<1>7. QED
  BY <1>2, <1>5, <1>6 DEF Chain, r

\* A block goes before the first of the list.
LEMMA ChainPrepend ==
  ASSUME NEW b, NEW s, Chain(b, s), NEW blk \in Nat, blk \notin ToSet(s), NEW c,
         c.freelist = blk, c.next[blk] = b.freelist,
         \A p \in ToSet(s) : c.next[p] = b.next[p]
  PROVE  LET r == << blk >> \o s
         IN  Chain(c, r) /\ Len(r) = Len(s) + 1 /\ ToSet(r) = ToSet(s) \cup {blk}
<1> DEFINE r == << blk >> \o s
<1>1. s \in Seq(Nat) /\ Len(s) \in Nat /\ IsInjective(s)
  BY DEF Chain
<1>2. r \in Seq(Nat) /\ IsInjective(r) /\ ToSet(r) = ToSet(s) \cup {blk}
  BY <1>1, QueuePrepend
<1>3. << blk >> \in Seq(Nat) /\ Len(<< blk >>) = 1 /\ << blk >>[1] = blk
  OBVIOUS
<1>4. /\ Len(r) = Len(<< blk >>) + Len(s)
      /\ \A i \in 1 .. Len(r) : r[i] = IF i <= Len(<< blk >>) THEN << blk >>[i]
                                       ELSE s[i - Len(<< blk >>)]
  BY <1>1, <1>3, ConcatProperties
<1> HIDE DEF r
<1>5. Len(r) = Len(s) + 1 /\ r[1] = blk
  BY <1>1, <1>3, <1>4
<1>6. \A i \in 2 .. Len(r) : r[i] = s[i - 1] /\ i - 1 \in 1 .. Len(s)
  BY <1>1, <1>3, <1>4, <1>5
<1>7. \A i \in Nat \ {0} : Nth(r, i + 1) = Nth(s, i)
  <2> SUFFICES ASSUME NEW i \in Nat \ {0} PROVE Nth(r, i + 1) = Nth(s, i)
    OBVIOUS
  <2>1. i + 1 <= Len(r) <=> i <= Len(s)
    BY <1>1, <1>5
  <2>2. i + 1 <= Len(r) => r[i + 1] = s[i]
    BY <1>1, <1>5, <1>6
  <2>3. QED
    BY <2>1, <2>2 DEF Nth
<1>8. c.freelist = Nth(r, 1)
  BY <1>1, <1>5 DEF Nth
<1>9. ASSUME NEW i \in 1 .. Len(r) PROVE c.next[r[i]] = Nth(r, i + 1)
  <2>1. CASE i = 1
    <3>1. Nth(r, 1 + 1) = Nth(s, 1)
      BY <1>7
    <3>2. QED
      BY <1>5, <2>1, <3>1 DEF Chain
  <2>2. CASE i # 1
    <3>1. i \in 2 .. Len(r)
      BY <1>1, <1>5, <2>2
    <3>2. r[i] = s[i - 1] /\ i - 1 \in 1 .. Len(s) /\ i - 1 + 1 = i /\ i \in Nat \ {0}
      BY <1>6, <3>1
    <3>3. s[i - 1] \in ToSet(s)
      BY <1>1, <3>2 DEF ToSet
    <3>4. b.next[s[i - 1]] = Nth(s, i)
      BY <3>2 DEF Chain
    <3>5. QED
      BY <1>7, <3>2, <3>3, <3>4
  <2>3. QED
    BY <2>1, <2>2
<1>10. QED
  BY <1>2, <1>5, <1>8, <1>9 DEF Chain, r

LEMMA OneLess ==
  ASSUME NEW i \in Nat, NEW j \in Nat, NEW m \in Nat, NEW n \in Nat, i + n = j + m
  PROVE  (i - 1) + n = (j - 1) + m /\ (i + 1) + n = (j + 1) + m
OBVIOUS

\* A block is given: it was free, and is in use.
LEMMA PoolGet ==
  ASSUME NEW n \in Nat, NEW b, Pool(b, n), b.fblkcnt > 0
  PROVE  LET c == get_mpf_block(b)
             blk == new_block(b)
         IN  /\ Pool(c, n) /\ blk \in 0 .. n - 1 /\ b.unused <= c.unused
             /\ c.next = [b.next EXCEPT ![blk] = INDEX_ALLOC] /\ blk < c.unused
             /\ ~(blk < b.unused /\ b.next[blk] = INDEX_ALLOC)
<1> DEFINE c == get_mpf_block(b)
           blk == new_block(b)
<1>1. /\ b.fblkcnt \in Nat /\ b.unused \in 0 .. n /\ b.freelist \in Int
      /\ b.next \in [0 .. n - 1 -> Int] /\ b.unused \in Nat
  BY PoolFields
<1>2. PICK s : Holds(b, n, s)
  BY DEF Pool
<1>3. Chain(b, s) /\ ToSet(s) = FreeBlocks(b) /\ Len(s) + n = b.fblkcnt + b.unused
  BY <1>2 DEF Holds
<1>4. c = [fblkcnt  |-> b.fblkcnt - 1,
           unused   |-> IF b.freelist # INDEX_NULL THEN b.unused ELSE b.unused + 1,
           freelist |-> IF b.freelist # INDEX_NULL THEN b.next[blk] ELSE b.freelist,
           next     |-> [b.next EXCEPT ![blk] = INDEX_ALLOC]]
  BY DEF get_mpf_block
<1>5. INDEX_ALLOC \in Int /\ INDEX_NULL \in Int /\ b.fblkcnt - 1 \in Nat
  BY <1>1 DEF INDEX_ALLOC, INDEX_NULL
<1>6. Len(s) \in Nat
  BY <1>3 DEF Chain
<1> HIDE DEF c
<1>7. CASE b.freelist # INDEX_NULL
  <2>1. blk = b.freelist
    BY <1>7 DEF new_block
  <2>2. s # << >> /\ blk = s[1] /\ blk \in ToSet(s)
    BY <1>3, <1>7, <2>1, ChainStart
  <2> HIDE DEF blk
  <2>3. blk \in 0 .. b.unused - 1 /\ b.next[blk] # INDEX_ALLOC
    BY <1>3, <2>2 DEF FreeBlocks
  <2>4. blk \in 0 .. n - 1
    BY <1>1, <2>3
  <2>5. /\ c.fblkcnt = b.fblkcnt - 1 /\ c.unused = b.unused /\ c.freelist = b.next[blk]
        /\ c.next = [b.next EXCEPT ![blk] = INDEX_ALLOC]
    BY <1>4, <1>7
  <2>6. c \in [fblkcnt : Nat, unused : 0 .. n, freelist : Int, next : [0 .. n - 1 -> Int]]
    <3>1. b.next[blk] \in Int
      BY <1>1, <2>4
    <3>2. [b.next EXCEPT ![blk] = INDEX_ALLOC] \in [0 .. n - 1 -> Int]
      BY <1>1, <1>5
    <3>3. QED
      BY <1>1, <1>4, <1>5, <1>7, <3>1, <3>2
  <2>7. \A p \in 0 .. n - 1 : c.next[p] = IF p = blk THEN INDEX_ALLOC ELSE b.next[p]
    BY <1>1, <2>5
  <2>8. Chain(c, Tail(s)) /\ Len(Tail(s)) = Len(s) - 1 /\ ToSet(Tail(s)) = ToSet(s) \ {blk}
    <3>1. \A p \in ToSet(s) \ {s[1]} : c.next[p] = b.next[p]
      <4>1. \A p \in ToSet(s) : p \in 0 .. n - 1
        BY <1>1, <1>3 DEF FreeBlocks
      <4>2. QED
        BY <2>2, <2>7, <4>1
    <3>2. c.freelist = b.next[s[1]]
      BY <2>2, <2>5
    <3>3. QED
      BY <1>3, <2>2, <3>1, <3>2, ChainTail
  <2>9. ToSet(Tail(s)) = FreeBlocks(c)
    BY <1>1, <1>3, <2>3, <2>5, <2>7, <2>8 DEF FreeBlocks
  <2>10. Len(Tail(s)) + n = c.fblkcnt + c.unused
    <3>1. PICK i \in Nat : i = Len(s)
      BY <1>6
    <3>2. i + n = b.fblkcnt + b.unused
      BY <1>3, <3>1
    <3>3. PICK j \in Nat, m \in Nat : j = b.fblkcnt /\ m = b.unused
      BY <1>1
    <3>4. i + n = j + m
      BY <3>2, <3>3
    <3>5. (i - 1) + n = (j - 1) + m
      BY <3>4, OneLess
    <3>6. QED
      BY <2>5, <2>8, <3>1, <3>3, <3>5
  <2>11. Pool(c, n)
    BY <2>6, <2>8, <2>9, <2>10 DEF Pool, Holds
  <2>12. QED
    BY <1>1, <2>3, <2>4, <2>5, <2>11 DEF c, blk
<1>8. CASE b.freelist = INDEX_NULL
  <2>1. blk = b.unused
    BY <1>8 DEF new_block
  <2>2. s = << >> /\ Len(s) = 0 /\ ToSet(s) = {}
    <3>1. s = << >>
      BY <1>3, <1>8, ChainStart
    <3>2. QED
      BY <3>1 DEF ToSet
  <2>3. b.unused < n
    BY <1>1, <1>3, <2>2
  <2>4. blk \in 0 .. n - 1
    BY <1>1, <2>1, <2>3
  <2> HIDE DEF blk
  <2>5. /\ c.fblkcnt = b.fblkcnt - 1 /\ c.unused = b.unused + 1 /\ c.freelist = b.freelist
        /\ c.next = [b.next EXCEPT ![blk] = INDEX_ALLOC]
    BY <1>4, <1>8
  <2>6. c \in [fblkcnt : Nat, unused : 0 .. n, freelist : Int, next : [0 .. n - 1 -> Int]]
    <3>1. [b.next EXCEPT ![blk] = INDEX_ALLOC] \in [0 .. n - 1 -> Int]
      BY <1>1, <1>5
    <3>2. b.unused + 1 \in 0 .. n
      BY <1>1, <2>3
    <3>3. QED
      BY <1>1, <1>4, <1>5, <1>8, <3>1, <3>2
  <2>7. \A p \in 0 .. n - 1 : c.next[p] = IF p = blk THEN INDEX_ALLOC ELSE b.next[p]
    BY <1>1, <2>5
  <2>8. Chain(c, s)
    BY <1>3, <2>2, <2>5 DEF Chain
  <2>9. FreeBlocks(c) = {}
    <3> SUFFICES ASSUME NEW p \in FreeBlocks(c) PROVE FALSE
      OBVIOUS
    <3>1. p \in 0 .. b.unused /\ c.next[p] # INDEX_ALLOC
      BY <1>1, <2>5 DEF FreeBlocks
    <3>2. p # blk /\ p \in 0 .. b.unused - 1 /\ p \in 0 .. n - 1
      BY <1>1, <2>1, <2>4, <2>7, <3>1
    <3>3. p \in FreeBlocks(b)
      BY <2>7, <3>1, <3>2 DEF FreeBlocks
    <3>4. QED
      BY <1>3, <2>2, <3>3
  <2>10. Len(s) + n = c.fblkcnt + c.unused
    BY <1>1, <1>3, <2>2, <2>5
  <2>11. Pool(c, n)
    BY <2>2, <2>6, <2>8, <2>9, <2>10 DEF Pool, Holds
  <2>12. QED
    BY <1>1, <2>1, <2>4, <2>5, <2>11 DEF c, blk
<1>9. QED
  BY <1>7, <1>8

\* A block is given back to the list.
LEMMA PoolGiveBack ==
  ASSUME NEW n \in Nat, NEW b, Pool(b, n), NEW blk \in Nat, blk < b.unused,
         b.next[blk] = INDEX_ALLOC
  PROVE  LET c == [fblkcnt |-> b.fblkcnt + 1, unused |-> b.unused, freelist |-> blk,
                   next |-> [b.next EXCEPT ![blk] = b.freelist]]
         IN  Pool(c, n)
<1> DEFINE c == [fblkcnt |-> b.fblkcnt + 1, unused |-> b.unused, freelist |-> blk,
                 next |-> [b.next EXCEPT ![blk] = b.freelist]]

<1>1. /\ b.fblkcnt \in Nat /\ b.unused \in 0 .. n /\ b.freelist \in Int
      /\ b.next \in [0 .. n - 1 -> Int] /\ b.unused \in Nat
  BY PoolFields
<1>2. PICK s : Holds(b, n, s)
  BY DEF Pool
<1>3. Chain(b, s) /\ ToSet(s) = FreeBlocks(b) /\ Len(s) + n = b.fblkcnt + b.unused
  BY <1>2 DEF Holds
<1>4. blk \in 0 .. b.unused - 1 /\ blk \in 0 .. n - 1
  BY <1>1
<1>5. blk \notin ToSet(s)
  BY <1>3 DEF FreeBlocks
<1>6. c \in [fblkcnt : Nat, unused : 0 .. n, freelist : Int, next : [0 .. n - 1 -> Int]]
  <2>1. [b.next EXCEPT ![blk] = b.freelist] \in [0 .. n - 1 -> Int]
    BY <1>1
  <2>2. b.fblkcnt + 1 \in Nat /\ blk \in Int
    BY <1>1
  <2>3. QED
    BY <1>1, <2>1, <2>2
<1>7. /\ c.fblkcnt = b.fblkcnt + 1 /\ c.unused = b.unused /\ c.freelist = blk
      /\ c.next[blk] = b.freelist /\ \A p \in 0 .. n - 1 : p # blk => c.next[p] = b.next[p]
  BY <1>1, <1>4
<1> HIDE DEF c
<1>8. \A p \in ToSet(s) : c.next[p] = b.next[p]
  <2>1. \A p \in ToSet(s) : p \in 0 .. n - 1 /\ p # blk
    <3>1. \A p \in FreeBlocks(b) : p \in 0 .. b.unused - 1
      BY DEF FreeBlocks
    <3>2. \A p \in 0 .. b.unused - 1 : p \in 0 .. n - 1
      BY <1>1
    <3>3. QED
      BY <1>3, <1>5, <3>1, <3>2
  <2>2. QED
    BY <1>7, <2>1
<1>9. PICK q : Chain(c, q) /\ Len(q) = Len(s) + 1 /\ ToSet(q) = ToSet(s) \cup {blk}
  <2>1. LET r == << blk >> \o s
        IN  Chain(c, r) /\ Len(r) = Len(s) + 1 /\ ToSet(r) = ToSet(s) \cup {blk}
    BY <1>3, <1>5, <1>7, <1>8, ChainPrepend
  <2>2. QED
    BY <2>1
<1>10. b.freelist # INDEX_ALLOC
  <2>1. CASE s = << >>
    BY <1>3, <2>1, ChainStart DEF INDEX_NULL, INDEX_ALLOC
  <2>2. CASE s # << >>
    BY <1>3, <2>2, ChainStart DEF INDEX_ALLOC
  <2>3. QED
    BY <2>1, <2>2
<1>11. ToSet(q) = FreeBlocks(c)
  <2>1. \A p \in 0 .. b.unused - 1 : p \in 0 .. n - 1
    BY <1>1
  <2>2. QED
    BY <1>3, <1>4, <1>7, <1>9, <1>10, <2>1 DEF FreeBlocks
<1>12. Len(q) + n = c.fblkcnt + c.unused
  <2>1. Len(s) \in Nat
    BY <1>3 DEF Chain
  <2>2. PICK i \in Nat : i = Len(s)
    BY <2>1
  <2>3. i + n = b.fblkcnt + b.unused
    BY <1>3, <2>2
  <2>4. PICK j \in Nat, m \in Nat : j = b.fblkcnt /\ m = b.unused
    BY <1>1
  <2>5. i + n = j + m
    BY <2>3, <2>4
  <2>6. (i + 1) + n = (j + 1) + m
    BY <2>5, OneLess
  <2>7. QED
    BY <1>7, <1>9, <2>2, <2>4, <2>6
<1>13. Pool(c, n)
  BY <1>6, <1>9, <1>11, <1>12 DEF Pool, Holds
<1>14. QED
  BY <1>13 DEF c

\* A pool whose blocks were never used, whatever their links.
LEMMA PoolEmpty ==
  ASSUME NEW n \in Nat, NEW next \in [0 .. n - 1 -> Int]
  PROVE  Pool([fblkcnt |-> n, unused |-> 0, freelist |-> INDEX_NULL, next |-> next], n)
<1> DEFINE b == [fblkcnt |-> n, unused |-> 0, freelist |-> INDEX_NULL, next |-> next]
<1>1. ToSet(<< >>) = {} /\ IsInjective(<< >>) /\ << >> \in Seq(Nat) /\ Len(<< >>) = 0
  BY DEF ToSet, IsInjective
<1>2. b \in [fblkcnt : Nat, unused : 0 .. n, freelist : Int, next : [0 .. n - 1 -> Int]]
  BY DEF INDEX_NULL
<1>3. b.freelist = INDEX_NULL /\ b.unused = 0 /\ b.fblkcnt = n
  OBVIOUS
<1> HIDE DEF b
<1>4. FreeBlocks(b) = {}
  BY <1>3 DEF FreeBlocks
<1>5. Chain(b, << >>)
  BY <1>1, <1>3 DEF Chain, Nth
<1>6. Holds(b, n, << >>)
  BY <1>1, <1>3, <1>4, <1>5 DEF Holds
<1>7. QED
  BY <1>2, <1>6 DEF Pool, b

-----------------------------------------------------------------------------
\* What ListBlock computes.
IsList(g, b, n) ==
  g = [i \in 0 .. n |-> IF i = 0 THEN b.freelist
                        ELSE IF g[i - 1] \in DOMAIN b.next
                             THEN b.next[g[i - 1]] ELSE INDEX_ALLOC]

LEMMA ListIs ==
  ASSUME NEW b, NEW s, Chain(b, s), \A i \in 1 .. Len(s) : s[i] \in DOMAIN b.next,
         NEW n \in 0 .. Len(s)
  PROVE  ListBlock(b, n) = Nth(s, n + 1)
<1> DEFINE h == [i \in 0 .. n |-> Nth(s, i + 1)]
           f == CHOOSE g : IsList(g, b, n)
<1>1. Len(s) \in Nat /\ n \in Nat
  BY DEF Chain
<1>2. ASSUME NEW i \in 0 .. n, i # 0
      PROVE  LET x == Nth(s, i)
             IN  x \in DOMAIN b.next /\ b.next[x] = Nth(s, i + 1) /\ i - 1 \in 0 .. n /\ i - 1 + 1 = i
  <2>1. i \in 1 .. Len(s) /\ i - 1 \in 0 .. n /\ i - 1 + 1 = i
    BY <1>1, <1>2
  <2>2. Nth(s, i) = s[i]
    BY <1>1, <2>1 DEF Nth
  <2>3. b.next[s[i]] = Nth(s, i + 1)
    BY <2>1 DEF Chain
  <2>4. QED
    BY <2>1, <2>2, <2>3
<1>3. IsList(h, b, n)
  <2>1. ASSUME NEW i \in 0 .. n
        PROVE  h[i] = IF i = 0 THEN b.freelist
                      ELSE IF h[i - 1] \in DOMAIN b.next THEN b.next[h[i - 1]] ELSE INDEX_ALLOC
    <3>1. CASE i = 0
      <4>1. h[0] = Nth(s, 1)
        BY <1>1
      <4>2. QED
        BY <3>1, <4>1 DEF Chain
    <3>2. CASE i # 0
      <4>1. h[i] = Nth(s, i + 1)
        OBVIOUS
      <4>2. h[i - 1] = Nth(s, i)
        BY <1>2, <3>2
      <4> HIDE DEF h
      <4>3. QED
        BY <1>2, <3>2, <4>1, <4>2
    <3>3. QED
      BY <3>1, <3>2
  <2>2. h = [i \in 0 .. n |-> h[i]]
    OBVIOUS
  <2> HIDE DEF h
  <2>3. QED
    BY <2>1, <2>2 DEF IsList
<1> HIDE DEF h
<1>4. ListBlock(b, n) = f[n]
  BY Zenon DEF ListBlock, IsList
<1>5. IsList(f, b, n)
  BY <1>3
<1> HIDE DEF f
<1>6. \A i \in 0 .. n : f[i] = IF i = 0 THEN b.freelist
                               ELSE IF f[i - 1] \in DOMAIN b.next
                                    THEN b.next[f[i - 1]] ELSE INDEX_ALLOC
  BY <1>5 DEF IsList
<1> DEFINE Bad == {i \in 0 .. n : f[i] # Nth(s, i + 1)}
           m == primap_search(Bad)
<1>7. Bad = {}
  <2> SUFFICES ASSUME Bad # {} PROVE FALSE
    OBVIOUS
  <2>1. Bad \subseteq Nat
    BY <1>1
  <2>2. m \in Bad /\ \A j \in Bad : m <= j
    BY <2>1, SearchFindsMinimum
  <2>3. m \in 0 .. n /\ f[m] # Nth(s, m + 1)
    BY <2>2
  <2> HIDE DEF m
  <2>4. m # 0
    <3>1. f[0] = b.freelist
      BY <1>1, <1>6
    <3>2. b.freelist = Nth(s, 0 + 1)
      BY DEF Chain
    <3>3. QED
      BY <2>3, <3>1, <3>2
  <2>5. m - 1 \in 0 .. n /\ ~(m <= m - 1) /\ m - 1 + 1 = m
    BY <1>1, <2>3, <2>4
  <2>6. f[m - 1] = Nth(s, m)
    <3>1. m - 1 \notin Bad
      BY <2>2, <2>5
    <3>2. f[m - 1] = Nth(s, m - 1 + 1)
      BY <2>5, <3>1
    <3>3. QED
      BY <2>5, <3>2
  <2>7. Nth(s, m) \in DOMAIN b.next /\ b.next[Nth(s, m)] = Nth(s, m + 1)
    BY <1>2, <2>3, <2>4
  <2>8. f[m] = b.next[f[m - 1]]
    BY <1>6, <2>3, <2>4, <2>6, <2>7
  <2>9. QED
    BY <2>3, <2>6, <2>7, <2>8
<1>8. n \in 0 .. n
  BY <1>1
<1>9. f[n] = Nth(s, n + 1)
  BY <1>7, <1>8
<1>10. QED
  BY <1>4, <1>9

LEMMA ElementsCounted ==
  ASSUME NEW s \in Seq(Nat), IsInjective(s)
  PROVE  Cardinality(ToSet(s)) = Len(s)
<1>1. Len(s) \in Nat /\ s \in [1 .. Len(s) -> Nat] /\ DOMAIN s = 1 .. Len(s)
  OBVIOUS
<1>2. s \in [1 .. Len(s) -> ToSet(s)]
  BY <1>1 DEF ToSet
<1>3. s \in Injection(1 .. Len(s), ToSet(s))
  BY <1>1, <1>2 DEF IsInjective, Injection
<1>4. s \in Surjection(1 .. Len(s), ToSet(s))
  BY <1>1, <1>2 DEF ToSet, Surjection
<1>5. ExistsBijection(1 .. Len(s), ToSet(s))
  BY <1>3, <1>4 DEF Bijection, ExistsBijection
<1>6. QED
  BY <1>1, <1>5, FS_CountingElements

\* What PoolOK says of a pool.
LEMMA PoolMeans ==
  ASSUME NEW size \in Nat, NEW b, Pool(b, size)
  PROVE  LET n    == b.fblkcnt - (size - b.unused)
             free == {ListBlock(b, i) : i \in 0 .. n - 1}
         IN  /\ b.unused \in 0 .. size /\ n >= 0
             /\ free \subseteq 0 .. b.unused - 1 /\ Cardinality(free) = n
             /\ ListBlock(b, n) = INDEX_NULL
             /\ \A blk \in 0 .. b.unused - 1 : blk \in free <=> b.next[blk] # INDEX_ALLOC
<1> DEFINE n    == b.fblkcnt - (size - b.unused)
           free == {ListBlock(b, i) : i \in 0 .. n - 1}
<1>1. /\ b.fblkcnt \in Nat /\ b.unused \in 0 .. size /\ b.unused \in Nat
      /\ b.next \in [0 .. size - 1 -> Int]
  BY PoolFields
<1>2. PICK s : Holds(b, size, s)
  BY DEF Pool
<1>3. Chain(b, s) /\ ToSet(s) = FreeBlocks(b) /\ Len(s) + size = b.fblkcnt + b.unused
  BY <1>2 DEF Holds
<1>4. s \in Seq(Nat) /\ Len(s) \in Nat /\ IsInjective(s)
  BY <1>3 DEF Chain
<1>5. n = Len(s)
  <2>1. PICK i \in Nat : i = Len(s)
    BY <1>4
  <2>2. PICK j \in Nat, m \in Nat : j = b.fblkcnt /\ m = b.unused
    BY <1>1
  <2>3. i + size = j + m
    BY <1>3, <2>1, <2>2
  <2>4. j - (size - m) = i
    BY <2>3
  <2>5. QED
    BY <2>1, <2>2, <2>4
<1> HIDE DEF n
<1>6. \A i \in 1 .. Len(s) : s[i] \in ToSet(s) /\ s[i] \in DOMAIN b.next
  <2>1. \A i \in 1 .. Len(s) : s[i] \in ToSet(s)
    BY <1>4 DEF ToSet
  <2>2. \A blk \in ToSet(s) : blk \in DOMAIN b.next
    BY <1>1, <1>3 DEF FreeBlocks
  <2>3. QED
    BY <2>1, <2>2
<1>7. \A i \in 0 .. Len(s) : ListBlock(b, i) = Nth(s, i + 1)
  BY <1>3, <1>6, ListIs
<1>8. ListBlock(b, n) = INDEX_NULL
  <2>1. Len(s) \in 0 .. Len(s) /\ ~(Len(s) + 1 <= Len(s))
    BY <1>4
  <2>2. QED
    BY <1>5, <1>7, <2>1 DEF Nth
<1>9. free = ToSet(s)
  <2>1. ASSUME NEW i \in 0 .. n - 1
        PROVE  i + 1 \in 1 .. Len(s) /\ i \in 0 .. Len(s) /\ ListBlock(b, i) = s[i + 1]
    <3>1. i + 1 \in 1 .. Len(s) /\ i \in 0 .. Len(s)
      BY <1>4, <1>5
    <3>2. QED
      BY <1>7, <3>1 DEF Nth
  <2>2. free \subseteq ToSet(s)
    BY <1>6, <2>1
  <2>3. ASSUME NEW x \in ToSet(s) PROVE x \in free
    <3>1. PICK j \in 1 .. Len(s) : x = s[j]
      BY <1>4 DEF ToSet
    <3>2. j - 1 \in 0 .. n - 1 /\ j - 1 + 1 = j
      BY <1>4, <1>5
    <3>3. QED
      BY <2>1, <3>1, <3>2
  <2>4. QED
    BY <2>2, <2>3
<1> HIDE DEF free
<1>10. Cardinality(free) = n
  BY <1>4, <1>5, <1>9, ElementsCounted
<1>11. n >= 0 /\ free \subseteq 0 .. b.unused - 1
  BY <1>3, <1>4, <1>5, <1>9 DEF FreeBlocks
<1>12. \A blk \in 0 .. b.unused - 1 : blk \in free <=> b.next[blk] # INDEX_ALLOC
  BY <1>3, <1>9 DEF FreeBlocks
<1>13. QED
  BY <1>1, <1>8, <1>10, <1>11, <1>12, Zenon DEF n, free

-----------------------------------------------------------------------------
\* Every pool is right, and nobody waits while a block is free.
PoolAt(d, L, p) ==
  /\ Pool(d.cb[p], blkcnt[p])
  /\ \A t \in L : d.wobj[t] = p => d.cb[p].fblkcnt = 0

PoolsOK(d, L) == \A p \in Mpf : PoolAt(d, L, p)

\* What tasks have is in use, and in the hands of one task.
InUse(d, h) == h[2] < d.cb[h[1]].unused /\ d.cb[h[1]].next[h[2]] = INDEX_ALLOC

Holders(H, d) ==
  /\ H \in [Task -> SUBSET (Mpf \X Nat)]
  /\ \A t, u \in Task : t # u => H[t] \cap H[u] = {}
  /\ \A t \in Task : \A h \in H[t] : InUse(d, h)

PoolInv == PoolsOK(k, Live) /\ Holders(has, k)

LEMMA MpfNames ==
  /\ Mpf \subseteq ComObj
  /\ \A p \in Mpf : p \in ComObj /\ p \in Obj /\ p # NoObj /\ blkcnt[p] \in Nat /\ blkcnt[p] # 0
BY MemPoolAssumption, ObjNames

LEMMA PoolsLeftAlone ==
  ASSUME NEW d, NEW L, NEW d2, NEW L2, LeavesAlone(Mpf, d, L, d2, L2), PoolsOK(d, L)
  PROVE  PoolsOK(d2, L2)
BY DEF LeavesAlone, PoolsOK, PoolAt

LEMMA HoldersLeftAlone ==
  ASSUME NEW d, NEW d2, \A p \in Mpf : d2.cb[p] = d.cb[p], NEW H, Holders(H, d)
  PROVE  Holders(H, d2)
<1>1. ASSUME NEW t \in Task, NEW h \in H[t] PROVE InUse(d2, h)
  <2>1. h[1] \in Mpf /\ InUse(d, h)
    BY DEF Holders
  <2>2. QED
    BY <2>1 DEF InUse
<1>2. QED
  BY <1>1 DEF Holders

\* What is done at p is done at no other pool.
LEMMA OtherPools ==
  ASSUME NEW d, NEW L, PoolsOK(d, L), NEW p \in Mpf, NEW e,
         LeavesAlone(ComObj \ {p}, d, L, e, L), PoolAt(e, L, p)
  PROVE  PoolsOK(e, L)
<1>1. ASSUME NEW q \in Mpf, q # p PROVE PoolAt(e, L, q)
  <2>1. PoolAt(d, L, q) /\ q \in ComObj \ {p}
    BY <1>1, MpfNames DEF PoolsOK
  <2>2. QED
    BY <2>1 DEF LeavesAlone, PoolAt
<1>2. QED
  BY <1>1 DEF PoolsOK

\* What happens at other objects leaves it alone.
LEMMA PoolElsewhere ==
  ASSUME KInv, PoolInv, NEW O, O \cap Mpf = {}, Elsewhere(O), UNCHANGED has
  PROVE  PoolInv'
<1>1. LeavesAlone(ComObj \ O, k, Live, k', Live')
  BY DEF Elsewhere
<1>2. LeavesAlone(Mpf, k, Live, k', Live')
  <2>1. Mpf \subseteq ComObj \ O
    BY MpfNames
  <2>2. QED
    BY <1>1, <2>1, LeavesAloneFewer
<1>3. PoolsOK(k', Live')
  BY <1>2, PoolsLeftAlone DEF PoolInv
<1>4. Holders(has, k')
  BY <1>2, HoldersLeftAlone DEF PoolInv, LeavesAlone
<1>5. QED
  BY <1>3, <1>4 DEF PoolInv

\* A block is given to t.
LEMMA HoldersGet ==
  ASSUME NEW d, NEW H, Holders(H, d), NEW p \in Mpf, NEW blk \in Nat, ~InUse(d, << p, blk >>),
         NEW e, InUse(e, << p, blk >>),
         \A q \in Mpf, b \in Nat : InUse(d, << q, b >>) => InUse(e, << q, b >>),
         NEW t \in Task
  PROVE  Holders([H EXCEPT ![t] = @ \cup {<< p, blk >>}], e)
<1> DEFINE h  == << p, blk >>
           H2 == [H EXCEPT ![t] = @ \cup {h}]
<1>1. H \in [Task -> SUBSET (Mpf \X Nat)]
  BY DEF Holders
<1>2. \A u \in Task : H2[u] = IF u = t THEN H[u] \cup {h} ELSE H[u]
  BY <1>1
<1>3. H2 \in [Task -> SUBSET (Mpf \X Nat)]
  BY <1>1
<1>4. h \in Mpf \X Nat
  OBVIOUS
<1> HIDE DEF H2, h
<1>5. \A u \in Task : h \notin H[u]
  BY DEF Holders, h
<1>6. \A u, v \in Task : u # v => H2[u] \cap H2[v] = {}
  BY ZenonT(60), <1>2, <1>5 DEF Holders
<1>7. ASSUME NEW u \in Task, NEW g \in H2[u] PROVE InUse(e, g)
  <2>1. CASE g = h
    BY <2>1 DEF h
  <2>2. CASE g # h
    <3>1. g \in H[u]
      BY <1>2, <1>7, <2>2
    <3>2. g \in Mpf \X Nat /\ InUse(d, g)
      BY <1>1, <3>1 DEF Holders
    <3>3. PICK q \in Mpf, b \in Nat : g = << q, b >>
      BY <3>2
    <3>4. QED
      BY <3>2, <3>3
  <2>3. QED
    BY <2>1, <2>2
<1>8. Holders(H2, e)
  BY <1>3, <1>6, <1>7 DEF Holders
<1>9. QED
  BY <1>8 DEF H2, h

\* A block that t has goes to w.
LEMMA HoldersPass ==
  ASSUME NEW d, NEW H, Holders(H, d), NEW t \in Task, NEW h \in H[t], NEW w \in Task,
         NEW H2,
         H2 = [u \in Task |-> IF u = w THEN H[u] \cup {h}
                              ELSE IF u = t THEN H[u] \ {h} ELSE H[u]]
  PROVE  Holders(H2, d)
<1>1. H \in [Task -> SUBSET (Mpf \X Nat)] /\ h \in Mpf \X Nat /\ InUse(d, h)
  BY DEF Holders
<1>2. H2 \in [Task -> SUBSET (Mpf \X Nat)]
  BY <1>1
<1>3. \A u \in Task : u # t => h \notin H[u]
  BY DEF Holders
<1>4. \A u, v \in Task : u # v => H2[u] \cap H2[v] = {}
  <2> SUFFICES ASSUME NEW u \in Task, NEW v \in Task, u # v, NEW g \in H2[u], g \in H2[v]
               PROVE  FALSE
    OBVIOUS
  <2>1. /\ H2[u] = IF u = w THEN H[u] \cup {h} ELSE IF u = t THEN H[u] \ {h} ELSE H[u]
        /\ H2[v] = IF v = w THEN H[v] \cup {h} ELSE IF v = t THEN H[v] \ {h} ELSE H[v]
    OBVIOUS
  <2>2. CASE g = h
    BY <1>3, <2>1, <2>2
  <2>3. CASE g # h
    <3>1. g \in H[u] /\ g \in H[v]
      BY <2>1, <2>3
    <3>2. QED
      BY <3>1 DEF Holders
  <2>4. QED
    BY <2>2, <2>3
<1>5. ASSUME NEW u \in Task, NEW g \in H2[u] PROVE InUse(d, g)
  BY <1>1 DEF Holders
<1>6. QED
  BY <1>2, <1>4, <1>5 DEF Holders

\* Some blocks are in use no more, and nobody has them.
LEMMA HoldersLose ==
  ASSUME NEW d, NEW H, Holders(H, d), NEW H2 \in [Task -> SUBSET (Mpf \X Nat)],
         \A u \in Task : H2[u] \subseteq H[u],
         NEW e, \A u \in Task : \A h \in H2[u] : InUse(d, h) => InUse(e, h)
  PROVE  Holders(H2, e)
<1>1. \A u, v \in Task : u # v => H2[u] \cap H2[v] = {}
  BY DEF Holders
<1>2. \A u \in Task : \A h \in H2[u] : InUse(e, h)
  BY DEF Holders
<1>3. QED
  BY <1>1, <1>2 DEF Holders

-----------------------------------------------------------------------------
\* get_mpf and pget_mpf that find a block.
LEMMA GetStep ==
  ASSUME KInv, PoolInv, NEW p \in Mpf, Get(p)
  PROVE  KInv' /\ PoolInv' /\ Elsewhere(Mpf)
<1> DEFINE b   == k.cb[p]
           blk == new_block(b)
           c   == get_mpf_block(b)
           e   == [k EXCEPT !.cb[p] = c]
<1>1. /\ TaskContext /\ b.fblkcnt > 0 /\ PlainCall(e)
      /\ has' = [has EXCEPT ![runtsk] = @ \cup {<< p, blk >>}]
  BY DEF Get, pget_mpf
<1>2. Correct(k, Task) /\ Live = Task /\ runtsk \in Task
  BY <1>1, CallFacts
<1>3. p \in ComObj /\ p \in Obj /\ blkcnt[p] \in Nat /\ Task \in SUBSET Task
  BY MpfNames
<1>4. Pool(b, blkcnt[p])
  BY DEF PoolInv, PoolsOK, PoolAt
<1>5. /\ Pool(c, blkcnt[p]) /\ blk \in 0 .. blkcnt[p] - 1 /\ b.unused <= c.unused
      /\ c.next = [b.next EXCEPT ![blk] = INDEX_ALLOC] /\ blk < c.unused
      /\ ~(blk < b.unused /\ b.next[blk] = INDEX_ALLOC)
  BY <1>1, <1>3, <1>4, PoolGet
<1>6. /\ b.next \in [0 .. blkcnt[p] - 1 -> Int] /\ b.unused \in 0 .. blkcnt[p] /\ b.unused \in Nat
      /\ b.fblkcnt \in Nat /\ c.unused \in Nat
  BY <1>3, <1>4, <1>5, PoolFields
<1> HIDE DEF blk, c
<1>7. Correct(e, Task) /\ Keeps(k, e) /\ Written(k, e, p, c)
  BY <1>2, <1>3, Writes
<1> HIDE DEF e
<1>8. Over(e)
  BY <1>1, <1>7, PlainCallIsOver DEF Written
<1>9. e.cb[p] = c /\ \A q \in Mpf : q # p => e.cb[q] = k.cb[q]
  BY <1>7, MpfNames DEF Written
<1>10. PoolsOK(e, Task)
  <2>1. LeavesAlone(ComObj \ {p}, k, Task, e, Task)
    BY <1>3, <1>7, WrittenLeavesAlone
  <2>2. \A t \in Task : e.wobj[t] # p
    BY <1>1, <1>2, <1>6, <1>7 DEF PoolInv, PoolsOK, PoolAt, Written
  <2>3. PoolAt(e, Task, p)
    BY <1>5, <1>9, <2>2 DEF PoolAt
  <2>4. QED
    BY <1>2, <2>1, <2>3, OtherPools DEF PoolInv
<1>11. Holders(has', e)
  <2>1. blk \in Nat /\ c.next[blk] = INDEX_ALLOC
    <3>1. c.next[blk] = INDEX_ALLOC
      BY <1>5, <1>6
    <3>2. blk \in Nat
      BY <1>5
    <3>3. QED
      BY <3>1, <3>2
  <2>2. InUse(e, << p, blk >>)
    BY <1>5, <1>9, <2>1 DEF InUse
  <2>3. ~InUse(k, << p, blk >>)
    BY <1>5 DEF InUse
  <2>4. ASSUME NEW q \in Mpf, NEW x \in Nat, InUse(k, << q, x >>) PROVE InUse(e, << q, x >>)
    <3>1. CASE q # p
      BY <1>9, <2>4, <3>1 DEF InUse
    <3>2. CASE q = p
      <4>1. x < b.unused /\ b.next[x] = INDEX_ALLOC
        BY <2>4, <3>2 DEF InUse
      <4>2. x < c.unused /\ x \in 0 .. blkcnt[p] - 1
        BY <1>3, <1>5, <1>6, <4>1
      <4>3. c.next[x] = INDEX_ALLOC
        BY <1>5, <1>6, <4>1, <4>2
      <4>4. QED
        BY <1>9, <3>2, <4>2, <4>3 DEF InUse
    <3>3. QED
      BY <3>1, <3>2
  <2>5. Holders([has EXCEPT ![runtsk] = @ \cup {<< p, blk >>}], e)
    BY <1>2, <2>1, <2>2, <2>3, <2>4, HoldersGet DEF PoolInv
  <2>6. QED
    BY <1>1, <2>5
<1>12. LeavesAlone(ComObj \ Mpf, k, Task, e, Task) /\ AllStay(ComObj \ Mpf, k, e)
  <2>1. ComObj \ Mpf \subseteq ComObj /\ p \notin ComObj \ Mpf
    OBVIOUS
  <2>2. QED
    BY <1>3, <1>7, <2>1, WrittenLeavesAlone
<1>13. KInv' /\ Elsewhere(Mpf)
  BY <1>8, <1>12, OverElsewhere
<1>14. PoolInv'
  BY <1>8, <1>10, <1>11 DEF PoolInv, Over
<1>15. QED
  BY <1>13, <1>14

\* rel_mpf of a block that the task has.
LEMMA ReleaseStep ==
  ASSUME KInv, PoolInv, NEW p \in Mpf, NEW blk \in Blk(p), Release(p, blk)
  PROVE  KInv' /\ PoolInv' /\ Elsewhere(Mpf)
<1> DEFINE b == k.cb[p]
           h == << p, blk >>
           e == give_back(p, blk)
           s == Head(k.wait_queue[p])
<1>1. /\ TaskContext /\ blk < b.unused /\ b.next[blk] = INDEX_ALLOC /\ TaskCall(e)
      /\ h \in has[runtsk]
      /\ has' = [t \in Task |->
                   IF Granted(t, p) THEN has[t] \cup {<< p, k'.winfo[t] >>}
                   ELSE IF t = runtsk THEN has[t] \ {h} ELSE has[t]]
  BY DEF Release, rel_mpf, IsAllocated
<1>2. Correct(k, Task) /\ Live = Task /\ runtsk \in Task
  BY <1>1, CallFacts
<1>3. /\ p \in ComObj /\ p \in Obj /\ p # NoObj /\ blkcnt[p] \in Nat /\ blk \in Nat
      /\ Task \in SUBSET Task
  BY MpfNames DEF Blk
<1>4. Pool(b, blkcnt[p])
  BY DEF PoolInv, PoolsOK, PoolAt
<1>5. Whole(k) /\ k.wercd \in [Task -> ErCd] /\ DOMAIN k.cb = ComObj
  BY <1>2, CorrectFields DEF Correct, HasBlocks
<1>6. ComObj \ Mpf \subseteq ComObj /\ p \notin ComObj \ Mpf /\ Mpf \subseteq ComObj
  BY MpfNames
<1>7. ASSUME Correct(e, Task), Keeps(k, e), LeavesAlone(ComObj \ Mpf, k, Task, e, Task),
             AllStay(ComObj \ Mpf, k, e), PoolsOK(e, Task),
             k' = e => Holders(has', e)
      PROVE  KInv' /\ PoolInv' /\ Elsewhere(Mpf)
  <2>1. Over(e)
    BY <1>1, <1>7, CallIsOver
  <2>2. KInv' /\ Elsewhere(Mpf)
    BY <1>7, <2>1, OverElsewhere
  <2>3. PoolInv'
    BY <1>7, <2>1 DEF PoolInv, Over
  <2>4. QED
    BY <2>2, <2>3
<1>8. CASE k.wait_queue[p] # << >>
  <2>1. e = wait_complete_with(queue_delete_next(k, p), s, blk)
    BY <1>8 DEF give_back
  <2>2. /\ s \in Task /\ k.wobj[s] = p /\ Correct(e, Task) /\ Keeps(k, e)
        /\ Finished(k, e, s, blk, "E_OK")
    <3> HIDE DEF e
    <3>1. LET f == wait_complete_with(queue_delete_next(k, p), s, blk)
          IN  /\ s \in Task /\ k.wobj[s] = p /\ Correct(f, Task) /\ Keeps(k, f)
              /\ Finished(k, f, s, blk, "E_OK")
      BY <1>2, <1>3, <1>8, Grants
    <3>2. QED
      BY <2>1, <3>1
  <2> HIDE DEF e, s
  <2>3. LeavesAlone(ComObj \ Mpf, k, Task, e, Task) /\ LeavesAlone(Mpf, k, Task, e, Task)
    BY <1>2, <1>3, <1>6, <2>2, FinishedLeavesAlone
  <2>4. PoolsOK(e, Task)
    BY <1>2, <2>3, PoolsLeftAlone DEF PoolInv
  <2>5. ASSUME k' = e PROVE Holders(has', e)
    <3>1. \A t \in Task : Granted(t, p) <=> t = s
      <4>1. \A t \in Task : e.wobj[t] = IF t = s THEN NoObj ELSE k.wobj[t]
        BY <1>5, <2>2 DEF Finished, Whole
      <4>2. e.wercd[s] = "E_OK"
        BY <1>5, <2>2 DEF Finished
      <4>3. \A t \in Task : Granted(t, p) <=>
               k.wobj[t] = p /\ e.wobj[t] # p /\ e.wercd[t] = "E_OK"
        BY <1>2, <2>5 DEF Granted
      <4>4. QED
        BY <1>3, <2>2, <4>1, <4>2, <4>3
    <3>2. k'.winfo[s] = blk
      BY <1>5, <2>2, <2>5 DEF Finished, Whole
    <3>3. has' = [t \in Task |-> IF t = s THEN has[t] \cup {h}
                                 ELSE IF t = runtsk THEN has[t] \ {h} ELSE has[t]]
      BY <1>1, <3>1, <3>2
    <3> HIDE DEF h
    <3>4. Holders(has', k)
      <4>1. Holders(has, k) /\ runtsk \in Task /\ s \in Task
        BY <1>2, <2>2 DEF PoolInv
      <4>2. h \in has[runtsk]
        BY <1>1
      <4>3. PICK H : H = has'
        OBVIOUS
      <4>4. H = [t \in Task |-> IF t = s THEN has[t] \cup {h}
                                ELSE IF t = runtsk THEN has[t] \ {h} ELSE has[t]]
        BY <3>3, <4>3
      <4>5. Holders(H, k)
        BY <4>1, <4>2, <4>4, HoldersPass
      <4>6. QED
        BY <4>3, <4>5
    <3>5. \A q \in Mpf : e.cb[q] = k.cb[q]
      BY <2>2 DEF Finished
    <3>6. QED
      BY <3>4, <3>5, HoldersLeftAlone
  <2>6. AllStay(ComObj \ Mpf, k, e)
    BY <1>2, <1>6, <2>2, FinishedStay
  <2>7. QED
    BY <1>7, <2>2, <2>3, <2>4, <2>5, <2>6
<1>9. CASE k.wait_queue[p] = << >>
  <2> DEFINE c == [fblkcnt |-> b.fblkcnt + 1, unused |-> b.unused, freelist |-> blk,
                   next |-> [b.next EXCEPT ![blk] = b.freelist]]
             d == [k EXCEPT !.cb[p] = c]
  <2>1. Pool(c, blkcnt[p])
    BY <1>1, <1>3, <1>4, PoolGiveBack
  <2>2. /\ b = [fblkcnt |-> b.fblkcnt, unused |-> b.unused, freelist |-> b.freelist, next |-> b.next]
        /\ b.next \in [0 .. blkcnt[p] - 1 -> Int] /\ b.unused \in 0 .. blkcnt[p]
    BY <1>3, <1>4, PoolFields
  <2>3. e = d
    BY <1>9 DEF give_back
  <2>4. c.unused = b.unused /\ c.next = [b.next EXCEPT ![blk] = b.freelist]
    OBVIOUS
  <2> HIDE DEF c, e
  <2>5. Correct(e, Task) /\ Keeps(k, e) /\ Written(k, e, p, c)
    BY <1>2, <1>3, <2>3, Writes
  <2> HIDE DEF d
  <2>6. /\ LeavesAlone(ComObj \ Mpf, k, Task, e, Task) /\ LeavesAlone(ComObj \ {p}, k, Task, e, Task)
        /\ AllStay(ComObj \ Mpf, k, e)
    BY <1>3, <1>6, <2>5, WrittenLeavesAlone
  <2>7. e.cb[p] = c /\ \A q \in Mpf : q # p => e.cb[q] = k.cb[q]
    BY <1>6, <2>5 DEF Written
  <2>8. PoolsOK(e, Task)
    <3>1. \A t \in Task : e.wobj[t] # p
      BY <1>2, <1>3, <1>9, <2>5, EmptyQueue DEF Written
    <3>2. PoolAt(e, Task, p)
      BY <2>1, <2>7, <3>1 DEF PoolAt
    <3>3. QED
      BY <1>2, <2>6, <3>2, OtherPools DEF PoolInv
  <2>9. ASSUME k' = e PROVE Holders(has', e)
    <3>1. \A t \in Task : ~Granted(t, p)
      BY <2>5, <2>9 DEF Granted, Written
    <3>2. has' = [t \in Task |-> IF t = runtsk THEN has[t] \ {h} ELSE has[t]]
      BY <1>1, <3>1
    <3>3. has \in [Task -> SUBSET (Mpf \X Nat)]
      BY DEF PoolInv, Holders
    <3>4. has' \in [Task -> SUBSET (Mpf \X Nat)] /\ \A t \in Task : has'[t] \subseteq has[t] \ {h}
      <4>1. \A t \in Task : t # runtsk => h \notin has[t]
        BY <1>1, <1>2 DEF PoolInv, Holders
      <4> HIDE DEF h
      <4>2. QED
        BY <3>2, <3>3, <4>1
    <3>5. ASSUME NEW t \in Task, NEW g \in has'[t], InUse(k, g) PROVE InUse(e, g)
      <4>1. g \in Mpf \X Nat /\ g # h
        BY <3>3, <3>4
      <4>2. PICK q \in Mpf, x \in Nat : g = << q, x >>
        BY <4>1
      <4>3. CASE q # p
        BY <2>7, <3>5, <4>2, <4>3 DEF InUse
      <4>4. CASE q = p
        <5>1. x < b.unused /\ b.next[x] = INDEX_ALLOC /\ x # blk
          BY <3>5, <4>1, <4>2, <4>4 DEF InUse
        <5>2. x \in 0 .. blkcnt[p] - 1
          BY <1>3, <2>2, <4>2, <5>1
        <5>3. c.next[x] = INDEX_ALLOC
          BY <2>2, <2>4, <5>1, <5>2
        <5>4. QED
          BY <2>4, <2>7, <4>2, <4>4, <5>1, <5>3 DEF InUse
      <4>5. QED
        BY <4>3, <4>4
    <3>6. Holders(has, k) /\ \A t \in Task : has'[t] \subseteq has[t]
      BY <3>4 DEF PoolInv
    <3>7. QED
      BY <3>4, <3>5, <3>6, HoldersLose
  <2>10. QED
    BY <1>7, <2>5, <2>6, <2>8, <2>9
<1>10. QED
  BY <1>8, <1>9

\* The end of ini_mpf: no block of the pool is in anybody's hands.
LEMMA ReinitializeStep ==
  ASSUME KInv, PoolInv, Reinitialize
  PROVE  KInv' /\ PoolInv' /\ Elsewhere(Mpf)
<1>1. PICK p \in Mpf : frame.obj = p
  BY DEF Reinitialize, ini_mpf_end
<1> DEFINE b == k.cb[p]
           c == [fblkcnt |-> blkcnt[p], unused |-> 0, freelist |-> INDEX_NULL, next |-> b.next]
           e == [k EXCEPT !.cb[p] = c]
<1>2. pc = "init_wait_queue" /\ k.wait_queue[p] = << >> /\ LoopEnd(e)
  <2>1. [EmptyPool(p) EXCEPT !.next = b.next] = c
    BY DEF EmptyPool
  <2>2. /\ pc = "init_wait_queue" /\ k.wait_queue[p] = << >>
        /\ LoopEnd([k EXCEPT !.cb[p] = [EmptyPool(p) EXCEPT !.next = b.next]])
    BY <1>1 DEF Reinitialize, ini_mpf_end
  <2>3. QED
    BY <2>1, <2>2
<1>3. has' = [t \in Task |-> {h \in has[t] : h[1] # p}]
  BY <1>1 DEF Reinitialize
<1>4. Correct(k, Task) /\ Live = Task
  BY <1>2, IniLoop
<1>5. p \in ComObj /\ p \in Obj /\ blkcnt[p] \in Nat /\ Task \in SUBSET Task
  BY MpfNames
<1>6. Pool(c, blkcnt[p])
  <2>1. b.next \in [0 .. blkcnt[p] - 1 -> Int]
    BY <1>5, PoolFields DEF PoolInv, PoolsOK, PoolAt
  <2>2. QED
    BY <1>5, <2>1, PoolEmpty
<1> HIDE DEF c
<1>7. Correct(e, Task) /\ Keeps(k, e) /\ Written(k, e, p, c)
  BY <1>4, <1>5, Writes
<1> HIDE DEF e
<1>8. Over(e)
  BY <1>2, <1>7, IniIsOver
<1>9. e.cb[p] = c /\ \A q \in Mpf : q # p => e.cb[q] = k.cb[q]
  BY <1>7, MpfNames DEF Written
<1>10. PoolsOK(e, Task)
  <2>1. LeavesAlone(ComObj \ {p}, k, Task, e, Task)
    BY <1>5, <1>7, WrittenLeavesAlone
  <2>2. \A t \in Task : e.wobj[t] # p
    BY <1>2, <1>4, <1>5, <1>7, EmptyQueue DEF Written
  <2>3. PoolAt(e, Task, p)
    BY <1>6, <1>9, <2>2 DEF PoolAt
  <2>4. QED
    BY <1>4, <2>1, <2>3, OtherPools DEF PoolInv
<1>11. Holders(has', e)
  <2>1. has \in [Task -> SUBSET (Mpf \X Nat)] /\ Holders(has, k)
    BY DEF PoolInv, Holders
  <2>2. has' \in [Task -> SUBSET (Mpf \X Nat)] /\ \A t \in Task : has'[t] \subseteq has[t]
    BY <1>3, <2>1
  <2>3. \A t \in Task : \A h \in has'[t] : InUse(k, h) => InUse(e, h)
    <3> SUFFICES ASSUME NEW t \in Task, NEW h \in has'[t], InUse(k, h) PROVE InUse(e, h)
      OBVIOUS
    <3>1. h[1] # p /\ h \in has[t]
      BY <1>3
    <3>2. h[1] \in Mpf
      BY <2>1, <3>1
    <3>3. QED
      BY <1>9, <3>1, <3>2 DEF InUse
  <2>4. QED
    BY <2>1, <2>2, <2>3, HoldersLose
<1>12. LeavesAlone(ComObj \ Mpf, k, Task, e, Task) /\ AllStay(ComObj \ Mpf, k, e)
  <2>1. ComObj \ Mpf \subseteq ComObj /\ p \notin ComObj \ Mpf
    OBVIOUS
  <2>2. QED
    BY <1>5, <1>7, <2>1, WrittenLeavesAlone
<1>13. KInv' /\ Elsewhere(Mpf)
  BY <1>8, <1>12, OverElsewhere
<1>14. PoolInv'
  BY <1>8, <1>10, <1>11 DEF PoolInv, Over
<1>15. QED
  BY <1>13, <1>14

LEMMA PoolStep ==
  ASSUME KInv, PoolInv, ClientNext \/ (PoolNext /\ UNCHANGED has)
  PROVE  KInv' /\ PoolInv' /\ Elsewhere(Mpf)
<1> DEFINE Goal == KInv' /\ PoolInv' /\ Elsewhere(Mpf)
<1>1. ASSUME ClientNext PROVE Goal
  BY <1>1, GetStep, ReleaseStep, ReinitializeStep DEF ClientNext
<1>2. ASSUME NEW p \in Mpf, NEW timed \in BOOLEAN, get_mpf(p, timed), UNCHANGED has PROVE Goal
  <2> DEFINE e == wobj_make_wait(k, runtsk, p, timed)
  <2>1. MayWait /\ TaskContext /\ WaitCall(e) /\ k.cb[p].fblkcnt = 0
    BY <1>2 DEF get_mpf, MayWait
  <2>2. Correct(k, Task) /\ Live = Task /\ runtsk \in Task /\ IsRunnable(k, runtsk)
    BY <2>1, CallFacts
  <2>3. p \in ComObj /\ Task \in SUBSET Task
    BY MpfNames
  <2>4. Correct(e, Task) /\ Started(k, e, runtsk, p, k.winfo[runtsk])
    BY <2>2, <2>3, Starts
  <2> HIDE DEF e
  <2>5. KInv' /\ k' = e /\ Live' = Task /\ pc' # "init_wait_queue"
    BY <2>1, <2>4, WaitCallIsOver DEF Over
  <2>6. LeavesAlone(ComObj \ {p}, k, Task, e, Task) /\ AllStay(ComObj \ {p}, k, e)
    BY <2>2, <2>3, <2>4, StartedLeavesAlone
  <2>7. ComObj \ Mpf \subseteq ComObj \ {p}
    OBVIOUS
  <2>8. LeavesAlone(ComObj \ Mpf, k, Task, e, Task) /\ AllStay(ComObj \ Mpf, k, e)
    BY <2>6, <2>7, LeavesAloneFewer DEF AllStay
  <2>9. e.cb = k.cb
    BY <2>4 DEF Started
  <2>10. PoolAt(e, Task, p)
    BY <2>1, <2>9 DEF PoolInv, PoolsOK, PoolAt
  <2>11. PoolsOK(e, Task)
    BY <2>2, <2>6, <2>10, OtherPools DEF PoolInv
  <2>12. Holders(has, e)
    BY <2>9, HoldersLeftAlone DEF PoolInv
  <2>13. PoolInv'
    BY <1>2, <2>5, <2>11, <2>12 DEF PoolInv
  <2>14. QED
    BY <2>2, <2>5, <2>8, <2>13 DEF Elsewhere, OneQueueMoves, AllStay, GivesNothing
<1>3. ASSUME NEW p \in Mpf, ini_mpf(p), UNCHANGED has PROVE Goal
  <2>1. p \in Obj
    BY MpfNames
  <2>2. KInv' /\ k' = k /\ Live = Task /\ Live' = Task /\ frame'.obj = p
    BY <1>3, <2>1, IniCall DEF ini_mpf
  <2>3. LeavesAlone(ComObj \ Mpf, k, Live, k', Live') /\ GivesNothing(ComObj \ Mpf)
    BY <2>2 DEF LeavesAlone, GivesNothing
  <2>4. PoolInv'
    BY <1>3, <2>2 DEF PoolInv
  <2>5. QED
    BY <2>2, <2>3, <2>4 DEF Elsewhere, OneQueueMoves
<1>4. QED
  BY <1>1, <1>2, <1>3 DEF PoolNext

-----------------------------------------------------------------------------
(***************************************************************************)
(* Data queues as channels.                                                *)
(***************************************************************************)
\* What is in the ring b with n slots, from the oldest datum on.
Contents(b, n) == [i \in 1 .. b.count |-> b.mb[(b.head + i - 1) % n]]

\* The entries of w for the elements of q, in their order.
Sent(q, w) == [i \in DOMAIN q |-> w[q[i]]]

\* What w has for the elements of T.
Values(w, T) == {w[t] : t \in T}

\* The two parts of the channel q.
Buf(d, q)  == Contents(d.cb[q], dtqcnt[q])
Pend(d, q) == Sent(d.wait_queue[q], d.winfo)

Reads(s, q, w, S) ==
  s \in Seq(S) /\ Len(s) = Len(q) /\ \A i \in 1 .. Len(q) : s[i] = w[q[i]]

LEMMA SentEntries ==
  ASSUME NEW T, NEW q \in Seq(T), NEW w
  PROVE  Reads(Sent(q, w), q, w, Values(w, T))
<1> DEFINE S == Values(w, T)
           s == Sent(q, w)
<1>1. Len(q) \in Nat /\ DOMAIN q = 1 .. Len(q)
  OBVIOUS
<1>2. s = [i \in 1 .. Len(q) |-> w[q[i]]]
  BY DEF Sent
<1>3. \A i \in 1 .. Len(q) : w[q[i]] \in S
  BY DEF Values
<1> HIDE DEF S, s
<1>4. s \in [1 .. Len(q) -> S]
  BY <1>2, <1>3
<1>5. s \in Seq(S)
  BY <1>1, <1>4
<1>6. Len(s) = Len(q)
  BY <1>1, <1>4, <1>5
<1>7. QED
  BY <1>2, <1>5, <1>6 DEF S, s, Reads

LEMMA SentRemove ==
  ASSUME NEW T, NEW q \in Seq(T), NEW n \in 1 .. Len(q), NEW w
  PROVE  Sent(RemoveAt(q, n), w) = RemoveAt(Sent(q, w), n)
<1> DEFINE S == Values(w, T)
           r == RemoveAt(q, n)
           s == Sent(q, w)
           x == Sent(r, w)
           y == RemoveAt(s, n)
<1>1. /\ r \in Seq(T) /\ Len(r) = Len(q) - 1
      /\ \A i \in 1 .. Len(r) : r[i] = IF i < n THEN q[i] ELSE q[i + 1]
  BY RemoveAtEntries
<1> HIDE DEF r, S
<1>2. s \in Seq(S) /\ Len(s) = Len(q) /\ \A i \in 1 .. Len(q) : s[i] = w[q[i]]
  <2>1. Reads(s, q, w, S)
    BY SentEntries DEF S
  <2>2. QED
    BY <2>1 DEF Reads
<1>3. x \in Seq(S) /\ Len(x) = Len(r) /\ \A i \in 1 .. Len(r) : x[i] = w[r[i]]
  <2>1. r \in Seq(T)
    BY <1>1
  <2>2. Reads(x, r, w, S)
    BY <2>1, SentEntries DEF S
  <2>3. QED
    BY <2>2 DEF Reads
<1> HIDE DEF s, x
<1>4. /\ y \in Seq(S) /\ Len(y) = Len(s) - 1
      /\ \A i \in 1 .. Len(y) : y[i] = IF i < n THEN s[i] ELSE s[i + 1]
  BY <1>2, RemoveAtEntries
<1> HIDE DEF y
<1>5. \A i \in 1 .. Len(x) : x[i] = y[i]
  <2> SUFFICES ASSUME NEW i \in 1 .. Len(x) PROVE x[i] = y[i]
    OBVIOUS
  <2>1. CASE i < n
    <3>1. x[i] = w[q[i]] /\ y[i] = s[i] /\ i \in 1 .. Len(q)
      BY <1>1, <1>2, <1>3, <1>4, <2>1
    <3>2. QED
      BY <1>2, <3>1
  <2>2. CASE i >= n
    <3>1. x[i] = w[q[i + 1]] /\ y[i] = s[i + 1] /\ i + 1 \in 1 .. Len(q)
      BY <1>1, <1>2, <1>3, <1>4, <2>2
    <3>2. QED
      BY <1>2, <3>1
  <2>3. QED
    BY <2>1, <2>2
<1>6. Len(x) = Len(y)
  BY <1>1, <1>2, <1>3, <1>4
<1>7. x = y
  BY <1>3, <1>4, <1>5, <1>6, SeqEqual
<1>8. QED
  BY <1>7 DEF x, y, r, s

LEMMA SentInsert ==
  ASSUME NEW T, NEW q \in Seq(T), NEW n \in 1 .. Len(q) + 1, NEW t \in T, NEW w
  PROVE  Sent(InsertAt(q, n, t), w) = InsertAt(Sent(q, w), n, w[t])
<1> DEFINE S == Values(w, T)
           r == InsertAt(q, n, t)
           s == Sent(q, w)
           x == Sent(r, w)
           y == InsertAt(s, n, w[t])
<1>1. /\ r \in Seq(T) /\ Len(r) = Len(q) + 1
      /\ \A i \in 1 .. Len(r) : r[i] = IF i < n THEN q[i] ELSE IF i = n THEN t ELSE q[i - 1]
  BY InsertAtEntries
<1> HIDE DEF r, S
<1>2. s \in Seq(S) /\ Len(s) = Len(q) /\ \A i \in 1 .. Len(q) : s[i] = w[q[i]]
  <2>1. Reads(s, q, w, S)
    BY SentEntries DEF S
  <2>2. QED
    BY <2>1 DEF Reads
<1>3. x \in Seq(S) /\ Len(x) = Len(r) /\ \A i \in 1 .. Len(r) : x[i] = w[r[i]]
  <2>1. r \in Seq(T)
    BY <1>1
  <2>2. Reads(x, r, w, S)
    BY <2>1, SentEntries DEF S
  <2>3. QED
    BY <2>2 DEF Reads
<1> HIDE DEF s, x
<1>4. /\ y \in Seq(S) /\ Len(y) = Len(s) + 1
      /\ \A i \in 1 .. Len(y) : y[i] = IF i < n THEN s[i] ELSE IF i = n THEN w[t] ELSE s[i - 1]
  <2> DEFINE v == w[t]
  <2>1. n \in 1 .. Len(s) + 1 /\ s \in Seq(S)
    BY <1>2
  <2>2. v \in S
    BY DEF S, Values
  <2> HIDE DEF v
  <2>3. LET z == InsertAt(s, n, v)
        IN  /\ z \in Seq(S) /\ Len(z) = Len(s) + 1
            /\ \A i \in 1 .. Len(z) : z[i] = IF i < n THEN s[i] ELSE IF i = n THEN v ELSE s[i - 1]
    BY <2>1, <2>2, InsertAtEntries
  <2>4. QED
    BY <2>3, Zenon DEF v
<1> HIDE DEF y
<1>5. \A i \in 1 .. Len(x) : x[i] = y[i]
  <2> SUFFICES ASSUME NEW i \in 1 .. Len(x) PROVE x[i] = y[i]
    OBVIOUS
  <2>1. CASE i < n
    <3>1. x[i] = w[q[i]] /\ y[i] = s[i] /\ i \in 1 .. Len(q)
      BY <1>1, <1>2, <1>3, <1>4, <2>1
    <3>2. QED
      BY <1>2, <3>1
  <2>2. CASE i = n
    BY <1>1, <1>2, <1>3, <1>4, <2>2
  <2>3. CASE i > n
    <3>1. x[i] = w[q[i - 1]] /\ y[i] = s[i - 1] /\ i - 1 \in 1 .. Len(q)
      BY <1>1, <1>2, <1>3, <1>4, <2>3
    <3>2. QED
      BY <1>2, <3>1
  <2>4. QED
    BY <2>1, <2>2, <2>3
<1>6. Len(x) = Len(y)
  BY <1>1, <1>2, <1>3, <1>4
<1>7. x = y
  BY <1>3, <1>4, <1>5, <1>6, SeqEqual
<1>8. QED
  BY <1>7 DEF x, y, r, s

LEMMA SentTail ==
  ASSUME NEW T, NEW q \in Seq(T), q # << >>, NEW w
  PROVE  /\ Sent(q, w) # << >> /\ Head(Sent(q, w)) = w[Head(q)]
         /\ Sent(Tail(q), w) = Tail(Sent(q, w))
<1>0. \A n \in 1 .. Len(q) : Sent(RemoveAt(q, n), w) = RemoveAt(Sent(q, w), n)
  <2> TAKE n \in 1 .. Len(q)
  <2>1. QED
    BY SentRemove
<1> DEFINE S == Values(w, T)
           s == Sent(q, w)
<1>1. s \in Seq(S) /\ Len(s) = Len(q) /\ \A i \in 1 .. Len(q) : s[i] = w[q[i]]
  <2>1. Reads(s, q, w, S)
    BY SentEntries DEF S
  <2>2. QED
    BY <2>1 DEF Reads
<1>2. 1 \in 1 .. Len(q) /\ Len(q) \in Nat
  OBVIOUS
<1> HIDE DEF S, s
<1>3. s # << >>
  BY <1>1, <1>2
<1>4. Head(s) = w[Head(q)]
  BY <1>1, <1>2, <1>3
<1>5. Tail(q) = RemoveAt(q, 1) /\ Tail(s) = RemoveAt(s, 1)
  BY <1>1, <1>3, TailIsRemove
<1>6. Sent(RemoveAt(q, 1), w) = RemoveAt(s, 1)
  BY <1>0, <1>2, Zenon DEF s
<1>7. QED
  BY <1>3, <1>4, <1>5, <1>6 DEF s

\* Nothing is sent but what those in the queue have.
LEMMA SentSame ==
  ASSUME NEW T, NEW q \in Seq(T), NEW w, NEW w2, \A t \in ToSet(q) : w2[t] = w[t]
  PROVE  Sent(q, w2) = Sent(q, w)
BY DEF Sent, ToSet

LEMMA SentNone ==
  ASSUME NEW w
  PROVE  Sent(<< >>, w) = << >>
BY DEF Sent

-----------------------------------------------------------------------------
\* s is what is in the ring b.
InRing(s, b, n) ==
  /\ s \in Seq(Data \cup {NoInfo}) /\ Len(s) = b.count
  /\ \A i \in 1 .. b.count : s[i] = b.mb[Slot(n, b.head + (i - 1))]

LEMMA ContentsEntries ==
  ASSUME NEW n \in Nat, NEW b, Ring(b, n)
  PROVE  InRing(Contents(b, n), b, n)
<1> DEFINE s == Contents(b, n)
           V == Data \cup {NoInfo}
<1>1. /\ b.count \in 0 .. n /\ b.head \in 0 .. n /\ b.mb \in [0 .. n - 1 -> V]
      /\ n > 0 => b.head \in 0 .. n - 1
  BY RingFields
<1>2. s = [i \in 1 .. b.count |-> b.mb[(b.head + i - 1) % n]]
  BY DEF Contents
<1> HIDE DEF V
<1>3. ASSUME NEW i \in 1 .. b.count
      PROVE  /\ (b.head + i - 1) % n = Slot(n, b.head + (i - 1))
             /\ Slot(n, b.head + (i - 1)) \in 0 .. n - 1
  <2>1. PICK a \in Nat : a = b.head + i - 1 /\ a = b.head + (i - 1) /\ a < n + n /\ n > 0
    BY <1>1
  <2>2. a % n = Slot(n, a)
    BY <2>1, ModulusIs DEF Slot
  <2>3. Slot(n, a) \in 0 .. n - 1
    BY <2>1 DEF Slot
  <2>4. QED
    BY <2>1, <2>2, <2>3
<1> HIDE DEF s
<1>4. s = [i \in 1 .. b.count |-> b.mb[Slot(n, b.head + (i - 1))]]
  BY <1>2, <1>3
<1>5. \A i \in 1 .. b.count : b.mb[Slot(n, b.head + (i - 1))] \in V
  BY <1>1, <1>3
<1>6. s \in [1 .. b.count -> V] /\ b.count \in Nat
  BY <1>1, <1>4, <1>5
<1>7. s \in Seq(V) /\ Len(s) = b.count
  BY <1>6
<1>8. QED
  BY <1>4, <1>7 DEF InRing, s, V

LEMMA ContentsAre ==
  ASSUME NEW n \in Nat, NEW b, Ring(b, n), NEW s, InRing(s, b, n)
  PROVE  Contents(b, n) = s
<1> DEFINE c == Contents(b, n)
           V == Data \cup {NoInfo}
<1>1. InRing(c, b, n)
  BY ContentsEntries
<1> HIDE DEF c
<1>2. c \in Seq(V) /\ s \in Seq(V) /\ Len(c) = Len(s) /\ \A i \in 1 .. Len(c) : c[i] = s[i]
  BY <1>1 DEF InRing
<1> HIDE DEF V
<1>3. c = s
  BY <1>2, SeqEqual
<1>4. QED
  BY <1>3 DEF c

\* In a ring of n places, the place of a datum that is less than c places after
\* the head is not the one c places after it.
LEMMA SlotsApart ==
  ASSUME NEW n \in Nat, NEW h \in 0 .. n - 1, NEW c \in 0 .. n - 1, NEW i \in 0 .. c - 1
  PROVE  Slot(n, h + i) # Slot(n, h + c) /\ Slot(n, h + i) \in 0 .. n - 1
BY DEF Slot

\* A new datum comes last.
LEMMA ContentsEnqueue ==
  ASSUME NEW q \in Dtq, NEW b, Ring(b, dtqcnt[q]), b.count < dtqcnt[q], NEW x \in Data
  PROVE  Contents(enqueue_data(b, q, x), dtqcnt[q]) = Append(Contents(b, dtqcnt[q]), x)
<1> DEFINE n == dtqcnt[q]
           e == enqueue_data(b, q, x)
           s == Contents(b, n)
           V == Data \cup {NoInfo}
           z == Append(s, x)
<1>1. n \in Nat
  BY DtqNames
<1>2. Ring(e, n) /\ e.count = b.count + 1
  BY RingEnqueue
<1>3. e.head = b.head /\ e.mb = [b.mb EXCEPT ![b.tail] = x]
  BY DEF enqueue_data, Ring
<1>4. s \in Seq(V) /\ Len(s) = b.count /\ \A i \in 1 .. b.count : s[i] = b.mb[Slot(n, b.head + (i - 1))]
  BY <1>1, ContentsEntries DEF InRing
<1>5. /\ b.count \in 0 .. n - 1 /\ b.head \in 0 .. n - 1 /\ b.tail \in 0 .. n - 1
      /\ b.tail = Slot(n, b.head + b.count) /\ DOMAIN b.mb = 0 .. n - 1
  BY <1>1, RingFields
<1> HIDE DEF n, e, s, V
<1>6. /\ z \in Seq(V) /\ Len(z) = b.count + 1
      /\ \A i \in 1 .. b.count : z[i] = s[i]
      /\ z[b.count + 1] = x
  <2>1. x \in V
    BY DEF V
  <2>2. QED
    BY <1>4, <2>1, AppendProperties
<1> HIDE DEF z
<1>7. ASSUME NEW i \in 1 .. b.count + 1
      PROVE  z[i] = e.mb[Slot(n, e.head + (i - 1))]
  <2>1. CASE i = b.count + 1
    <3>1. i - 1 = b.count
      BY <1>5, <2>1
    <3>2. e.mb[b.tail] = x
      BY <1>3, <1>5
    <3>3. QED
      BY <1>3, <1>5, <1>6, <2>1, <3>1, <3>2
  <2>2. CASE i # b.count + 1
    <3> DEFINE j == Slot(n, b.head + (i - 1))
    <3>1. i \in 1 .. b.count
      BY <1>5, <2>2
    <3>2. j # b.tail /\ j \in 0 .. n - 1
      <4>1. i - 1 \in 0 .. b.count - 1
        BY <1>5, <3>1
      <4>2. QED
        BY <1>1, <1>5, <4>1, SlotsApart, Zenon
    <3>3. z[i] = b.mb[j] /\ e.head = b.head
      BY <1>3, <1>4, <1>6, <3>1
    <3> HIDE DEF j
    <3>4. e.mb[j] = b.mb[j]
      BY <1>3, <1>5, <3>2
    <3>5. QED
      BY <3>3, <3>4 DEF j
  <2>3. QED
    BY <2>1, <2>2
<1>8. InRing(z, e, n)
  BY <1>2, <1>6, <1>7 DEF InRing, V
<1>9. Contents(e, n) = z
  BY <1>1, <1>2, <1>8, ContentsAre
<1>10. QED
  BY <1>9 DEF z, s, e, n

\* The oldest datum is taken.
LEMMA ContentsDequeue ==
  ASSUME NEW q \in Dtq, NEW b, Ring(b, dtqcnt[q]), b.count > 0
  PROVE  Contents(dequeue_data(b, q), dtqcnt[q]) = Tail(Contents(b, dtqcnt[q]))
<1> DEFINE n == dtqcnt[q]
           e == dequeue_data(b, q)
           s == Contents(b, n)
           V == Data \cup {NoInfo}
           z == Tail(s)
<1>1. n \in Nat
  BY DtqNames
<1>2. Ring(e, n) /\ e.count = b.count - 1
  BY RingDequeue
<1>3. e.head = (IF b.head + 1 >= n THEN 0 ELSE b.head + 1) /\ e.mb = [b.mb EXCEPT ![b.head] = NoInfo]
  BY DEF dequeue_data, advance, Ring
<1>4. s \in Seq(V) /\ Len(s) = b.count /\ \A i \in 1 .. b.count : s[i] = b.mb[Slot(n, b.head + (i - 1))]
  BY <1>1, ContentsEntries DEF InRing
<1>5. b.count \in 1 .. n /\ b.head \in 0 .. n - 1 /\ DOMAIN b.mb = 0 .. n - 1
  BY <1>1, RingFields
<1> HIDE DEF n, e, s, V
<1>6. z \in Seq(V) /\ Len(z) = b.count - 1 /\ \A i \in 1 .. b.count - 1 : z[i] = s[i + 1]
  <2>1. s # << >>
    BY <1>4, <1>5
  <2>2. QED
    BY <1>4, <2>1, HeadTailProperties
<1> HIDE DEF z
<1>7. ASSUME NEW i \in 1 .. b.count - 1
      PROVE  z[i] = e.mb[Slot(n, e.head + (i - 1))]
  <2> DEFINE j == Slot(n, b.head + i)
  <2>1. j = Slot(n, e.head + (i - 1)) /\ j # b.head /\ j \in 0 .. n - 1
    <3>1. i \in 1 .. n
      BY <1>1, <1>5
    <3>2. j = Slot(n, e.head + (i - 1))
      BY <1>1, <1>3, <1>5, <3>1, SameSlot
    <3>3. j # b.head /\ j \in 0 .. n - 1
      BY <1>1, <1>5 DEF Slot
    <3>4. QED
      BY <3>2, <3>3
  <2>2. i + 1 \in 1 .. b.count /\ (i + 1) - 1 = i
    BY <1>5
  <2>3. z[i] = b.mb[j]
    BY <1>4, <1>6, <2>2
  <2> HIDE DEF j
  <2>4. e.mb[j] = b.mb[j]
    BY <1>3, <1>5, <2>1
  <2>5. QED
    BY <2>1, <2>3, <2>4
<1>8. InRing(z, e, n)
  BY <1>2, <1>6, <1>7 DEF InRing, V
<1>9. Contents(e, n) = z
  BY <1>1, <1>2, <1>8, ContentsAre
<1>10. QED
  BY <1>9 DEF z, s, e, n

\* A forced datum in a full ring takes the place of the oldest and is the newest.
LEMMA ContentsForce ==
  ASSUME NEW q \in Dtq, NEW b, Ring(b, dtqcnt[q]), dtqcnt[q] > 0, b.count = dtqcnt[q], NEW x \in Data
  PROVE  Contents(force_enqueue_data(b, q, x), dtqcnt[q]) = Append(Tail(Contents(b, dtqcnt[q])), x)
<1> DEFINE n == dtqcnt[q]
           e == force_enqueue_data(b, q, x)
           s == Contents(b, n)
           V == Data \cup {NoInfo}
           y == Tail(s)
           z == Append(y, x)
<1>1. n \in Nat
  BY DtqNames
<1>2. Ring(e, n) /\ e.count = n
  BY RingForce
<1>3. e.head = (IF b.tail + 1 >= n THEN 0 ELSE b.tail + 1) /\ e.mb = [b.mb EXCEPT ![b.tail] = x]
  BY <1>1 DEF force_enqueue_data, advance, Ring
<1>4. s \in Seq(V) /\ Len(s) = b.count /\ \A i \in 1 .. b.count : s[i] = b.mb[Slot(n, b.head + (i - 1))]
  BY <1>1, ContentsEntries DEF InRing
<1>5. /\ b.count = n /\ n > 0 /\ b.head \in 0 .. n - 1 /\ b.tail = Slot(n, b.head + n)
      /\ DOMAIN b.mb = 0 .. n - 1
  BY <1>1, RingFields
<1> HIDE DEF n, e, s, V
<1>6. b.tail = b.head
  BY <1>1, <1>5 DEF Slot
<1>7. y \in Seq(V) /\ Len(y) = n - 1 /\ \A i \in 1 .. n - 1 : y[i] = s[i + 1]
  <2>1. s # << >>
    BY <1>4, <1>5
  <2>2. QED
    BY <1>4, <1>5, <2>1, HeadTailProperties
<1> HIDE DEF y
<1>8. /\ z \in Seq(V) /\ Len(z) = n /\ z[n] = x
      /\ \A i \in 1 .. n - 1 : z[i] = y[i]
  <2>1. x \in V
    BY DEF V
  <2>2. /\ z \in Seq(V) /\ Len(z) = Len(y) + 1 /\ z[Len(y) + 1] = x
        /\ \A i \in 1 .. Len(y) : z[i] = y[i]
    BY <1>7, <2>1, AppendProperties
  <2>3. Len(y) = n - 1 /\ Len(y) + 1 = n
    BY <1>1, <1>7
  <2> HIDE DEF z
  <2>4. QED
    BY <2>2, <2>3
<1> HIDE DEF z
<1>9. ASSUME NEW i \in 1 .. n
      PROVE  z[i] = e.mb[Slot(n, e.head + (i - 1))]
  <2> DEFINE j == Slot(n, b.head + i)
  <2>1. j = Slot(n, e.head + (i - 1)) /\ j \in 0 .. n - 1
    <3>1. j = Slot(n, e.head + (i - 1))
      BY <1>1, <1>3, <1>5, <1>6, SameSlot
    <3>2. j \in 0 .. n - 1
      BY <1>1, <1>5 DEF Slot
    <3>3. QED
      BY <3>1, <3>2
  <2>2. CASE i = n
    <3>1. j = b.head
      BY <1>1, <1>5, <2>2 DEF Slot
    <3>2. e.mb[j] = x
      BY <1>3, <1>5, <1>6, <3>1
    <3>3. QED
      BY <1>8, <2>1, <2>2, <3>2
  <2>3. CASE i # n
    <3>1. j # b.head
      BY <1>1, <1>5, <2>3 DEF Slot
    <3>2. i + 1 \in 1 .. n /\ (i + 1) - 1 = i /\ i \in 1 .. n - 1
      BY <1>1, <2>3
    <3>3. z[i] = b.mb[j]
      BY <1>4, <1>5, <1>7, <1>8, <3>2
    <3> HIDE DEF j
    <3>4. e.mb[j] = b.mb[j]
      BY <1>3, <1>5, <1>6, <2>1, <3>1
    <3>5. QED
      BY <2>1, <3>3, <3>4
  <2>4. QED
    BY <2>2, <2>3
<1>10. InRing(z, e, n)
  BY <1>2, <1>8, <1>9 DEF InRing, V
<1>11. Contents(e, n) = z
  BY <1>1, <1>2, <1>10, ContentsAre
<1>12. QED
  BY <1>11 DEF z, y, s, e, n

\* Nothing is in an empty ring, and as much as its count says in any.
LEMMA ContentsEmpty ==
  ASSUME NEW q \in Dtq
  PROVE  Contents(EmptyRing(q), dtqcnt[q]) = << >>
BY DEF Contents, EmptyRing

LEMMA ContentsCount ==
  ASSUME NEW q \in Dtq, NEW b, Ring(b, dtqcnt[q])
  PROVE  /\ Len(Contents(b, dtqcnt[q])) = b.count
         /\ Contents(b, dtqcnt[q]) \in Seq(Data \cup {NoInfo})
         /\ Contents(b, dtqcnt[q]) = << >> <=> b.count = 0
<1> DEFINE s == Contents(b, dtqcnt[q])
<1>1. dtqcnt[q] \in Nat
  BY DtqNames
<1>2. s \in Seq(Data \cup {NoInfo}) /\ Len(s) = b.count
  BY <1>1, ContentsEntries DEF InRing
<1> HIDE DEF s
<1>3. s = << >> <=> b.count = 0
  BY <1>2
<1>4. QED
  BY <1>2, <1>3 DEF s

-----------------------------------------------------------------------------
\* Who is in the queue of the senders.
LEMMA Senders ==
  ASSUME NEW d, NEW L \in SUBSET Task, Correct(d, L), NEW q \in Dtq
  PROVE  /\ d.wait_queue[q] \in Seq(Task) /\ IsInjective(d.wait_queue[q])
         /\ \A t \in ToSet(d.wait_queue[q]) : t \in L /\ d.wobj[t] = q
<1>1. PICK I, C : DataInv(I, C, d, L)
  BY DEF Correct
<1>2. d.wait_queue[q] \in Seq(Task) /\ q \in Obj
  BY CorrectFields, DtqNames
<1>3. ToSet(d.wait_queue[q]) \subseteq Task
  BY <1>2 DEF ToSet
<1>4. \A t \in Task : t \in ToSet(d.wait_queue[q]) <=> t \in L /\ d.wobj[t] = q
  BY <1>1, <1>2, WaitersFacts
<1>5. IsInjective(d.wait_queue[q])
  BY <1>1, <1>2 DEF DataInv, QueuesInv, WaitQueueInv, QueuedWhereWaiting
<1>6. QED
  BY <1>2, <1>3, <1>4, <1>5

\* Nothing of the channel q changes.
SameChannel(d, e, q) == Buf(e, q) = Buf(d, q) /\ Pend(e, q) = Pend(d, q)

LEMMA ChannelUnchanged ==
  ASSUME NEW d, NEW L \in SUBSET Task, Correct(d, L), NEW q \in Dtq, NEW e,
         e.cb[q] = d.cb[q], e.wait_queue[q] = d.wait_queue[q],
         \A t \in L : d.wobj[t] = q => e.winfo[t] = d.winfo[t]
  PROVE  SameChannel(d, e, q)
<1>1. /\ d.wait_queue[q] \in Seq(Task)
      /\ \A t \in ToSet(d.wait_queue[q]) : t \in L /\ d.wobj[t] = q
  BY Senders
<1>2. \A t \in ToSet(d.wait_queue[q]) : e.winfo[t] = d.winfo[t]
  BY <1>1
<1>3. Sent(d.wait_queue[q], e.winfo) = Sent(d.wait_queue[q], d.winfo)
  BY <1>1, <1>2, SentSame
<1>4. QED
  BY <1>3 DEF SameChannel, Buf, Pend

LEMMA OtherChannels ==
  ASSUME NEW d, NEW L \in SUBSET Task, NEW q \in Dtq, NEW e, Correct(d, L), AtQueue(d, L, e, q),
         NEW r \in Dtq, r # q
  PROVE  SameChannel(d, e, r)
<1> DEFINE O == ComObj \ {q, rwait[q]}
<1>1. r \in O
  BY DtqNames
<1>2. LeavesAlone(O, d, L, e, L) /\ AllStay(O, d, e)
  BY DEF AtQueue
<1> HIDE DEF O
<1>3. e.cb[r] = d.cb[r] /\ e.wait_queue[r] = d.wait_queue[r]
  BY <1>1, <1>2 DEF LeavesAlone, AllStay
<1>4. \A t \in L : d.wobj[t] = r => e.winfo[t] = d.winfo[t]
  BY <1>1, <1>2 DEF LeavesAlone, AllStay
<1>5. QED
  BY <1>3, <1>4, ChannelUnchanged

\* No sender waits.
LEMMA NothingPending ==
  ASSUME NEW d, NEW q, d.wait_queue[q] = << >>
  PROVE  Pend(d, q) = << >>
BY SentNone DEF Pend

\* What is in the channel q.
LEMMA ChannelFacts ==
  ASSUME NEW d, NEW L \in SUBSET Task, Correct(d, L), QueuesOK(d, L), NEW q \in Dtq
  PROVE  /\ Ring(d.cb[q], dtqcnt[q])
         /\ Buf(d, q) \in Seq(Data \cup {NoInfo}) /\ Len(Buf(d, q)) = d.cb[q].count
         /\ Buf(d, q) = << >> <=> d.cb[q].count = 0
         /\ d.cb[q].count \in 0 .. dtqcnt[q] /\ dtqcnt[q] \in Nat
         /\ d.wait_queue[q] # << >> => d.cb[q].count = dtqcnt[q]
<1>1. QueueOK(d, L, q) /\ dtqcnt[q] \in Nat /\ q \in Obj
  BY DtqNames DEF QueuesOK
<1>2. Ring(d.cb[q], dtqcnt[q])
  BY <1>1 DEF QueueOK
<1>3. /\ Buf(d, q) \in Seq(Data \cup {NoInfo}) /\ Len(Buf(d, q)) = d.cb[q].count
      /\ Buf(d, q) = << >> <=> d.cb[q].count = 0
  BY <1>2, ContentsCount DEF Buf
<1>4. d.cb[q].count \in 0 .. dtqcnt[q]
  BY <1>1, <1>2, RingFields
<1>5. d.wait_queue[q] # << >> => d.cb[q].count = dtqcnt[q]
  BY <1>1, EmptyQueue DEF QueueOK
<1>6. QED
  BY <1>1, <1>2, <1>3, <1>4, <1>5

-----------------------------------------------------------------------------
\* A datum that is handed to a receiver does not go through the channel.
LEMMA HandedPast ==
  ASSUME NEW d, NEW L \in SUBSET Task, Correct(d, L), QueuesOK(d, L), NEW q \in Dtq,
         d.wait_queue[rwait[q]] # << >>, NEW x
  PROVE  SameChannel(d, hand_over(d, q, x), q)
<1> DEFINE o == rwait[q]
           t == Head(d.wait_queue[o])
           e == hand_over(d, q, x)
<1>1. o \in Obj /\ q \in Obj /\ o # q
  BY DtqNames
<1>2. t \in L /\ d.wobj[t] = o /\ Finished(d, e, t, x, "E_OK")
  BY <1>1, Grants DEF hand_over
<1> HIDE DEF t, e, o
<1>3. e.cb[q] = d.cb[q] /\ e.wait_queue[q] = d.wait_queue[q]
  BY <1>1, <1>2 DEF Finished
<1>4. \A u \in L : d.wobj[u] = q => e.winfo[u] = d.winfo[u]
  BY <1>1, <1>2 DEF Finished
<1>5. SameChannel(d, e, q)
  BY <1>3, <1>4, ChannelUnchanged
<1>6. QED
  BY <1>5 DEF e

\* A send for which there is room, and nobody to receive.
Put(d, e, q, x) ==
  /\ Len(Buf(d, q)) + 1 <= dtqcnt[q]
  /\ Pend(d, q) = << >> /\ Pend(e, q) = << >>
  /\ Buf(e, q) = Append(Buf(d, q), x)

LEMMA SendsInOrder ==
  ASSUME NEW d, NEW L \in SUBSET Task, Correct(d, L), QueuesOK(d, L), NEW q \in Dtq, NEW x \in Data,
         CanSend(d, q)
  PROVE  LET e == send_data(d, q, x)
         IN  \/ SameChannel(d, e, q)
             \/ Put(d, e, q, x) /\ e.wait_queue[rwait[q]] = << >>
<1> DEFINE e == send_data(d, q, x)
           b == enqueue_data(d.cb[q], q, x)
<1>1. /\ Ring(d.cb[q], dtqcnt[q]) /\ Len(Buf(d, q)) = d.cb[q].count
      /\ d.cb[q].count \in 0 .. dtqcnt[q] /\ dtqcnt[q] \in Nat
      /\ d.wait_queue[q] # << >> => d.cb[q].count = dtqcnt[q]
  BY ChannelFacts
<1>2. CASE d.wait_queue[rwait[q]] # << >>
  <2>1. e = hand_over(d, q, x)
    BY <1>2 DEF send_data
  <2>2. SameChannel(d, hand_over(d, q, x), q)
    BY <1>2, HandedPast
  <2>3. QED
    BY <2>1, <2>2
<1>3. CASE d.wait_queue[rwait[q]] = << >>
  <2>1. e = [d EXCEPT !.cb[q] = b] /\ d.cb[q].count < dtqcnt[q]
    BY <1>3 DEF send_data, CanSend
  <2>2. Contents(b, dtqcnt[q]) = Append(Buf(d, q), x)
    BY <1>1, <2>1, ContentsEnqueue DEF Buf
  <2>3. q \in ComObj
    BY DtqNames
  <2> HIDE DEF e, b
  <2>4. Written(d, e, q, b)
    BY <2>1, <2>3, Writes
  <2>5. d.wait_queue[q] = << >>
    BY <1>1, <2>1
  <2>6. Pend(d, q) = << >> /\ Pend(e, q) = << >>
    BY <2>4, <2>5, NothingPending DEF Written
  <2>7. Buf(e, q) = Append(Buf(d, q), x)
    BY <2>2, <2>4 DEF Written, Buf
  <2>8. Put(d, e, q, x) /\ e.wait_queue[rwait[q]] = << >>
    BY <1>1, <1>3, <2>1, <2>4, <2>6, <2>7 DEF Put, Written
  <2>9. QED
    BY <2>8 DEF e
<1>4. QED
  BY <1>2, <1>3

\* Two data that are sent one after the other.
LEMMA SendsTwoInOrder ==
  ASSUME NEW d, NEW L \in SUBSET Task, Correct(d, L), QueuesOK(d, L), NEW q \in Dtq,
         NEW x \in Data, NEW y \in Data, d.cb[q].count + 2 <= dtqcnt[q]
  PROVE  LET f == send_all(d, q, << x, y >>).k
         IN  \/ SameChannel(d, f, q)
             \/ Put(d, f, q, y)
             \/ /\ Len(Buf(d, q)) + 2 <= dtqcnt[q]
                /\ Pend(d, q) = << >> /\ Pend(f, q) = << >>
                /\ Buf(f, q) = Append(Append(Buf(d, q), x), y)
<1> DEFINE e == send_data(d, q, x)
           f == send_data(e, q, y)
<1>1. /\ Len(Buf(d, q)) = d.cb[q].count /\ d.cb[q].count \in 0 .. dtqcnt[q] /\ dtqcnt[q] \in Nat
  BY ChannelFacts
<1>2. CanSend(d, q)
  BY <1>1 DEF CanSend
<1>3. AtQueue(d, L, e, q) /\ e.cb[q].count <= d.cb[q].count + 1
  BY <1>2, Sends
<1>4. SameChannel(d, e, q) \/ (Put(d, e, q, x) /\ e.wait_queue[rwait[q]] = << >>)
  BY <1>2, SendsInOrder
<1>5. Correct(e, L) /\ QueuesOK(e, L)
  BY <1>3 DEF AtQueue
<1> HIDE DEF e
<1>6. e.cb[q].count \in 0 .. dtqcnt[q]
  BY <1>5, ChannelFacts
<1>7. CanSend(e, q)
  BY <1>1, <1>3, <1>6 DEF CanSend
<1>8. SameChannel(e, f, q) \/ (Put(e, f, q, y) /\ f.wait_queue[rwait[q]] = << >>)
  BY <1>5, <1>7, SendsInOrder
<1> HIDE DEF f
<1>9. SendOne([k |-> d, ok |-> TRUE], q, x) = [k |-> e, ok |-> TRUE]
  BY <1>2 DEF SendOne, e
<1>10. SendOne([k |-> e, ok |-> TRUE], q, y) = [k |-> f, ok |-> TRUE]
  BY <1>7 DEF SendOne, f
<1>11. send_all(d, q, << x, y >>).k = f
  BY <1>9, <1>10, SendAllTwo
<1>12. CASE SameChannel(d, e, q)
  BY <1>8, <1>11, <1>12 DEF SameChannel, Put
<1>13. CASE Put(d, e, q, x) /\ e.wait_queue[rwait[q]] = << >>
  <2>1. Put(e, f, q, y)
    <3>1. e.cb[q].count < dtqcnt[q]
      BY <1>1, <1>3, <1>6
    <3>2. f = [e EXCEPT !.cb[q] = enqueue_data(@, q, y)]
      BY <1>13 DEF f, send_data
    <3> DEFINE b == enqueue_data(e.cb[q], q, y)
    <3>3. f = [e EXCEPT !.cb[q] = b]
      BY <3>2
    <3>4. Contents(b, dtqcnt[q]) = Append(Buf(e, q), y)
      BY <1>5, <3>1, ChannelFacts, ContentsEnqueue DEF Buf
    <3> HIDE DEF b
    <3>5. q \in ComObj
      BY DtqNames
    <3>6. Written(e, f, q, b)
      BY <1>5, <3>3, <3>5, Writes
    <3>7. Buf(f, q) = Append(Buf(e, q), y) /\ Pend(f, q) = Pend(e, q)
      BY <3>4, <3>6 DEF Written, Buf, Pend
    <3>8. Len(Buf(e, q)) = e.cb[q].count
      BY <1>5, ChannelFacts
    <3>9. QED
      BY <1>1, <1>6, <1>13, <3>1, <3>7, <3>8 DEF Put
  <2>2. Buf(f, q) = Append(Append(Buf(d, q), x), y) /\ Pend(d, q) = << >> /\ Pend(f, q) = << >>
    BY <1>13, <2>1 DEF Put
  <2>3. Len(Buf(d, q)) + 2 <= dtqcnt[q]
    BY <1>1
  <2>4. QED
    BY <1>11, <2>2, <2>3
<1>14. QED
  BY <1>4, <1>12, <1>13

\* A forced datum that finds no room.
LEMMA ForcedInOrder ==
  ASSUME NEW d, NEW L \in SUBSET Task, Correct(d, L), QueuesOK(d, L), NEW q \in Dtq, NEW x \in Data,
         dtqcnt[q] > 0
  PROVE  LET e == force_send_data(d, q, x)
         IN  \/ SameChannel(d, e, q)
             \/ Put(d, e, q, x)
             \/ /\ Len(Buf(d, q)) = dtqcnt[q] /\ Pend(e, q) = Pend(d, q)
                /\ Buf(e, q) = Append(Tail(Buf(d, q)), x)
<1> DEFINE e == force_send_data(d, q, x)
           b == force_enqueue_data(d.cb[q], q, x)
<1>1. /\ Ring(d.cb[q], dtqcnt[q]) /\ Len(Buf(d, q)) = d.cb[q].count
      /\ d.cb[q].count \in 0 .. dtqcnt[q] /\ dtqcnt[q] \in Nat
  BY ChannelFacts
<1>2. CASE CanSend(d, q)
  <2>1. e = send_data(d, q, x)
    BY <1>2 DEF send_data, force_send_data, force_enqueue_data, CanSend
  <2>2. SameChannel(d, send_data(d, q, x), q) \/ Put(d, send_data(d, q, x), q, x)
    BY <1>2, SendsInOrder
  <2>3. QED
    BY <2>1, <2>2
<1>3. CASE ~CanSend(d, q)
  <2>1. e = [d EXCEPT !.cb[q] = b] /\ d.cb[q].count = dtqcnt[q]
    BY <1>1, <1>3 DEF force_send_data, CanSend
  <2>2. Contents(b, dtqcnt[q]) = Append(Tail(Buf(d, q)), x)
    BY <1>1, <2>1, ContentsForce DEF Buf
  <2>3. q \in ComObj
    BY DtqNames
  <2> HIDE DEF e, b
  <2>4. Written(d, e, q, b)
    BY <2>1, <2>3, Writes
  <2>5. Buf(e, q) = Append(Tail(Buf(d, q)), x) /\ Pend(e, q) = Pend(d, q)
    BY <2>2, <2>4 DEF Written, Buf, Pend
  <2>6. QED
    BY <1>1, <2>1, <2>5 DEF e
<1>4. QED
  BY <1>2, <1>3

\* The first sender leaves.
LEMMA SenderLeaves ==
  ASSUME NEW d, NEW L \in SUBSET Task, Correct(d, L), NEW q \in Dtq, d.wait_queue[q] # << >>,
         NEW e, Finished(d, e, Head(d.wait_queue[q]), d.winfo[Head(d.wait_queue[q])], "E_OK")
  PROVE  /\ Pend(d, q) # << >> /\ Head(Pend(d, q)) = d.winfo[Head(d.wait_queue[q])]
         /\ Pend(e, q) = Tail(Pend(d, q))
         /\ Buf(e, q) = Buf(d, q)
<1> DEFINE w == d.wait_queue[q]
           t == Head(w)
<1>1. w \in Seq(Task) /\ IsInjective(w) /\ \A u \in ToSet(w) : u \in L /\ d.wobj[u] = q
  BY Senders
<1>2. q \in Obj /\ Whole(d)
  BY DtqNames, CorrectFields
<1>3. t \in ToSet(w) /\ Tail(w) = queue_delete(w, t)
  BY <1>1, TailIsQueueDelete
<1>4. d.wobj[t] = q
  BY <1>1, <1>3
<1>5. e.wait_queue[q] = Tail(w) /\ e.winfo = d.winfo /\ e.cb = d.cb
  BY <1>2, <1>3, <1>4 DEF Finished, Whole
<1>6. /\ Sent(w, d.winfo) # << >> /\ Head(Sent(w, d.winfo)) = d.winfo[t]
      /\ Sent(Tail(w), d.winfo) = Tail(Sent(w, d.winfo))
  <2> HIDE DEF w
  <2>1. w # << >>
    BY DEF w
  <2>2. QED
    BY <1>1, <2>1, SentTail
<1>7. QED
  BY <1>5, <1>6 DEF Pend, Buf

\* The oldest datum is received, from the ring or from the first sender.
LEMMA ReceivesInOrder ==
  ASSUME NEW d, NEW L \in SUBSET Task, Correct(d, L), QueuesOK(d, L), NEW q \in Dtq,
         CanReceive(d, q)
  PROVE  LET e == receive_data(d, q)
         IN  \/ /\ Buf(d, q) # << >> /\ Pend(d, q) = << >> /\ Pend(e, q) = << >>
                /\ Buf(e, q) = Tail(Buf(d, q))
             \/ /\ Buf(d, q) # << >> /\ Pend(d, q) # << >> /\ Pend(e, q) = Tail(Pend(d, q))
                /\ Buf(e, q) = Append(Tail(Buf(d, q)), Head(Pend(d, q)))
             \/ /\ Buf(d, q) = << >> /\ Pend(d, q) # << >> /\ Pend(e, q) = Tail(Pend(d, q))
                /\ Buf(e, q) = << >>
<1> DEFINE e == receive_data(d, q)
           c == d.cb[q]
           b == dequeue_data(c, q)
           s == Head(d.wait_queue[q])
           n == dtqcnt[q]
<1>1. q \in ComObj /\ q \in Obj /\ n \in Nat
  BY DtqNames
<1>2. /\ Ring(c, n) /\ c.count \in 0 .. n /\ (Buf(d, q) = << >> <=> c.count = 0)
      /\ d.wait_queue[q] # << >> => c.count = n
  BY ChannelFacts
<1>3. c.count > 0 => Ring(b, n) /\ b.count = c.count - 1 /\ Contents(b, n) = Tail(Buf(d, q))
  <2>1. Buf(d, q) = Contents(c, n)
    BY DEF Buf
  <2> HIDE DEF b, c
  <2>2. ASSUME c.count > 0 PROVE Ring(b, n) /\ b.count = c.count - 1 /\ Contents(b, n) = Tail(Contents(c, n))
    BY <1>2, <2>2, RingDequeue, ContentsDequeue DEF b
  <2>3. QED
    BY <2>1, <2>2
<1> HIDE DEF b, c, n
<1>4. CASE d.wait_queue[q] = << >>
  <2>1. c.count > 0
    BY <1>1, <1>2, <1>4 DEF CanReceive, c, n
  <2>2. e = [d EXCEPT !.cb[q] = b]
    BY <1>4, <2>1 DEF receive_data, b, c
  <2> HIDE DEF e
  <2>3. Written(d, e, q, b)
    BY <1>1, <2>2, Writes
  <2>4. Pend(d, q) = << >> /\ Pend(e, q) = << >>
    BY <1>4, <2>3, NothingPending DEF Written
  <2>5. Buf(e, q) = Tail(Buf(d, q))
    BY <1>3, <2>1, <2>3 DEF Written, Buf, n
  <2>6. Buf(d, q) # << >>
    BY <1>1, <1>2, <2>1
  <2>7. QED
    BY <2>4, <2>5, <2>6 DEF e
<1>5. CASE d.wait_queue[q] # << >> /\ ~(c.count > 0)
  <2>1. e = wait_complete(queue_delete_next(d, q), s)
    BY <1>5 DEF receive_data, c
  <2>2. Finished(d, e, s, d.winfo[s], "E_OK")
    <3> HIDE DEF e, s
    <3>1. LET f == wait_complete(queue_delete_next(d, q), Head(d.wait_queue[q]))
          IN  Finished(d, f, Head(d.wait_queue[q]), d.winfo[Head(d.wait_queue[q])], "E_OK")
      BY <1>1, <1>5, Grants
    <3>2. QED
      BY <2>1, <3>1 DEF s
  <2> HIDE DEF e
  <2>3. Pend(d, q) # << >> /\ Pend(e, q) = Tail(Pend(d, q)) /\ Buf(e, q) = Buf(d, q)
    BY <1>5, <2>2, SenderLeaves
  <2>4. Buf(d, q) = << >>
    BY <1>1, <1>2, <1>5
  <2>5. QED
    BY <2>3, <2>4 DEF e
<1>6. CASE d.wait_queue[q] # << >> /\ c.count > 0
  <2> DEFINE a  == enqueue_data(b, q, d.winfo[s])
             d1 == [d EXCEPT !.cb[q] = a]
  <2>1. s \in L /\ d.wobj[s] = q
    BY <1>1, <1>6, Grants
  <2>2. d.winfo[s] \in Data
    BY <2>1 DEF QueuesOK, QueueOK
  <2>3. Contents(a, n) = Append(Tail(Buf(d, q)), d.winfo[s])
    <3>1. b.count < n /\ Ring(b, n)
      BY <1>1, <1>2, <1>3, <1>6
    <3>2. Contents(a, n) = Append(Contents(b, n), d.winfo[s])
      BY <2>2, <3>1, ContentsEnqueue DEF n
    <3>3. QED
      BY <1>3, <1>6, <3>2
  <2>4. Whole(d) /\ DOMAIN d.cb = ComObj
    BY CorrectFields DEF Correct, HasBlocks
  <2>5. e = wait_complete(queue_delete_next(d1, q), s)
    <3>1. [[d EXCEPT !.cb[q] = b] EXCEPT !.cb[q] = enqueue_data(@, q, d.winfo[s])] = d1
      BY <1>1, <2>4 DEF Whole
    <3>2. QED
      BY <1>6, <3>1 DEF receive_data, b, c
  <2> HIDE DEF a
  <2>6. Correct(d1, L) /\ Written(d, d1, q, a)
    BY <1>1, Writes
  <2> HIDE DEF d1, e
  <2>7. d1.wait_queue = d.wait_queue /\ d1.winfo = d.winfo /\ d1.cb[q] = a
    BY <2>6 DEF Written
  <2>8. d1.wait_queue[q] # << >> /\ s = Head(d1.wait_queue[q])
    BY <1>6, <2>7
  <2>9. Finished(d1, e, Head(d1.wait_queue[q]), d1.winfo[Head(d1.wait_queue[q])], "E_OK")
    <3>1. LET f == wait_complete(queue_delete_next(d1, q), Head(d1.wait_queue[q]))
          IN  Finished(d1, f, Head(d1.wait_queue[q]), d1.winfo[Head(d1.wait_queue[q])], "E_OK")
      BY <1>1, <2>6, <2>8, Grants
    <3>2. QED
      BY <2>5, <2>8, <3>1
  <2>10. /\ Pend(d1, q) # << >> /\ Head(Pend(d1, q)) = d1.winfo[Head(d1.wait_queue[q])]
         /\ Pend(e, q) = Tail(Pend(d1, q)) /\ Buf(e, q) = Buf(d1, q)
    BY <2>6, <2>8, <2>9, SenderLeaves
  <2>11. Pend(d1, q) = Pend(d, q) /\ Buf(d1, q) = Append(Tail(Buf(d, q)), d.winfo[s])
    BY <2>3, <2>7 DEF Pend, Buf, n
  <2>12. Buf(d, q) # << >>
    BY <1>1, <1>2, <1>6
  <2>13. d1.winfo[Head(d1.wait_queue[q])] = d.winfo[s]
    BY <2>7, <2>8
  <2> HIDE DEF s
  <2>14. QED
    BY <2>10, <2>11, <2>12, <2>13 DEF e
<1>7. QED
  BY <1>4, <1>5, <1>6

\* A sender that has to wait.
LEMMA WaitsInOrder ==
  ASSUME NEW d, NEW L \in SUBSET Task, Correct(d, L), NEW q \in Dtq, NEW t \in Task, NEW x,
         NEW e, Started(d, e, t, q, x)
  PROVE  /\ Buf(e, q) = Buf(d, q)
         /\ \E i \in 1 .. Len(Pend(d, q)) + 1 : Pend(e, q) = InsertAt(Pend(d, q), i, x)
<1> DEFINE w == d.wait_queue[q]
<1>1. w \in Seq(Task) /\ \A u \in ToSet(w) : u \in L /\ d.wobj[u] = q
  BY Senders
<1>2. q \in Obj /\ q # NoObj /\ Whole(d) /\ DOMAIN d.wait_queue = Obj
  BY DtqNames, CorrectFields
<1>3. PICK i \in 1 .. Len(w) + 1 : e.wait_queue = [d.wait_queue EXCEPT ![q] = InsertAt(@, i, t)]
  BY DEF Started
<1>4. e.wait_queue[q] = InsertAt(w, i, t)
  BY <1>2, <1>3
<1>5. e.winfo[t] = x /\ e.cb = d.cb /\ \A u \in ToSet(w) : e.winfo[u] = d.winfo[u]
  BY <1>1, <1>2 DEF Started, Whole
<1> HIDE DEF w
<1>6. Sent(InsertAt(w, i, t), e.winfo) = InsertAt(Sent(w, e.winfo), i, e.winfo[t])
  BY <1>1, SentInsert
<1>7. Sent(w, e.winfo) = Sent(w, d.winfo)
  BY <1>1, <1>5, SentSame
<1>8. Pend(e, q) = InsertAt(Pend(d, q), i, x)
  BY <1>4, <1>5, <1>6, <1>7 DEF Pend, w
<1>9. Len(Pend(d, q)) = Len(w)
  BY <1>1, SentEntries DEF Reads, Pend, w
<1>10. Buf(e, q) = Buf(d, q)
  BY <1>5 DEF Buf
<1>11. QED
  BY <1>8, <1>9, <1>10

-----------------------------------------------------------------------------
\* What may happen to a channel of the capacity n with b in its buffer and p
\* pending: they become b2 and p2.
Allowed(n, b, p, b2, p2) ==
  \/ b2 = b /\ p2 = p
  \/ /\ Len(b) + 1 <= n /\ p = << >> /\ p2 = << >>
     /\ \E x \in Data : b2 = Append(b, x)
  \/ /\ Len(b) + 2 <= n /\ p = << >> /\ p2 = << >>
     /\ \E x, y \in Data : b2 = Append(Append(b, x), y)
  \/ /\ Len(b) = n /\ b2 = b
     /\ \E x \in Data : \E i \in 1 .. Len(p) + 1 : p2 = InsertAt(p, i, x)
  \/ b2 = b /\ \E i \in DOMAIN p : p2 = RemoveAt(p, i)
  \/ b2 = b /\ \E i, j \in DOMAIN p : p2 = InsertAt(RemoveAt(p, i), j, p[i])
  \/ b # << >> /\ p = << >> /\ b2 = Tail(b) /\ p2 = << >>
  \/ b # << >> /\ p # << >> /\ b2 = Append(Tail(b), Head(p)) /\ p2 = Tail(p)
  \/ b = << >> /\ p # << >> /\ b2 = << >> /\ p2 = Tail(p)
  \/ Len(b) = n /\ n > 0 /\ p2 = p /\ \E x \in Data : b2 = Append(Tail(b), x)
  \/ p = << >> /\ b2 = << >> /\ p2 = << >>

ChannelStep(d, e, q) == Allowed(dtqcnt[q], Buf(d, q), Pend(d, q), Buf(e, q), Pend(e, q))

\* A step of at most one channel.
ChannelsStep(d, e) ==
  \/ \A q \in Dtq : SameChannel(d, e, q)
  \/ \E q \in Dtq : ChannelStep(d, e, q) /\ \A r \in Dtq \ {q} : SameChannel(d, e, r)

\* A place in the queue of the senders that is left or changed.
LEMMA MovesInOrder ==
  ASSUME NEW d, NEW L \in SUBSET Task, Correct(d, L), NEW q \in Dtq,
         NEW e, NEW M \in SUBSET Task, Correct(e, M), LeavesAlone({q}, d, L, e, M),
         e.wait_queue[q] = d.wait_queue[q] \/ Moved(d.wait_queue[q], e.wait_queue[q])
  PROVE  ChannelStep(d, e, q) /\ (e.wait_queue[q] = d.wait_queue[q] => SameChannel(d, e, q))
<1> DEFINE w == d.wait_queue[q]
           w2 == e.wait_queue[q]
           p == Sent(w, d.winfo)
<1>1. w \in Seq(Task)
  BY Senders
<1>2. w2 \in Seq(Task) /\ \A u \in ToSet(w2) : u \in M /\ e.wobj[u] = q
  BY Senders
<1>3. e.cb[q] = d.cb[q] /\ \A u \in ToSet(w2) : e.winfo[u] = d.winfo[u]
  BY <1>2 DEF LeavesAlone
<1> HIDE DEF w, w2
<1>4. Pend(e, q) = Sent(w2, d.winfo) /\ Buf(e, q) = Buf(d, q) /\ Pend(d, q) = p
  <2>1. Sent(w2, e.winfo) = Sent(w2, d.winfo)
    BY <1>2, <1>3, SentSame
  <2>2. QED
    BY <1>3, <2>1 DEF Pend, Buf, w, w2
<1>5. Len(p) = Len(w) /\ DOMAIN p = 1 .. Len(w) /\ \A i \in 1 .. Len(w) : p[i] = d.winfo[w[i]]
  BY <1>1, SentEntries DEF Reads
<1>6. DOMAIN w = 1 .. Len(w)
  BY <1>1
<1>7. CASE w2 = w
  BY <1>4, <1>7 DEF ChannelStep, Allowed, SameChannel
<1>8. ASSUME NEW i \in 1 .. Len(w), w2 = RemoveAt(w, i) PROVE ChannelStep(d, e, q)
  <2>1. Sent(w2, d.winfo) = RemoveAt(p, i)
    BY <1>1, <1>8, SentRemove
  <2> HIDE DEF p
  <2>2. QED
    BY <1>4, <1>5, <2>1 DEF ChannelStep, Allowed
<1>9. ASSUME NEW i \in 1 .. Len(w), NEW j \in 1 .. Len(w), w2 = InsertAt(RemoveAt(w, i), j, w[i])
      PROVE ChannelStep(d, e, q)
  <2> DEFINE r == RemoveAt(w, i)
  <2>1. r \in Seq(Task) /\ Len(r) = Len(w) - 1 /\ w[i] \in Task /\ Len(w) \in Nat
    BY <1>1, RemoveAtEntries
  <2>2. Sent(r, d.winfo) = RemoveAt(p, i)
    BY <1>1, SentRemove
  <2>3. w2 = InsertAt(r, j, w[i])
    BY <1>9
  <2> HIDE DEF r
  <2>4. j \in 1 .. Len(r) + 1
    BY <2>1
  <2>5. Sent(w2, d.winfo) = InsertAt(Sent(r, d.winfo), j, d.winfo[w[i]])
    BY <2>1, <2>3, <2>4, SentInsert
  <2>6. Sent(w2, d.winfo) = InsertAt(RemoveAt(p, i), j, p[i])
    BY <1>5, <2>2, <2>5
  <2> HIDE DEF p
  <2>7. QED
    BY <1>4, <1>5, <2>6 DEF ChannelStep, Allowed
<1>10. CASE Moved(w, w2)
  <2>1. PICK i \in 1 .. Len(w) : \/ w2 = RemoveAt(w, i)
                                 \/ \E j \in 1 .. Len(w) : w2 = InsertAt(RemoveAt(w, i), j, w[i])
    BY <1>6, <1>10, Zenon DEF Moved
  <2>2. ChannelStep(d, e, q)
    BY <1>8, <1>9, <2>1
  <2>3. w2 = w => SameChannel(d, e, q)
    BY <1>4 DEF SameChannel
  <2>4. QED
    BY <2>2, <2>3 DEF w, w2
<1>11. QED
  BY <1>7, <1>10 DEF w, w2

\* What happens at other objects.
LEMMA ElsewhereInOrder ==
  ASSUME KInv, KInv', NEW O, O \cap DtqObj = {}, Elsewhere(O)
  PROVE  ChannelsStep(k, k')
<1>1. Correct(k, Live) /\ Live \in SUBSET Task
  BY DEF KInv, KernelInv, Correct, Live
<1>2. Correct(k', Live') /\ Live' \in SUBSET Task
  BY DEF KInv, KernelInv, Correct, Live
<1>3. /\ LeavesAlone(ComObj \ O, k, Live, k', Live')
      /\ OneQueueMoves(ComObj \ O, k.wait_queue, k'.wait_queue)
  BY DEF Elsewhere
<1>4. \A q \in Dtq : q \in ComObj \ O
  BY DtqNames
<1>5. ASSUME NEW q \in Dtq,
             k'.wait_queue[q] = k.wait_queue[q] \/ Moved(k.wait_queue[q], k'.wait_queue[q])
      PROVE  ChannelStep(k, k', q) /\ (k'.wait_queue[q] = k.wait_queue[q] => SameChannel(k, k', q))
  <2>1. LeavesAlone({q}, k, Live, k', Live')
    BY <1>3, <1>4, LeavesAloneFewer
  <2>2. QED
    BY <1>1, <1>2, <1>5, <2>1, MovesInOrder
<1>6. CASE \A o \in ComObj \ O : k'.wait_queue[o] = k.wait_queue[o]
  BY <1>4, <1>5, <1>6 DEF ChannelsStep
<1>7. ASSUME NEW o \in ComObj \ O, Moved(k.wait_queue[o], k'.wait_queue[o]),
             \A x \in (ComObj \ O) \ {o} : k'.wait_queue[x] = k.wait_queue[x]
      PROVE  ChannelsStep(k, k')
  <2>1. \A r \in Dtq \ {o} : SameChannel(k, k', r)
    BY <1>4, <1>5, <1>7
  <2>2. o \in Dtq => ChannelStep(k, k', o)
    BY <1>5, <1>7
  <2>3. QED
    BY <2>1, <2>2 DEF ChannelsStep
<1>8. QED
  BY <1>3, <1>6, <1>7 DEF OneQueueMoves

\* What the calls for data queues do.
LEMMA DtqInOrder ==
  ASSUME KInv, DtqInv, DataQueueNext
  PROVE  ChannelsStep(k, k')
<1> DEFINE Goal == ChannelsStep(k, k')
<1>1. Task \in SUBSET Task
  OBVIOUS
<1>2. ASSUME NEW q \in Dtq, NEW e, k' = e, Correct(k, Task), AtQueue(k, Task, e, q), ChannelStep(k, e, q)
      PROVE  Goal
  <2>1. \A r \in Dtq \ {q} : SameChannel(k, e, r)
    BY <1>1, <1>2, OtherChannels
  <2>2. QED
    BY <1>2, <2>1 DEF ChannelsStep
<1> HIDE DEF Goal
<1>3. ASSUME TaskContext \/ IntContext
      PROVE  Correct(k, Task) /\ QueuesOK(k, Task) /\ Live = Task
  BY <1>3, CallFacts DEF DtqInv
<1>4. ASSUME NEW e, (TaskContext /\ TaskCall(e)) \/ (IntContext /\ IntCall(e)) PROVE k' = e
  BY <1>4 DEF TaskCall, IntCall
<1>5. ASSUME NEW q \in Dtq, NEW x \in Data, psnd_dtq(q, x) \/ ipsnd_dtq(q, x) PROVE Goal
  <2> DEFINE e == send_data(k, q, x)
  <2>1. ((TaskContext /\ TaskCall(e)) \/ (IntContext /\ IntCall(e))) /\ CanSend(k, q)
    BY <1>5 DEF psnd_dtq, ipsnd_dtq
  <2>2. Correct(k, Task) /\ QueuesOK(k, Task)
    BY <1>3, <2>1
  <2>3. AtQueue(k, Task, e, q)
    BY <1>1, <2>1, <2>2, Sends
  <2>4. SameChannel(k, e, q) \/ Put(k, e, q, x)
    BY <1>1, <2>1, <2>2, SendsInOrder
  <2> HIDE DEF e
  <2>5. ChannelStep(k, e, q)
    BY <2>4 DEF ChannelStep, Allowed, SameChannel, Put
  <2>6. QED
    BY <1>2, <1>4, <2>1, <2>2, <2>3, <2>5
<1>6. ASSUME NEW q \in Dtq, NEW x \in Data, fsnd_dtq(q, x) \/ ifsnd_dtq(q, x) PROVE Goal
  <2> DEFINE e == force_send_data(k, q, x)
  <2>1. ((TaskContext /\ TaskCall(e)) \/ (IntContext /\ IntCall(e))) /\ dtqcnt[q] > 0
    BY <1>6 DEF fsnd_dtq, ifsnd_dtq
  <2>2. Correct(k, Task) /\ QueuesOK(k, Task)
    BY <1>3, <2>1
  <2>3. AtQueue(k, Task, e, q)
    BY <1>1, <2>1, <2>2, ForcedSends
  <2>4. \/ SameChannel(k, e, q)
        \/ Put(k, e, q, x)
        \/ /\ Len(Buf(k, q)) = dtqcnt[q] /\ Pend(e, q) = Pend(k, q)
           /\ Buf(e, q) = Append(Tail(Buf(k, q)), x)
    BY <1>1, <2>1, <2>2, ForcedInOrder
  <2> HIDE DEF e
  <2>5. ChannelStep(k, e, q)
    BY <2>1, <2>4 DEF ChannelStep, Allowed, SameChannel, Put
  <2>6. QED
    BY <1>2, <1>4, <2>1, <2>2, <2>3, <2>5
<1>7. ASSUME NEW q \in Dtq, NEW x \in Data, NEW y \in Data,
             psnd_dtq_ndata(q, << x, y >>) \/ ipsnd_dtq_ndata(q, << x, y >>)
      PROVE  Goal
  <2> DEFINE e == send_all(k, q, << x, y >>).k
  <2>1. (TaskContext /\ TaskCall(e)) \/ (IntContext /\ IntCall(e))
    BY <1>7 DEF psnd_dtq_ndata, ipsnd_dtq_ndata
  <2>2. k.cb[q].count + 2 <= dtqcnt[q]
    BY <1>7 DEF psnd_dtq_ndata, ipsnd_dtq_ndata, HasRoom
  <2>3. Correct(k, Task) /\ QueuesOK(k, Task)
    BY <1>3, <2>1
  <2>4. AtQueue(k, Task, e, q)
    BY <1>1, <2>2, <2>3, SendsTwo
  <2>5. \/ SameChannel(k, e, q)
        \/ Put(k, e, q, y)
        \/ /\ Len(Buf(k, q)) + 2 <= dtqcnt[q]
           /\ Pend(k, q) = << >> /\ Pend(e, q) = << >>
           /\ Buf(e, q) = Append(Append(Buf(k, q), x), y)
    BY <1>1, <2>2, <2>3, SendsTwoInOrder
  <2> HIDE DEF e
  <2>6. ChannelStep(k, e, q)
    BY <2>5 DEF ChannelStep, Allowed, SameChannel, Put
  <2>7. QED
    BY <1>2, <1>4, <2>1, <2>3, <2>4, <2>6
<1>8. ASSUME NEW q \in Dtq, prcv_dtq(q) PROVE Goal
  <2> DEFINE e == receive_data(k, q)
  <2>1. ((TaskContext /\ TaskCall(e)) \/ (IntContext /\ IntCall(e))) /\ CanReceive(k, q)
    BY <1>8 DEF prcv_dtq
  <2>2. Correct(k, Task) /\ QueuesOK(k, Task)
    BY <1>3, <2>1
  <2>3. AtQueue(k, Task, e, q)
    BY <1>1, <2>1, <2>2, Receives
  <2>4. \/ /\ Buf(k, q) # << >> /\ Pend(k, q) = << >> /\ Pend(e, q) = << >>
           /\ Buf(e, q) = Tail(Buf(k, q))
        \/ /\ Buf(k, q) # << >> /\ Pend(k, q) # << >> /\ Pend(e, q) = Tail(Pend(k, q))
           /\ Buf(e, q) = Append(Tail(Buf(k, q)), Head(Pend(k, q)))
        \/ /\ Buf(k, q) = << >> /\ Pend(k, q) # << >> /\ Pend(e, q) = Tail(Pend(k, q))
           /\ Buf(e, q) = << >>
    BY <1>1, <2>1, <2>2, ReceivesInOrder
  <2> HIDE DEF e
  <2>5. ChannelStep(k, e, q)
    BY <2>4 DEF ChannelStep, Allowed
  <2>6. QED
    BY <1>2, <1>4, <2>1, <2>2, <2>3, <2>5
<1>9. ASSUME MayWait
      PROVE  Correct(k, Task) /\ QueuesOK(k, Task) /\ runtsk \in Task /\ IsRunnable(k, runtsk)
  BY <1>3, <1>9, CallFacts DEF MayWait
<1>10. ASSUME NEW q \in Dtq, NEW x \in Data, NEW timed \in BOOLEAN, snd_dtq(q, x, timed) PROVE Goal
  <2> DEFINE e == wobj_make_wait_with(k, runtsk, q, timed, x)
  <2>1. MayWait /\ WaitCall(e) /\ ~CanSend(k, q)
    BY <1>10 DEF snd_dtq
  <2>2. Correct(k, Task) /\ QueuesOK(k, Task) /\ runtsk \in Task /\ IsRunnable(k, runtsk)
    BY <1>9, <2>1
  <2>3. q \in ComObj
    BY DtqNames
  <2>4. Started(k, e, runtsk, q, x)
    BY <2>2, <2>3, Starts
  <2> HIDE DEF e
  <2>5. k' = e
    BY <2>1 DEF WaitCall
  <2>6. /\ Buf(e, q) = Buf(k, q)
        /\ \E i \in 1 .. Len(Pend(k, q)) + 1 : Pend(e, q) = InsertAt(Pend(k, q), i, x)
    BY <1>1, <2>2, <2>4, WaitsInOrder
  <2>7. Len(Buf(k, q)) = dtqcnt[q]
    <3>1. Len(Buf(k, q)) = k.cb[q].count /\ k.cb[q].count \in 0 .. dtqcnt[q] /\ dtqcnt[q] \in Nat
      BY <1>1, <2>2, ChannelFacts
    <3>2. QED
      BY <2>1, <3>1 DEF CanSend
  <2>8. ChannelStep(k, e, q)
    BY <2>6, <2>7 DEF ChannelStep, Allowed
  <2>9. \A r \in Dtq \ {q} : SameChannel(k, e, r)
    <3>1. ASSUME NEW r \in Dtq, r # q PROVE SameChannel(k, e, r)
      <4>1. Whole(k) /\ r \in Obj /\ r # NoObj /\ DOMAIN k.wait_queue = Obj
        BY <2>2, DtqNames, CorrectFields
      <4>2. e.cb[r] = k.cb[r] /\ e.wait_queue[r] = k.wait_queue[r]
        BY <2>4, <3>1, <4>1 DEF Started
      <4>3. \A u \in Task : k.wobj[u] = r => e.winfo[u] = k.winfo[u]
        BY <2>4, <4>1 DEF Started, Whole
      <4>4. QED
        BY <1>1, <2>2, <4>2, <4>3, ChannelUnchanged
    <3>2. QED
      BY <3>1
  <2>10. QED
    BY <2>5, <2>8, <2>9 DEF Goal, ChannelsStep
<1>11. ASSUME NEW q \in Dtq, NEW timed \in BOOLEAN, rcv_dtq(q, timed) PROVE Goal
  <2> DEFINE o == rwait[q]
             e == wobj_make_wait(k, runtsk, o, timed)
  <2>1. MayWait /\ WaitCall(e)
    BY <1>11 DEF rcv_dtq
  <2>2. Correct(k, Task) /\ runtsk \in Task /\ IsRunnable(k, runtsk)
    BY <1>9, <2>1
  <2>3. o \in ComObj /\ \A r \in Dtq : r # o /\ r \in Obj /\ r # NoObj
    BY DtqNames, DataQueueAssumption
  <2>4. Started(k, e, runtsk, o, k.winfo[runtsk])
    BY <2>2, <2>3, Starts
  <2> HIDE DEF e, o
  <2>5. k' = e
    BY <2>1 DEF WaitCall
  <2>6. ASSUME NEW r \in Dtq PROVE SameChannel(k, e, r)
    <3>1. Whole(k) /\ DOMAIN k.wait_queue = Obj
      BY <2>2, CorrectFields
    <3>2. e.cb[r] = k.cb[r] /\ e.wait_queue[r] = k.wait_queue[r]
      BY <2>3, <2>4, <3>1 DEF Started
    <3>3. \A u \in Task : k.wobj[u] = r => e.winfo[u] = k.winfo[u]
      BY <2>3, <2>4, <3>1 DEF Started, Whole
    <3>4. QED
      BY <1>1, <2>2, <3>2, <3>3, ChannelUnchanged
  <2>7. QED
    BY <2>5, <2>6 DEF Goal, ChannelsStep
<1>12. ASSUME k' = k PROVE Goal
  BY <1>12 DEF Goal, ChannelsStep, SameChannel
<1>13. ASSUME NEW q \in Dtq, ini_dtq(q) PROVE Goal
  BY <1>12, <1>13 DEF ini_dtq, LoopCall
<1>14. ASSUME ini_dtq_rwait PROVE Goal
  BY <1>12, <1>14 DEF ini_dtq_rwait
<1>15. ASSUME ini_dtq_end PROVE Goal
  <2>1. PICK q \in Dtq : /\ pc = "init_wait_queue" /\ frame.obj = rwait[q]
                         /\ LoopEnd([k EXCEPT !.cb[q] = EmptyRing(q)])
    BY <1>15 DEF ini_dtq_end
  <2> DEFINE b == EmptyRing(q)
             e == [k EXCEPT !.cb[q] = b]
  <2>2. Correct(k, Task) /\ Live = Task
    BY <2>1, IniLoop
  <2>3. q \in ComObj /\ q \in Obj
    BY DtqNames
  <2>4. Contents(b, dtqcnt[q]) = << >>
    BY ContentsEmpty
  <2>5. k' = e
    BY <2>1 DEF LoopEnd
  <2> HIDE DEF b
  <2>6. Written(k, e, q, b)
    BY <1>1, <2>2, <2>3, Writes
  <2> HIDE DEF e
  <2>7. \A t \in Task : k.wobj[t] # q
    BY <2>1 DEF DtqInv, DtqLoop
  <2>8. k.wait_queue[q] = << >>
    BY <1>1, <2>2, <2>3, <2>7, EmptyQueue
  <2>9. Pend(k, q) = << >> /\ Pend(e, q) = << >> /\ Buf(e, q) = << >>
    BY <2>4, <2>6, <2>8, NothingPending DEF Written, Buf
  <2>10. ChannelStep(k, e, q)
    BY <2>9 DEF ChannelStep, Allowed
  <2>11. \A r \in Dtq \ {q} : SameChannel(k, e, r)
    <3>1. \A r \in Dtq \ {q} : e.cb[r] = k.cb[r] /\ e.wait_queue[r] = k.wait_queue[r] /\ e.winfo = k.winfo
      BY <2>6, DtqNames DEF Written
    <3>2. QED
      BY <3>1 DEF SameChannel, Buf, Pend
  <2>12. QED
    BY <2>5, <2>10, <2>11 DEF Goal, ChannelsStep
<1>16. ASSUME init_wait_queue PROVE Goal
  <2>1. [Next]_vars
    BY <1>16 DEF Next, SemaphoreNext
  <2>2. PICK O : O = {}
    OBVIOUS
  <2>3. KInv' /\ Elsewhere(O) /\ O \cap DtqObj = {}
    BY <2>1, <2>2, KernelElsewhere
  <2>4. QED
    BY <2>3, ElsewhereInOrder DEF Goal
<1>17. Goal
  BY <1>5, <1>6, <1>7, <1>8, <1>10, <1>11, <1>13, <1>14, <1>15, <1>16 DEF DataQueueNext
<1>18. QED
  BY <1>17 DEF Goal

-----------------------------------------------------------------------------
\* The channels as module DataChannel sees them.
Bufs  == [q \in Dtq |-> Buf(k, q)]
Pends == [q \in Dtq |-> Pend(k, q)]

Changes(q, buf, pend) == Bufs' = [Bufs EXCEPT ![q] = buf] /\ Pends' = [Pends EXCEPT ![q] = pend]

LEMMA OneChannelChanges ==
  ASSUME NEW q \in Dtq, \A r \in Dtq \ {q} : SameChannel(k, k', r)
  PROVE  Changes(q, Buf(k', q), Pend(k', q)) /\ Bufs[q] = Buf(k, q) /\ Pends[q] = Pend(k, q)
<1>1. Bufs' = [r \in Dtq |-> Buf(k', r)] /\ Pends' = [r \in Dtq |-> Pend(k', r)]
  BY DEF Bufs, Pends, Buf, Pend
<1>2. \A r \in Dtq \ {q} : Buf(k', r) = Buf(k, r) /\ Pend(k', r) = Pend(k, r)
  BY DEF SameChannel
<1>3. Bufs' = [Bufs EXCEPT ![q] = Buf(k', q)]
  BY <1>1, <1>2 DEF Bufs
<1>4. Pends' = [Pends EXCEPT ![q] = Pend(k', q)]
  BY <1>1, <1>2 DEF Pends
<1>5. Bufs[q] = Buf(k, q) /\ Pends[q] = Pend(k, q)
  BY DEF Bufs, Pends
<1>6. QED
  BY <1>3, <1>4, <1>5 DEF Changes

\* The actions of module DataChannel.
LEMMA IsAccept ==
  ASSUME NEW q \in Dtq, NEW xs, Len(Bufs[q]) + Len(xs) <= dtqcnt[q], Pends[q] = << >>,
         Changes(q, Bufs[q] \o xs, << >>)
  PROVE  Channel!Accept(q, xs)
BY Zenon DEF Channel!Accept, Channel!Change, Changes, Bufs, Pends, Buf, Contents, Pend, Sent

LEMMA IsWait ==
  ASSUME NEW q \in Dtq, NEW x, NEW i, Len(Bufs[q]) = dtqcnt[q],
         Changes(q, Bufs[q], InsertAt(Pends[q], i, x))
  PROVE  Channel!Wait(q, x, i)
BY Zenon DEF Channel!Wait, Channel!Change, Channel!InsertAt, InsertAt,
             Changes, Bufs, Pends, Buf, Contents, Pend, Sent

LEMMA IsWithdraw ==
  ASSUME NEW q \in Dtq, NEW i, Changes(q, Bufs[q], RemoveAt(Pends[q], i))
  PROVE  Channel!Withdraw(q, i)
BY Zenon DEF Channel!Withdraw, Channel!Change, Channel!RemoveAt, RemoveAt,
             Changes, Bufs, Pends, Buf, Contents, Pend, Sent

LEMMA IsMove ==
  ASSUME NEW q \in Dtq, NEW i, NEW j,
         Changes(q, Bufs[q], InsertAt(RemoveAt(Pends[q], i), j, Pends[q][i]))
  PROVE  Channel!Move(q, i, j)
BY Zenon DEF Channel!Move, Channel!Change, Channel!InsertAt, Channel!RemoveAt, InsertAt, RemoveAt,
             Changes, Bufs, Pends, Buf, Contents, Pend, Sent

LEMMA IsTake ==
  ASSUME NEW q \in Dtq, Bufs[q] # << >>,
         \/ Pends[q] = << >> /\ Changes(q, Tail(Bufs[q]), << >>)
         \/ Pends[q] # << >> /\ Changes(q, Append(Tail(Bufs[q]), Head(Pends[q])), Tail(Pends[q]))
  PROVE  Channel!Take(q)
BY Zenon DEF Channel!Take, Channel!Change, Changes, Bufs, Pends, Buf, Contents, Pend, Sent

LEMMA IsTakeUnbuffered ==
  ASSUME NEW q \in Dtq, Bufs[q] = << >>, Pends[q] # << >>, Changes(q, << >>, Tail(Pends[q]))
  PROVE  Channel!TakeUnbuffered(q)
BY Zenon DEF Channel!TakeUnbuffered, Channel!Change, Changes, Bufs, Pends, Buf, Contents, Pend, Sent

LEMMA IsOverwrite ==
  ASSUME NEW q \in Dtq, NEW x, Len(Bufs[q]) = dtqcnt[q], dtqcnt[q] > 0,
         Changes(q, Append(Tail(Bufs[q]), x), Pends[q])
  PROVE  Channel!Overwrite(q, x)
BY Zenon DEF Channel!Overwrite, Channel!Change, Changes, Bufs, Pends, Buf, Contents, Pend, Sent

LEMMA IsReset ==
  ASSUME NEW q \in Dtq, Pends[q] = << >>, Changes(q, << >>, << >>)
  PROVE  Channel!Reset(q)
BY Zenon DEF Channel!Reset, Channel!Change, Changes, Bufs, Pends, Buf, Contents, Pend, Sent

\* Any of them is a step of module DataChannel.
LEMMA IsNext ==
  ASSUME NEW q \in Dtq,
         \/ \E x \in Data : \/ Channel!Accept(q, << x >>) \/ Channel!Overwrite(q, x)
                            \/ \E y \in Data : Channel!Accept(q, << x, y >>)
                            \/ \E i \in 1 .. Len(Pends[q]) + 1 : Channel!Wait(q, x, i)
         \/ \E i \in DOMAIN Pends[q] : \/ Channel!Withdraw(q, i)
                                       \/ \E j \in DOMAIN Pends[q] : Channel!Move(q, i, j)
         \/ Channel!Take(q) \/ Channel!TakeUnbuffered(q)
         \/ Channel!Reset(q)
  PROVE  Channel!Next
BY Zenon DEF Channel!Next, Pends, Pend, Sent

LEMMA AppendTwo ==
  ASSUME NEW S, NEW s \in Seq(S), NEW x \in S, NEW y \in S
  PROVE  Append(Append(s, x), y) = s \o << x, y >> /\ Len(<< x, y >>) = 2
OBVIOUS

LEMMA ChannelStepIsNext ==
  ASSUME NEW q \in Dtq, Buf(k, q) \in Seq(Data \cup {NoInfo}), ChannelStep(k, k', q),
         \A r \in Dtq \ {q} : SameChannel(k, k', r)
  PROVE  Channel!Next \/ UNCHANGED << Bufs, Pends >>
<1> DEFINE b == Bufs[q]
           p == Pends[q]
           n == dtqcnt[q]
<1>1. PICK b2, p2 : Allowed(n, b, p, b2, p2) /\ Changes(q, b2, p2)
  <2>1. /\ Changes(q, Buf(k', q), Pend(k', q)) /\ b = Buf(k, q) /\ p = Pend(k, q)
    BY OneChannelChanges
  <2>2. Allowed(n, b, p, Buf(k', q), Pend(k', q))
    BY <2>1 DEF ChannelStep
  <2>3. QED
    BY <2>1, <2>2
<1>2. b \in Seq(Data \cup {NoInfo})
  BY DEF Bufs
<1>3. CASE b2 = b /\ p2 = p
  <2>1. Bufs = [Bufs EXCEPT ![q] = b] /\ Pends = [Pends EXCEPT ![q] = p]
    BY DEF Bufs, Pends
  <2>2. QED
    BY <1>1, <1>3, <2>1 DEF Changes
<1> HIDE DEF b, p, n
<1>4. ASSUME Len(b) + 1 <= n, p = << >>, p2 = << >>, NEW x \in Data, b2 = Append(b, x) PROVE Channel!Next
  <2>1. b2 = b \o << x >> /\ Len(b) + Len(<< x >>) <= n
    <3>1. x \in Data \cup {NoInfo} /\ Len(<< x >>) = 1
      OBVIOUS
    <3>2. Append(b, x) = b \o << x >>
      BY <1>2, <3>1, AppendIsConcat
    <3>3. QED
      BY <1>4, <3>1, <3>2
  <2>2. Channel!Accept(q, << x >>)
    BY <1>1, <1>4, <2>1, IsAccept DEF b, p, n
  <2>3. QED
    BY <2>2, IsNext, Zenon
<1>5. ASSUME Len(b) + 2 <= n, p = << >>, p2 = << >>, NEW x \in Data, NEW y \in Data,
             b2 = Append(Append(b, x), y)
      PROVE  Channel!Next
  <2>1. b2 = b \o << x, y >> /\ Len(b) + Len(<< x, y >>) <= n
    BY <1>2, <1>5, AppendTwo
  <2>2. Channel!Accept(q, << x, y >>)
    BY <1>1, <1>5, <2>1, IsAccept DEF b, p, n
  <2>3. QED
    BY <2>2, IsNext, Zenon
<1>6. ASSUME Len(b) = n, b2 = b, NEW x \in Data, NEW i \in 1 .. Len(p) + 1, p2 = InsertAt(p, i, x)
      PROVE  Channel!Next
  <2>1. Channel!Wait(q, x, i)
    BY <1>1, <1>6, IsWait DEF b, p, n
  <2>2. QED
    BY <2>1, IsNext, Zenon DEF p
<1>7. ASSUME b2 = b, NEW i \in DOMAIN p, p2 = RemoveAt(p, i) PROVE Channel!Next
  <2>1. Channel!Withdraw(q, i)
    BY <1>1, <1>7, IsWithdraw DEF b, p
  <2>2. QED
    BY <2>1, IsNext, Zenon DEF p
<1>8. ASSUME b2 = b, NEW i \in DOMAIN p, NEW j \in DOMAIN p, p2 = InsertAt(RemoveAt(p, i), j, p[i])
      PROVE Channel!Next
  <2>1. Channel!Move(q, i, j)
    BY <1>1, <1>8, IsMove DEF b, p
  <2>2. QED
    BY <2>1, IsNext, Zenon DEF p
<1>9. ASSUME b # << >>,
             \/ p = << >> /\ b2 = Tail(b) /\ p2 = << >>
             \/ p # << >> /\ b2 = Append(Tail(b), Head(p)) /\ p2 = Tail(p)
      PROVE  Channel!Next
  <2>1. Channel!Take(q)
    BY <1>1, <1>9, IsTake DEF b, p
  <2>2. QED
    BY <2>1, IsNext, Zenon
<1>10. ASSUME b = << >>, p # << >>, b2 = << >>, p2 = Tail(p) PROVE Channel!Next
  <2>1. Channel!TakeUnbuffered(q)
    BY <1>1, <1>10, IsTakeUnbuffered DEF b, p
  <2>2. QED
    BY <2>1, IsNext, Zenon
<1>11. ASSUME Len(b) = n, n > 0, p2 = p, NEW x \in Data, b2 = Append(Tail(b), x) PROVE Channel!Next
  <2>1. Channel!Overwrite(q, x)
    BY <1>1, <1>11, IsOverwrite DEF b, p, n
  <2>2. QED
    BY <2>1, IsNext, Zenon
<1>12. ASSUME p = << >>, b2 = << >>, p2 = << >> PROVE Channel!Next
  <2>1. Channel!Reset(q)
    BY <1>1, <1>12, IsReset DEF b, p
  <2>2. QED
    BY <2>1, IsNext, Zenon
<1>13. QED
  BY <1>1, <1>3, <1>4, <1>5, <1>6, <1>7, <1>8, <1>9, <1>10, <1>11, <1>12 DEF Allowed

LEMMA ChannelsStepIsNext ==
  ASSUME \A q \in Dtq : Buf(k, q) \in Seq(Data \cup {NoInfo}), ChannelsStep(k, k')
  PROVE  Channel!Next \/ UNCHANGED << Bufs, Pends >>
<1>1. CASE \A q \in Dtq : SameChannel(k, k', q)
  <2>1. Bufs' = [r \in Dtq |-> Buf(k', r)] /\ Pends' = [r \in Dtq |-> Pend(k', r)]
    BY DEF Bufs, Pends, Buf, Pend
  <2>2. QED
    BY <1>1, <2>1 DEF SameChannel, Bufs, Pends
<1>2. QED
  BY <1>1, ChannelStepIsNext DEF ChannelsStep

-----------------------------------------------------------------------------
(***************************************************************************)
(* The invariant of all.                                                   *)
(***************************************************************************)
ComInv == KInv /\ FlagsOK(k, Live) /\ DtqInv /\ PdqInv /\ PoolInv

\* The kinds of objects have no object in common.
LEMMA KindsApart ==
  /\ Flg \cap DtqObj = {} /\ Flg \cap PdqObj = {} /\ Flg \cap Mpf = {}
  /\ DtqObj \cap PdqObj = {} /\ DtqObj \cap Mpf = {} /\ Mpf \cap PdqObj = {}
  /\ Flg \subseteq ComObj /\ DtqObj \subseteq ComObj /\ PdqObj \subseteq ComObj
  /\ Mpf \subseteq ComObj
<1>1. /\ Flg \subseteq ComObj /\ DtqObj \subseteq ComObj /\ PdqObj \subseteq ComObj
      /\ Mpf \subseteq ComObj
  BY EventFlagAssumption, DtqNames, PdqNames, MpfNames
<1>2. /\ Flg \cap DtqObj = {} /\ Flg \cap PdqObj = {} /\ Flg \cap Mpf = {}
  BY CommunicationAssumption DEF DtqObj, PdqObj
<1>3. DtqObj \cap PdqObj = {}
  BY CommunicationAssumption DEF DtqObj, PdqObj
<1>4. DtqObj \cap Mpf = {} /\ Mpf \cap PdqObj = {}
  BY CommunicationAssumption DEF DtqObj, PdqObj
<1>5. QED
  BY <1>1, <1>2, <1>3, <1>4

\* The control blocks at the start.
LEMMA FirstBlocks ==
  /\ \A f \in Flg : icb[f] = iflgptn[f]
  /\ \A q \in Dtq : icb[q] = EmptyRing(q)
  /\ \A p \in Pdq : icb[p] = NoPriData
  /\ \A p \in Mpf : icb[p] = EmptyPool(p)
<1>1. ASSUME NEW f \in Flg PROVE icb[f] = iflgptn[f]
  BY KindsApart DEF icb
<1>2. ASSUME NEW q \in Dtq PROVE icb[q] = EmptyRing(q)
  <2>1. q \in ComObj /\ q \notin Flg
    BY KindsApart, DtqNames
  <2>2. QED
    BY <2>1 DEF icb, idtq
<1>3. ASSUME NEW p \in Pdq PROVE icb[p] = NoPriData
  <2>1. p \in ComObj /\ p \in PdqObj
    BY PdqNames
  <2>2. p \notin Flg /\ p \notin Dtq
    BY <2>1, KindsApart DEF DtqObj
  <2>3. QED
    BY <2>1, <2>2 DEF icb, ipdq
<1>4. ASSUME NEW p \in Mpf PROVE icb[p] = EmptyPool(p)
  <2>1. p \in ComObj
    BY KindsApart
  <2>2. p \notin Flg /\ p \notin Dtq /\ p \notin Pdq
    BY KindsApart DEF DtqObj, PdqObj
  <2>3. QED
    BY <2>1, <2>2 DEF icb, impf
<1>5. QED
  BY <1>1, <1>2, <1>3, <1>4

LEMMA InitComInv == ComInit => ComInv
<1> SUFFICES ASSUME ComInit PROVE ComInv
  OBVIOUS
<1>1. k = InitKernel(isemcnt, icb) /\ InitContext /\ has = [t \in Task |-> {}]
  BY DEF ComInit
<1>2. k.cb = icb /\ \A t \in Task : k.wobj[t] = NoObj
  BY <1>1 DEF InitKernel
<1>3. icb = [o \in ComObj |-> icb[o]]
  BY DEF icb
<1>4. pc = "boot" /\ Live = Task
  BY <1>1 DEF InitContext, Live, Ending
<1>5. KInv
  <2>1. KernelInv({NoInfo}, {icb})
    <3>1. NoInfo \in {NoInfo} /\ icb \in {icb}
      OBVIOUS
    <3>2. QED
      BY <1>1, <3>1, InitEstablishesInv
  <2>2. HasBlocks(k)
    BY <1>2, <1>3 DEF HasBlocks
  <2>3. QED
    BY <2>1, <2>2 DEF KInv
<1>6. \A t \in Live : k.wobj[t] \notin ComObj
  BY <1>2, <1>4, ObjNames
<1>7. FlagsOK(k, Live)
  BY <1>6, KindsApart DEF FlagsOK
<1>8. DtqInv
  <2>1. ASSUME NEW q \in Dtq PROVE QueueOK(k, Live, q)
    <3>1. Ring(k.cb[q], dtqcnt[q])
      BY <1>2, FirstBlocks, RingEmpty
    <3>2. q \in ComObj /\ rwait[q] \in ComObj
      BY DtqNames
    <3>3. QED
      BY <1>6, <3>1, <3>2 DEF QueueOK
  <2>2. QED
    BY <1>4, <2>1 DEF DtqInv, QueuesOK, DtqLoop
<1>9. PdqInv
  <2>1. ASSUME NEW p \in Pdq PROVE PriQueueOK(k, Live, p)
    <3>1. p \in ComObj /\ pdqrwait[p] \in ComObj /\ pdqcnt[p] \in Nat
      BY PdqNames
    <3>2. Blocks(k.cb[p], pdqcnt[p])
      BY <1>2, <3>1, FirstBlocks, PriEmpty
    <3>3. QED
      BY <1>6, <3>1, <3>2 DEF PriQueueOK
  <2>2. QED
    BY <1>4, <2>1 DEF PdqInv, PriQueuesOK, PdqLoop
<1>10. PoolInv
  <2>1. ASSUME NEW p \in Mpf PROVE PoolAt(k, Live, p)
    <3>1. blkcnt[p] \in Nat /\ p \in ComObj
      BY MpfNames
    <3> DEFINE next == [b \in Blk(p) |-> INDEX_NULL]
    <3>2. next \in [0 .. blkcnt[p] - 1 -> Int]
      BY DEF Blk, INDEX_NULL
    <3>3. EmptyPool(p) = [fblkcnt |-> blkcnt[p], unused |-> 0, freelist |-> INDEX_NULL, next |-> next]
      BY DEF EmptyPool
    <3> HIDE DEF next
    <3>4. Pool(EmptyPool(p), blkcnt[p])
      BY <3>1, <3>2, <3>3, PoolEmpty
    <3>5. Pool(k.cb[p], blkcnt[p])
      BY <1>2, <3>4, FirstBlocks
    <3>6. QED
      BY <1>6, <3>1, <3>5 DEF PoolAt
  <2>2. Holders(has, k)
    <3>1. has \in [Task -> SUBSET (Mpf \X Nat)] /\ \A t \in Task : has[t] = {}
      BY <1>1
    <3>2. QED
      BY <3>1 DEF Holders
  <2>3. QED
    BY <2>1, <2>2 DEF PoolInv, PoolsOK
<1>11. QED
  BY <1>5, <1>7, <1>8, <1>9, <1>10 DEF ComInv

\* What happens elsewhere leaves the flags alone.
LEMMA FlagsElsewhere ==
  ASSUME FlagsOK(k, Live), NEW O, O \cap Flg = {}, Elsewhere(O)
  PROVE  FlagsOK(k', Live')
<1>1. LeavesAlone(ComObj \ O, k, Live, k', Live')
  BY DEF Elsewhere
<1>2. Flg \subseteq ComObj \ O
  BY KindsApart
<1>3. LeavesAlone(Flg, k, Live, k', Live')
  BY <1>1, <1>2, LeavesAloneFewer
<1>4. QED
  BY <1>3, FlagsLeftAlone

\* A step elsewhere serves nobody who waits for a flag.
LEMMA NoFlagGrants ==
  ASSUME NEW O, O \cap Flg = {}, Elsewhere(O)
  PROVE  FlagGrants
<1>1. Flg \subseteq ComObj \ O
  BY KindsApart
<1>2. GivesNothing(Flg)
  BY <1>1 DEF Elsewhere, GivesNothing
<1>3. QED
  BY <1>2, NothingGranted

LEMMA StepGrants ==
  ASSUME ComInv, [ComNext]_<< vars, has >>
  PROVE  [FlagGrants]_vars
<1> USE DEF ComInv
<1>1. CASE Next /\ UNCHANGED has
  <2>1. Elsewhere({})
    BY <1>1, KernelElsewhere
  <2>2. QED
    BY <2>1, NoFlagGrants
<1>2. CASE EventFlagNext /\ UNCHANGED has
  BY <1>2, FlagStep
<1>3. CASE DataQueueNext /\ UNCHANGED has
  BY <1>3, DtqStep, KindsApart, NoFlagGrants
<1>4. CASE PriDataQueueNext /\ UNCHANGED has
  BY <1>4, PdqStep, KindsApart, NoFlagGrants
<1>5. CASE ClientNext \/ (PoolNext /\ UNCHANGED has)
  BY <1>5, PoolStep, KindsApart, NoFlagGrants
<1>6. CASE UNCHANGED << vars, has >>
  BY <1>6
<1>7. QED
  BY <1>1, <1>2, <1>3, <1>4, <1>5, <1>6 DEF ComNext

LEMMA StepKeepsComInv ==
  ASSUME ComInv, [ComNext]_<< vars, has >>
  PROVE  ComInv'
<1> USE DEF ComInv
<1>1. ASSUME [Next]_vars, UNCHANGED has PROVE ComInv'
  <2>1. KInv' /\ Elsewhere({})
    BY <1>1, KernelElsewhere
  <2>2. PICK O : O = {}
    OBVIOUS
  <2>3. Elsewhere(O) /\ O \cap Flg = {} /\ O \cap DtqObj = {} /\ O \cap PdqObj = {} /\ O \cap Mpf = {}
    BY <2>1, <2>2
  <2>4. FlagsOK(k', Live')
    BY <2>3, FlagsElsewhere
  <2>5. DtqInv' /\ PdqInv' /\ PoolInv'
    BY <1>1, <2>3, DtqElsewhere, PdqElsewhere, PoolElsewhere
  <2>6. QED
    BY <2>1, <2>4, <2>5
<1>2. ASSUME EventFlagNext, UNCHANGED has PROVE ComInv'
  <2>1. KInv' /\ FlagsOK(k', Live') /\ Elsewhere(Flg)
    BY <1>2, FlagStep
  <2>2. DtqInv' /\ PdqInv' /\ PoolInv'
    BY <1>2, <2>1, KindsApart, DtqElsewhere, PdqElsewhere, PoolElsewhere
  <2>3. QED
    BY <2>1, <2>2
<1>3. ASSUME DataQueueNext, UNCHANGED has PROVE ComInv'
  <2>1. KInv' /\ DtqInv' /\ Elsewhere(DtqObj)
    BY <1>3, DtqStep
  <2>2. DtqObj \cap Flg = {} /\ DtqObj \cap PdqObj = {} /\ DtqObj \cap Mpf = {}
    BY KindsApart
  <2>3. FlagsOK(k', Live')
    BY <2>1, <2>2, FlagsElsewhere
  <2>4. PdqInv' /\ PoolInv'
    BY <1>3, <2>1, <2>2, PdqElsewhere, PoolElsewhere
  <2>5. QED
    BY <2>1, <2>3, <2>4
<1>4. ASSUME PriDataQueueNext, UNCHANGED has PROVE ComInv'
  <2>1. KInv' /\ PdqInv' /\ Elsewhere(PdqObj)
    BY <1>4, PdqStep
  <2>2. PdqObj \cap Flg = {} /\ PdqObj \cap DtqObj = {} /\ PdqObj \cap Mpf = {}
    BY KindsApart
  <2>3. FlagsOK(k', Live')
    BY <2>1, <2>2, FlagsElsewhere
  <2>4. DtqInv' /\ PoolInv'
    BY <1>4, <2>1, <2>2, DtqElsewhere, PoolElsewhere
  <2>5. QED
    BY <2>1, <2>3, <2>4
<1>5. ASSUME ClientNext \/ (PoolNext /\ UNCHANGED has) PROVE ComInv'
  <2>1. KInv' /\ PoolInv' /\ Elsewhere(Mpf)
    BY <1>5, PoolStep
  <2>2. Mpf \cap Flg = {} /\ Mpf \cap DtqObj = {} /\ Mpf \cap PdqObj = {}
    BY KindsApart
  <2>3. FlagsOK(k', Live')
    BY <2>1, <2>2, FlagsElsewhere
  <2>4. DtqInv' /\ PdqInv'
    BY <2>1, <2>2, DtqElsewhere, PdqElsewhere
  <2>5. QED
    BY <2>1, <2>3, <2>4
<1>6. CASE UNCHANGED << vars, has >>
  <2>1. [Next]_vars /\ UNCHANGED has
    BY <1>6
  <2>2. QED
    BY <1>1, <2>1
<1>7. CASE ComNext
  BY <1>1, <1>2, <1>3, <1>4, <1>5, <1>7 DEF ComNext
<1>8. QED
  BY <1>6, <1>7

LEMMA AlwaysComInv == ComSpec => []ComInv
<1>1. ComInv /\ [ComNext]_<< vars, has >> => ComInv'
  BY StepKeepsComInv
<1>2. QED
  BY <1>1, InitComInv, PTL DEF ComSpec

-----------------------------------------------------------------------------
\* The data is correct for the tasks that are not ending.
LEMMA LiveIsCorrect ==
  ASSUME KInv
  PROVE  Correct(k, Live) /\ Live \in SUBSET Task
<1>1. PICK I, C : KernelInv(I, C)
  BY DEF KInv
<1>2. DataInv(I, C, k, Live)
  BY <1>1 DEF KernelInv
<1>3. QED
  BY <1>2 DEF KInv, Correct, Live

LEMMA InvMeansNobody == ComInv => NobodyWaitsInVain
<1> SUFFICES ASSUME ComInv PROVE NobodyWaitsInVain
  OBVIOUS
<1>1. Correct(k, Live) /\ Live \in SUBSET Task
  BY LiveIsCorrect DEF ComInv
<1>2. ASSUME NEW o \in Obj, k.wait_queue[o] # << >> PROVE \E t \in Live : k.wobj[t] = o
  BY <1>1, <1>2, EmptyQueue
<1>3. ASSUME NEW o \in Obj, \A t \in Live : k.wobj[t] # o PROVE k.wait_queue[o] = << >>
  BY <1>1, <1>3, EmptyQueue
<1>4. NoSatisfiedWaiter
  BY DEF ComInv, FlagsOK, NoSatisfiedWaiter
<1>5. ASSUME NEW d \in Dtq
      PROVE  /\ k.wait_queue[rwait[d]] # << >> => k.cb[d].count = 0 /\ k.wait_queue[d] = << >>
             /\ k.wait_queue[d] # << >> => k.cb[d].count = dtqcnt[d]
  <2>1. QueueOK(k, Live, d) /\ d \in Obj /\ rwait[d] \in Obj
    BY DtqNames DEF ComInv, DtqInv, QueuesOK
  <2>2. ASSUME k.wait_queue[rwait[d]] # << >> PROVE k.cb[d].count = 0 /\ k.wait_queue[d] = << >>
    <3>1. PICK t \in Live : k.wobj[t] = rwait[d]
      BY <1>2, <2>1, <2>2
    <3>2. k.cb[d].count = 0 /\ \A u \in Live : k.wobj[u] # d
      BY <2>1, <3>1 DEF QueueOK
    <3>3. QED
      BY <1>3, <2>1, <3>2
  <2>3. ASSUME k.wait_queue[d] # << >> PROVE k.cb[d].count = dtqcnt[d]
    <3>1. PICK t \in Live : k.wobj[t] = d
      BY <1>2, <2>1, <2>3
    <3>2. QED
      BY <2>1, <3>1 DEF QueueOK
  <2>4. QED
    BY <2>2, <2>3
<1>6. ASSUME NEW p \in Pdq
      PROVE  /\ k.wait_queue[pdqrwait[p]] # << >> => k.cb[p].list = << >> /\ k.wait_queue[p] = << >>
             /\ k.wait_queue[p] # << >> => Len(k.cb[p].list) = pdqcnt[p]
  <2>1. PriQueueOK(k, Live, p) /\ p \in Obj /\ pdqrwait[p] \in Obj
    BY PdqNames DEF ComInv, PdqInv, PriQueuesOK
  <2>2. ASSUME k.wait_queue[pdqrwait[p]] # << >> PROVE k.cb[p].list = << >> /\ k.wait_queue[p] = << >>
    <3>1. PICK t \in Live : k.wobj[t] = pdqrwait[p]
      BY <1>2, <2>1, <2>2
    <3>2. k.cb[p].list = << >> /\ \A u \in Live : k.wobj[u] # p
      BY <2>1, <3>1 DEF PriQueueOK
    <3>3. QED
      BY <1>3, <2>1, <3>2
  <2>3. ASSUME k.wait_queue[p] # << >> PROVE Len(k.cb[p].list) = pdqcnt[p]
    <3>1. PICK t \in Live : k.wobj[t] = p
      BY <1>2, <2>1, <2>3
    <3>2. QED
      BY <2>1, <3>1 DEF PriQueueOK
  <2>4. QED
    BY <2>2, <2>3
<1>7. ASSUME NEW p \in Mpf, k.wait_queue[p] # << >> PROVE k.cb[p].fblkcnt = 0
  <2>1. PoolAt(k, Live, p) /\ p \in Obj
    BY MpfNames DEF ComInv, PoolInv, PoolsOK
  <2>2. PICK t \in Live : k.wobj[t] = p
    BY <1>2, <1>7, <2>1
  <2>3. QED
    BY <2>1, <2>2 DEF PoolAt
<1>8. QED
  BY <1>4, <1>5, <1>6, <1>7
     DEF NobodyWaitsInVain, NoNeedlessWait, NoNeedlessPriWait, NoWaitForFreeBlock

LEMMA InvMeansBuffers == ComInv => BuffersOK
<1> SUFFICES ASSUME ComInv PROVE BuffersOK
  OBVIOUS
<1>1. RingOK
  <2>1. ASSUME NEW d \in Dtq
        PROVE  LET b == k.cb[d]
                   used == {(b.head + i) % dtqcnt[d] : i \in 0 .. b.count - 1}
               IN  /\ b.count \in 0 .. dtqcnt[d]
                   /\ dtqcnt[d] > 0 => b.head \in DOMAIN b.mb /\ b.tail = (b.head + b.count) % dtqcnt[d]
                   /\ \A i \in DOMAIN b.mb : b.mb[i] \in Data <=> i \in used
    <3>1. Ring(k.cb[d], dtqcnt[d]) /\ dtqcnt[d] \in Nat
      BY DtqNames DEF ComInv, DtqInv, QueuesOK, QueueOK
    <3>2. QED
      BY <3>1, RingMeans
  <2>2. QED
    BY <2>1, Zenon DEF RingOK
<1>2. PriBlocksOK
  <2>1. ASSUME NEW p \in Pdq
        PROVE  LET b    == k.cb[p]
                   blks == [i \in DOMAIN b.list |-> b.list[i].blk] \o b.freelist
               IN  b.unused <= pdqcnt[p] /\ IsInjective(blks) /\ ToSet(blks) = 0 .. b.unused - 1
    <3>1. Blocks(k.cb[p], pdqcnt[p]) /\ pdqcnt[p] \in Nat
      BY PdqNames DEF ComInv, PdqInv, PriQueuesOK, PriQueueOK
    <3>2. QED
      BY <3>1, BlocksMean
  <2>2. QED
    BY <2>1, Zenon DEF PriBlocksOK
<1>3. PoolOK
  <2>1. ASSUME NEW p \in Mpf
        PROVE  LET b    == k.cb[p]
                   n    == b.fblkcnt - (blkcnt[p] - b.unused)
                   free == {ListBlock(b, i) : i \in 0 .. n - 1}
               IN  /\ b.unused \in 0 .. blkcnt[p] /\ n >= 0
                   /\ free \subseteq 0 .. b.unused - 1 /\ Cardinality(free) = n
                   /\ ListBlock(b, n) = INDEX_NULL
                   /\ \A blk \in 0 .. b.unused - 1 : blk \in free <=> b.next[blk] # INDEX_ALLOC
    <3>1. Pool(k.cb[p], blkcnt[p]) /\ blkcnt[p] \in Nat
      BY MpfNames DEF ComInv, PoolInv, PoolsOK, PoolAt
    <3>2. QED
      BY <3>1, PoolMeans
  <2>2. QED
    BY <2>1, Zenon DEF PoolOK
<1>4. QED
  BY <1>1, <1>2, <1>3 DEF BuffersOK

LEMMA InvMeansNdata == ComInv => NdataNeverFails
<1> SUFFICES ASSUME ComInv, NEW d \in Dtq, NEW x \in Data, NEW y \in Data, HasRoom(d, 2)
             PROVE  send_all(k, d, << x, y >>).ok
  BY DEF NdataNeverFails
<1>1. Correct(k, Live) /\ Live \in SUBSET Task /\ QueuesOK(k, Live)
  BY LiveIsCorrect DEF ComInv, DtqInv
<1>2. k.cb[d].count + 2 <= dtqcnt[d]
  BY DEF HasRoom
<1>3. send_all(k, d, << x, y >>).ok = TRUE
  BY <1>1, <1>2, SendsTwo
<1>4. QED
  BY <1>3

LEMMA InvMeansHolder == ComInv => OneHolder
BY DEF ComInv, PoolInv, Holders, InUse, OneHolder, IsAllocated

-----------------------------------------------------------------------------
(***************************************************************************)
(* The theorems.                                                           *)
(***************************************************************************)
\* Whatever calls, releases, timeouts and ends of tasks come together, nobody
\* is left waiting for an event that is there, for a datum or for room that a
\* queue has, or for a block that is free.
THEOREM Communication_NobodyWaitsInVain == ComSpec => []NobodyWaitsInVain
BY AlwaysComInv, InvMeansNobody, PTL

\* The indices of rings, the two lists of priority data and the lists of pools
\* always describe what is stored: nothing is lost, counted wrong or written
\* over.
THEOREM Communication_BuffersOK == ComSpec => []BuffersOK
BY AlwaysComInv, InvMeansBuffers, PTL

\* The assertions in psnd_dtq_ndata and ipsnd_dtq_ndata hold: when a queue has
\* room for two data, no receiver that is released on the way makes the second
\* send fail.
THEOREM Communication_NdataNeverFails == ComSpec => []NdataNeverFails
BY AlwaysComInv, InvMeansNdata, PTL

\* No block of a pool is ever given to a second task, or out again, while a
\* task has it.
THEOREM Communication_OneHolder == ComSpec => []OneHolder
BY AlwaysComInv, InvMeansHolder, PTL

LEMMA AlwaysFlagGrants == ComSpec => [][FlagGrants]_vars
<1>1. ComInv /\ [ComNext]_<< vars, has >> => [FlagGrants]_vars
  BY StepGrants
<1>2. QED
  BY <1>1, AlwaysComInv, PTL DEF ComSpec

\* Whoever is released by set_flg is told a pattern that satisfies his condition;
\* with TA_CLR he is the only one, and the pattern is cleared in the same step.
THEOREM Communication_ReleasedByItsCondition == ComSpec => ReleasedByItsCondition
<1> DEFINE A == \A f \in Flg, t \in Task : Granted(t, f) =>
                  /\ Satisfies(k'.winfo[t].flgptn, k.winfo[t])
                  /\ f \in ClrFlg => /\ k'.cb[f] = {}
                                     /\ \A u \in Task : Granted(u, f) => u = t
<1>1. [FlagGrants]_vars => [A]_vars
  BY DEF FlagGrants
<1>2. [][FlagGrants]_vars => [][A]_vars
  <2> HIDE DEF A
  <2>1. QED
    BY <1>1, PTL
<1>3. QED
  BY <1>2, AlwaysFlagGrants DEF ReleasedByItsCondition

\* The event of a TA_CLR flag goes to the first task of the queue that waits for it.
THEOREM Communication_FirstSatisfiedServed == ComSpec => FirstSatisfiedServed
<1> DEFINE A == \A f \in ClrFlg, t \in Task : Granted(t, f) =>
                  \A u \in Live : k.wobj[u] = f /\ Precedes(u, t, f)
                                    => ~Satisfies(k'.winfo[t].flgptn, k.winfo[u])
<1>1. [FlagGrants]_vars => [A]_vars
  BY EventFlagAssumption DEF FlagGrants
<1>2. [][FlagGrants]_vars => [][A]_vars
  <2> HIDE DEF A
  <2>1. QED
    BY <1>1, PTL
<1>3. QED
  BY <1>2, AlwaysFlagGrants DEF FirstSatisfiedServed

-----------------------------------------------------------------------------
\* The data queues as channels.
LEMMA InitIsChannel == ComInit => Channel!Init
<1> SUFFICES ASSUME ComInit PROVE Channel!Init
  OBVIOUS
<1>1. k.cb = icb /\ \A o \in Obj : k.wait_queue[o] = << >>
  BY DEF ComInit, InitKernel
<1>2. ASSUME NEW q \in Dtq PROVE Buf(k, q) = << >> /\ Pend(k, q) = << >>
  <2>1. k.cb[q] = EmptyRing(q) /\ k.wait_queue[q] = << >>
    BY <1>1, FirstBlocks, DtqNames
  <2>2. QED
    BY <2>1, ContentsEmpty, NothingPending DEF Buf
<1>3. Bufs = [q \in Dtq |-> << >>] /\ Pends = [q \in Dtq |-> << >>]
  BY <1>2 DEF Bufs, Pends
<1>4. QED
  BY <1>3, Zenon DEF Channel!Init, Bufs, Pends, Buf, Contents, Pend, Sent

LEMMA StepMovesChannels ==
  ASSUME ComInv, [ComNext]_<< vars, has >>
  PROVE  ChannelsStep(k, k')
<1>1. ComInv'
  BY StepKeepsComInv
<1>2. KInv /\ KInv' /\ DtqInv
  BY <1>1 DEF ComInv
<1>3. ASSUME NEW O, O \cap DtqObj = {}, Elsewhere(O) PROVE ChannelsStep(k, k')
  BY <1>2, <1>3, ElsewhereInOrder
<1>4. CASE [Next]_vars
  <2>1. PICK O : O = {}
    OBVIOUS
  <2>2. Elsewhere(O) /\ O \cap DtqObj = {}
    BY <1>2, <1>4, <2>1, KernelElsewhere
  <2>3. QED
    BY <1>3, <2>2
<1>5. CASE EventFlagNext /\ UNCHANGED has
  BY <1>3, <1>5, FlagStep, KindsApart DEF ComInv
<1>6. CASE DataQueueNext
  BY <1>2, <1>6, DtqInOrder
<1>7. CASE PriDataQueueNext /\ UNCHANGED has
  BY <1>3, <1>7, PdqStep, KindsApart DEF ComInv
<1>8. CASE ClientNext \/ (PoolNext /\ UNCHANGED has)
  BY <1>3, <1>8, PoolStep, KindsApart DEF ComInv
<1>9. QED
  BY <1>4, <1>5, <1>6, <1>7, <1>8 DEF ComNext

LEMMA StepIsChannel ==
  ASSUME ComInv, [ComNext]_<< vars, has >>
  PROVE  Channel!Next \/ UNCHANGED << Bufs, Pends >>
<1>1. Correct(k, Live) /\ Live \in SUBSET Task /\ QueuesOK(k, Live)
  BY LiveIsCorrect DEF ComInv, DtqInv
<1>2. \A q \in Dtq : Buf(k, q) \in Seq(Data \cup {NoInfo})
  BY <1>1, ChannelFacts
<1>3. ChannelsStep(k, k')
  BY StepMovesChannels
<1>4. QED
  BY <1>2, <1>3, ChannelsStepIsNext

\* The rings with the senders' WINFO are channels: nothing that is sent is lost,
\* doubled or overtaken, whatever the priorities of the senders do and whoever
\* gives up; only a forced send passes those who wait, and drops the oldest datum.
THEOREM Communication_ImplementsChannel == ComSpec => ImplementsChannel
<1>1. ComInit => Channel!Init
  BY InitIsChannel
<1>2. ComInv /\ [ComNext]_<< vars, has >>
        => [Channel!Next]_<< [d \in Dtq |-> [i \in 1 .. k.cb[d].count |->
                                k.cb[d].mb[(k.cb[d].head + i - 1) % dtqcnt[d]]]],
                             [d \in Dtq |-> [i \in DOMAIN k.wait_queue[d] |->
                                k.winfo[k.wait_queue[d][i]]]] >>
  <2> SUFFICES ASSUME ComInv, [ComNext]_<< vars, has >>, ~Channel!Next
               PROVE  UNCHANGED << [d \in Dtq |-> [i \in 1 .. k.cb[d].count |->
                                k.cb[d].mb[(k.cb[d].head + i - 1) % dtqcnt[d]]]],
                             [d \in Dtq |-> [i \in DOMAIN k.wait_queue[d] |->
                                k.winfo[k.wait_queue[d][i]]]] >>
    OBVIOUS
  <2>1. UNCHANGED << Bufs, Pends >>
    BY StepIsChannel
  <2>2. QED
    BY <2>1, Zenon DEF Bufs, Pends, Buf, Contents, Pend, Sent
<1>3. QED
  BY <1>1, <1>2, AlwaysComInv, PTL DEF ComSpec, ImplementsChannel, Channel!Spec
=============================================================================
