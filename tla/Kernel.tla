-------------------------------- MODULE Kernel --------------------------------
(***************************************************************************)
(* The kernel: task management, task synchronization, semaphores, mutexes, *)
(* timeouts, interrupts and the dispatcher, over the data that they share. *)
(* Any task, and any handler, may make any call that its context allows.   *)
(***************************************************************************)
EXTENDS TaskManage, TaskSync, Semaphore

Init == k = InitKernel(isemcnt, [o \in ComObj |-> NoInfo]) /\ InitContext

Next ==
  \/ ProcessorNext
  \/ FlagNext
  \/ RotateNext
  \/ TaskManageNext
  \/ SleepNext \/ ReleaseNext \/ SuspendNext \/ ForbidNext
  \/ TimeoutNext
  \/ SemaphoreNext
  \/ MutexNext

Spec == Init /\ [][Next]_vars

-----------------------------------------------------------------------------
FrameType == [tsk : Task \cup {NoTask}, obj : Obj \cup {NoObj},
              exits : BOOLEAN, dspreq : BOOLEAN]

\* Every field of the kernel's data and every context variable has its type.
TypeOK ==
  /\ k \in [rq : ReadyQueueType,
            tstat : [Task -> TStat], wobj : [Task -> WaitKind],
            tmevtb : [Task -> BOOLEAN], wercd : [Task -> ErCd],
            bpriority : [Task -> Pri],
            actque : [Task -> BOOLEAN], wupque : [Task -> BOOLEAN],
            waifbd : [Task -> BOOLEAN],
            wait_queue : [Obj -> Seq(Task)],
            semcnt : [Sem -> Nat],
            loctsk : [Mtx -> Task \cup {NoTask}],
            mutex_queue : [Task -> Seq(Mtx)],
            winfo : [Task -> {NoInfo}], cb : [ComObj -> {NoInfo}]]
  /\ runtsk \in Task \cup {NoTask}
  /\ pc \in PC
  /\ frame \in FrameType
  /\ disdsp \in BOOLEAN /\ ipmflg \in BOOLEAN /\ dspflg \in BOOLEAN
  /\ reqflg \in BOOLEAN /\ locked \in BOOLEAN
  /\ excpt_nest_count \in 0 .. MaxNest + 1

-----------------------------------------------------------------------------
(***************************************************************************)
(* Dispatching.                                                            *)
(***************************************************************************)
\* Between two calls the running task is the one of the highest precedence,
\* unless dispatching is disabled: no call, and no way out of an interrupt,
\* forgets a dispatch (and loc_mtx is right not to look for one).
RunsSchedtsk ==
  pc = "task" /\ excpt_nest_count = 0 /\ dspflg => runtsk = k.rq.schedtsk

\* While a handler runs, or the idle loop, a task that should run instead has
\* been announced by reqflg: the exit of the interrupt, or the loop, sees it.
NoLostRequest ==
  /\ pc = "task" /\ dspflg /\ runtsk # k.rq.schedtsk => reqflg
  /\ pc = "idle" /\ k.rq.schedtsk # NoTask => reqflg

\* The dispatcher is entered with dispatching enabled, outside interrupts, and
\* with no request pending; the idle loop is never entered with it disabled.
DispatchAllowed ==
  /\ pc = "dispatcher" => dspflg /\ excpt_nest_count = 0 /\ ~reqflg
  /\ pc = "idle" => dspflg /\ excpt_nest_count >= 1
  /\ pc = "task" /\ excpt_nest_count = 0 => ~reqflg

\* dspflg caches what disdsp and ipmflg say, after any sequence of dis_dsp,
\* ena_dsp, chg_ipm and ext_tsk.
DspflgExact == dspflg <=> ~disdsp /\ ipmflg

\* The code outside handlers belongs to a task that can run.
RunningIsRunnable == pc = "task" => runtsk \in Task /\ IsRunnable(k, runtsk)

DispatchInv == RunsSchedtsk /\ NoLostRequest /\ DispatchAllowed /\ DspflgExact

\* The ready queue, its bitmap and p_schedtsk agree with the task states.
ReadyQueueOK == ReadyQueueInv(k.rq, RunnableTasks(k) \ Ending)

-----------------------------------------------------------------------------
(***************************************************************************)
(* Waiting.                                                                *)
(***************************************************************************)
\* The wait queues agree with the task states and with the priorities.
WaitQueuesOK == WaitQueueInv(k, Live)

\* Nobody waits for a semaphore that has a unit left, and the count never
\* exceeds its maximum, whatever ini_sem, timeouts and releases do.
NoIdleUnit ==
  \A s \in Sem : /\ k.semcnt[s] <= maxsem[s]
                 /\ k.semcnt[s] > 0 => k.wait_queue[s] = << >>

\* A task that is dormant has left nothing behind: no request, no timeout, no
\* mutex, no raised priority.
DormantIsClean ==
  \A t \in Task : IsDormant(k, t) =>
    /\ ~k.actque[t] /\ ~k.wupque[t] /\ ~k.waifbd[t] /\ ~k.tmevtb[t]
    /\ k.mutex_queue[t] = << >>
    /\ k.bpriority[t] = ipriority[t] /\ k.rq.priority[t] = ipriority[t]

\* A queued wakeup is used before the task sleeps: no task sleeps over one.
NoSleepOverWakeup == \A t \in Task : k.wobj[t] = "SLP" => ~k.wupque[t] \/ t \in Ending

-----------------------------------------------------------------------------
(***************************************************************************)
(* Mutexes.                                                                *)
(***************************************************************************)
\* A mutex is in the list of its owner, once, and of no other task.
OneOwner ==
  /\ \A m \in Mtx, t \in Task : m \in HeldBy(k, t) <=> k.loctsk[m] = t
  /\ \A t \in Task : IsInjective(k.mutex_queue[t])

\* Nobody waits for a free mutex, or for one of its own.
NoWaitForFreeMutex ==
  \A m \in Mtx : \A i \in DOMAIN k.wait_queue[m] :
     k.loctsk[m] \notin {NoTask, k.wait_queue[m][i]}

\* The current priority of a task is the highest of its base priority and the
\* ceilings of the mutexes it owns, though mutex.c only adjusts it step by step.
PriorityIsCeiling ==
  \A t \in Live : k.rq.priority[t] = mutex_calc_priority(k, t)

\* No owner of a ceiling mutex, and no waiter, has a base priority above it.
CeilingRespected ==
  \A m \in CeilMtx, t \in Live :
     m \in HeldBy(k, t) \/ k.wobj[t] = m => ceilpri[m] <= k.bpriority[t]

-----------------------------------------------------------------------------
\* The kernel's data stay consistent, all at once: queues with task states and
\* priorities, owners with their lists, current priorities with ceilings,
\* counts with waiters, dormant tasks with their initial state, and the
\* running task with the schedule.
SyncInv == /\ WaitQueuesOK /\ NoIdleUnit
           /\ OneOwner /\ PriorityIsCeiling
           /\ DormantIsClean /\ RunsSchedtsk

-----------------------------------------------------------------------------
(***************************************************************************)
(* Steps.                                                                  *)
(***************************************************************************)
\* An object with the attribute TA_TPRI serves a waiter of the highest current
\* priority, whatever changes of priority there were since it queued.
GrantByPriority ==
  [][\A o \in TPriObj, t, u \in Task :
       Granted(t, o) /\ k.wobj[u] = o /\ u \in Live => k.rq.priority[t] <= k.rq.priority[u]]_vars

\* An object without it serves its waiters in the order in which they came:
\* nobody gets past a task that still waits, neither when it queues, nor by a
\* change of priority, nor when the object is released.
GrantInOrder ==
  [][\A o \in Obj \ TPriObj : \A t, u \in Live \cap Live' :
       t # u /\ Precedes(t, u, o) /\ k'.wobj[t] = o
         => Precedes(t, u, o)' /\ ~Granted(u, o)]_vars

-----------------------------------------------------------------------------
(***************************************************************************)
(* Progress.  Of tasks nothing is assumed.  The kernel's own code runs on, *)
(* a handler returns although others interrupt it, the idle loop gets to   *)
(* its test of reqflg, and the timer interrupts, and finds the timeouts    *)
(* that have expired, again and again.                                     *)
(***************************************************************************)
LoopNext == \/ init_wait_queue \/ ini_sem_end \/ ini_mtx_end
            \/ mutex_release_all \/ end_of_task

HandlerReturns(level) ==
  excpt_nest_count = level /\ (ret_int_nested \/ ret_int_task)

Fairness ==
  /\ WF_vars(BootNext) /\ WF_vars(DispatchTask) /\ WF_vars(EnterIdle)
  /\ WF_vars(LoopNext)
  /\ SF_vars(LeaveIdle)
  /\ \A level \in 1 .. MaxNest : SF_vars(HandlerReturns(level))
  /\ SF_vars(irq_handler)
  /\ \A t \in Task : SF_vars(wait_tmout(t))

\* The task of the highest precedence runs in the end, or loses its place, or
\* dispatching is disabled: no path of the idle loop or of interrupts loses it.
HighestRuns ==
  \A t \in Task : k.rq.schedtsk = t /\ dspflg ~>
     \/ pc = "task" /\ runtsk = t
     \/ k.rq.schedtsk # t
     \/ ~dspflg

\* A wait with a timeout ends, whatever happens to the task and to the object.
TimedWaitEnds == \A t \in Task : k.tmevtb[t] ~> ~k.tmevtb[t]

\* The calls that loop over a wait queue or over the mutexes of a task end.
LoopsEnd == pc \in {"release_all", "init_wait_queue"} ~> pc \in {"task", "dispatcher"}
=============================================================================
