----------------------------- MODULE Dispatcher -----------------------------
(***************************************************************************)
(* Execution contexts: which task runs, the flags that allow a dispatch,   *)
(* the dispatcher and the idle loop, interrupt entry and exit              *)
(* (arch/arm_gcc/common/core_support.S, am1808/chip_support.S) and the     *)
(* services that change the flags (kernel/sys_manage.c, interrupt.c).      *)
(*                                                                         *)
(* A service call holds the CPU lock from its first access to the kernel's *)
(* data to its end, so it is one step; dispatch() is a step of its own,    *)
(* taken at pc = "dispatcher" with the lock still held, and so is every    *)
(* turn of the loops over wait queues and mutexes (modules Semaphore,      *)
(* Mutex and TaskManage), at the values of pc that name the loop.          *)
(* Interrupts are accepted between two calls, in the idle loop, and inside *)
(* handlers, up to MaxNest levels (the interrupt priority levels in use).  *)
(***************************************************************************)
EXTENDS WaitQueue

CONSTANTS MaxNest,    \* bound of excpt_nest_count
          Autostart   \* the tasks with the TA_ACT attribute

ASSUME DispatcherAssumption == MaxNest \in Nat /\ Autostart \subseteq Task

VARIABLES
  k,                  \* what the CPU lock protects (module WaitQueue)
  runtsk,             \* p_runtsk
  pc,                 \* where the code outside interrupt handlers stands
  frame,              \* the local variables of the loop that pc names
  disdsp, ipmflg, dspflg,  \* dispatch disabled, no interrupt masked, both
  reqflg,             \* a handler asks for the exit processing
  excpt_nest_count,
  locked              \* CPU locked by loc_cpu or iloc_cpu

flags == << disdsp, ipmflg, dspflg >>
vars  == << k, runtsk, pc, frame, disdsp, ipmflg, dspflg, reqflg,
            excpt_nest_count, locked >>

NoFrame == [tsk |-> NoTask, obj |-> NoObj, exits |-> FALSE, dspreq |-> FALSE]

PC == {"boot", "dispatcher", "idle", "task", "release_all", "init_wait_queue"}

-----------------------------------------------------------------------------
\* initialize_task and initialize_mutex; the TA_ACT tasks follow in Boot.
InitKernel(isemcnt, icb) ==
  [rq          |-> EmptyReadyQueue(ipriority),
   tstat       |-> [t \in Task |-> "DORMANT"],
   wobj        |-> [t \in Task |-> NoObj],
   tmevtb      |-> [t \in Task |-> FALSE],
   wercd       |-> [t \in Task |-> "E_OK"],
   winfo       |-> [t \in Task |-> NoInfo],
   bpriority   |-> ipriority,
   actque      |-> [t \in Task |-> FALSE],
   wupque      |-> [t \in Task |-> FALSE],
   waifbd      |-> [t \in Task |-> FALSE],
   wait_queue  |-> [o \in Obj |-> << >>],
   semcnt      |-> isemcnt,
   loctsk      |-> [m \in Mtx |-> NoTask],
   mutex_queue |-> [t \in Task |-> << >>],
   cb          |-> icb]

InitContext ==
  /\ runtsk = NoTask
  /\ pc = "boot"
  /\ frame = NoFrame
  /\ disdsp = FALSE /\ ipmflg = TRUE /\ dspflg = TRUE
  /\ reqflg = FALSE
  /\ excpt_nest_count = 1
  /\ locked = FALSE

\* initialize_task: the order of torder_table is any order.
ActivateAtBoot(t) ==
  /\ pc = "boot"
  /\ t \in Autostart /\ IsDormant(k, t)
  /\ k' = make_active(k, t)
  /\ UNCHANGED << runtsk, pc, frame, flags, reqflg, excpt_nest_count, locked >>

start_dispatch ==
  /\ pc = "boot"
  /\ \A t \in Autostart : ~IsDormant(k, t)
  /\ pc' = "dispatcher"
  /\ excpt_nest_count' = 0
  /\ UNCHANGED << k, runtsk, frame, flags, reqflg, locked >>

-----------------------------------------------------------------------------
(***************************************************************************)
(* The frames of service calls.  In each, k is changed by the call first.  *)
(***************************************************************************)
TaskContext == pc = "task" /\ excpt_nest_count = 0 /\ ~locked    \* CHECK_TSKCTX_UNL
MayWait     == TaskContext /\ dspflg                             \* CHECK_DISPATCH
\* Mutant: no service calls in the handlers that interrupt the idle loop.
IntContext_not_idle == ~locked /\ pc = "task" /\ excpt_nest_count >= 1

IntContext  == ~locked /\ \/ pc = "task" /\ excpt_nest_count >= 1 \* CHECK_INTCTX_UNL
                          \/ pc = "idle" /\ excpt_nest_count >= 2

\* Mutant: dispatches without looking at dspflg.
TaskCall_ignores_dspflg(result) ==
  /\ k' = result
  /\ pc' = IF NewSchedule(k.rq, k'.rq) THEN "dispatcher" ELSE "task"
  /\ UNCHANGED << runtsk, frame, flags, reqflg, excpt_nest_count, locked >>

\* A call of a task that dispatches when the ready queue says so.
TaskCall(result) ==
  /\ k' = result
  /\ pc' = IF dspflg /\ NewSchedule(k.rq, k'.rq) THEN "dispatcher" ELSE "task"
  /\ UNCHANGED << runtsk, frame, flags, reqflg, excpt_nest_count, locked >>

\* A call of a task that changes no schedule: no dispatch follows it.
PlainCall(result) ==
  /\ k' = result
  /\ UNCHANGED << runtsk, pc, frame, flags, reqflg, excpt_nest_count, locked >>

\* A call in which the running task starts to wait.
WaitCall(result) ==
  /\ k' = result
  /\ pc' = "dispatcher"
  /\ UNCHANGED << runtsk, frame, flags, reqflg, excpt_nest_count, locked >>

\* Mutant: a call that needs no dispatch takes an earlier request back.
IntCall_overwrites(result) ==
  /\ k' = result
  /\ reqflg' = (dspflg /\ NewSchedule(k.rq, k'.rq))
  /\ UNCHANGED << runtsk, pc, frame, flags, excpt_nest_count, locked >>

\* A call of an interrupt handler: the dispatch is left to the interrupt's exit.
IntCall(result) ==
  /\ k' = result
  /\ reqflg' = (reqflg \/ (dspflg /\ NewSchedule(k.rq, k'.rq)))
  /\ UNCHANGED << runtsk, pc, frame, flags, excpt_nest_count, locked >>

\* A call that goes on in the loop named by where.
LoopCall(result, where, locals) ==
  /\ k' = result
  /\ pc' = where
  /\ frame' = locals
  /\ UNCHANGED << runtsk, flags, reqflg, excpt_nest_count, locked >>

\* One turn of such a loop.
LoopTurn(result) ==
  /\ k' = result
  /\ frame' = [frame EXCEPT !.dspreq = @ \/ (dspflg /\ NewSchedule(k.rq, k'.rq))]
  /\ UNCHANGED << runtsk, pc, flags, reqflg, excpt_nest_count, locked >>

\* The end of such a call.
LoopEnd(result) ==
  /\ k' = result
  /\ pc' = IF \/ frame.exits
              \/ frame.dspreq
              \/ dspflg /\ NewSchedule(k.rq, k'.rq)
           THEN "dispatcher" ELSE "task"
  /\ frame' = NoFrame
  /\ UNCHANGED << runtsk, flags, reqflg, excpt_nest_count, locked >>

-----------------------------------------------------------------------------
(***************************************************************************)
(* The dispatcher.  A task that is resumed leaves its service call with    *)
(* the CPU lock released.  wercd and winfo are in the WINFO on the stack   *)
(* of that call and gone with it: the reset stands for the end of its life.*)
(***************************************************************************)
DispatchTask ==
  /\ pc = "dispatcher"
  /\ k.rq.schedtsk # NoTask
  /\ runtsk' = k.rq.schedtsk
  /\ k' = [k EXCEPT !.wercd[k.rq.schedtsk] = "E_OK", !.winfo[k.rq.schedtsk] = NoInfo]
  /\ pc' = "task"
  /\ locked' = FALSE
  /\ UNCHANGED << frame, flags, reqflg, excpt_nest_count >>

\* dispatcher_4: no task can run.  Nest count 1 keeps handlers from dispatching.
EnterIdle ==
  /\ pc = "dispatcher"
  /\ k.rq.schedtsk = NoTask
  /\ runtsk' = NoTask
  /\ pc' = "idle"
  /\ excpt_nest_count' = 1
  /\ locked' = FALSE
  /\ UNCHANGED << k, frame, flags, reqflg >>

\* dispatcher_5: the loop ends when a handler has set reqflg.
LeaveIdle ==
  /\ pc = "idle" /\ excpt_nest_count = 1
  /\ reqflg
  /\ reqflg' = FALSE
  /\ excpt_nest_count' = 0
  /\ pc' = "dispatcher"
  /\ UNCHANGED << k, runtsk, frame, flags, locked >>

irq_handler ==
  /\ pc \in {"task", "idle"} /\ ~locked
  /\ excpt_nest_count < MaxNest
  /\ excpt_nest_count' = excpt_nest_count + 1
  /\ UNCHANGED << k, runtsk, pc, frame, flags, reqflg, locked >>

\* In a handler, whether or not it left the CPU locked.
InHandler == \/ pc = "task" /\ excpt_nest_count >= 1
             \/ pc = "idle" /\ excpt_nest_count >= 2

\* ret_int, to a handler or the idle loop: a return and nothing else.
ret_int_nested ==
  /\ InHandler /\ excpt_nest_count > 1
  /\ excpt_nest_count' = excpt_nest_count - 1
  /\ locked' = FALSE
  /\ UNCHANGED << k, runtsk, pc, frame, flags, reqflg >>

\* Mutant: the interrupt returns to the task that it interrupted.
ret_int_task_no_dispatch ==
  /\ InHandler /\ excpt_nest_count = 1
  /\ excpt_nest_count' = 0
  /\ reqflg' = FALSE
  /\ locked' = FALSE
  /\ UNCHANGED << k, runtsk, pc, frame, flags >>

\* ret_int, to a task: reqflg is taken back, and the task may be preempted.
ret_int_task ==
  /\ InHandler /\ excpt_nest_count = 1
  /\ excpt_nest_count' = 0
  /\ reqflg' = FALSE
  /\ pc' = IF reqflg /\ dspflg /\ runtsk # k.rq.schedtsk THEN "dispatcher" ELSE "task"
  /\ locked' = FALSE
  /\ UNCHANGED << k, runtsk, frame, flags >>

-----------------------------------------------------------------------------
(***************************************************************************)
(* sys_manage.c and interrupt.c.                                           *)
(***************************************************************************)
dis_dsp ==
  /\ TaskContext
  /\ disdsp' = TRUE /\ dspflg' = FALSE
  /\ UNCHANGED << k, runtsk, pc, frame, ipmflg, reqflg, excpt_nest_count, locked >>

\* Mutant: the interrupt priority mask is forgotten.
ena_dsp_ignores_ipm ==
  /\ TaskContext
  /\ disdsp' = FALSE /\ dspflg' = TRUE
  /\ pc' = IF runtsk # k.rq.schedtsk THEN "dispatcher" ELSE "task"
  /\ UNCHANGED << k, runtsk, frame, ipmflg, reqflg, excpt_nest_count, locked >>

ena_dsp ==
  /\ TaskContext
  /\ disdsp' = FALSE
  /\ dspflg' = (dspflg \/ ipmflg)
  /\ pc' = IF ipmflg /\ runtsk # k.rq.schedtsk THEN "dispatcher" ELSE "task"
  /\ UNCHANGED << k, runtsk, frame, ipmflg, reqflg, excpt_nest_count, locked >>

\* chg_ipm(TIPM_ENAALL)
chg_ipm_enaall ==
  /\ TaskContext
  /\ ipmflg' = TRUE
  /\ dspflg' = (dspflg \/ ~disdsp)
  /\ pc' = IF ~disdsp /\ runtsk # k.rq.schedtsk THEN "dispatcher" ELSE "task"
  /\ UNCHANGED << k, runtsk, frame, disdsp, reqflg, excpt_nest_count, locked >>

\* chg_ipm with any other level.
chg_ipm_mask ==
  /\ TaskContext
  /\ ipmflg' = FALSE /\ dspflg' = FALSE
  /\ UNCHANGED << k, runtsk, pc, frame, disdsp, reqflg, excpt_nest_count, locked >>

\* loc_cpu and iloc_cpu; no other call is accepted until the lock is released.
lock_cpu ==
  /\ TaskContext \/ IntContext
  /\ locked' = TRUE
  /\ UNCHANGED << k, runtsk, pc, frame, flags, reqflg, excpt_nest_count >>

unlock_cpu ==
  /\ locked
  /\ pc = "task" \/ InHandler
  /\ locked' = FALSE
  /\ UNCHANGED << k, runtsk, pc, frame, flags, reqflg, excpt_nest_count >>

\* TPRI_SELF names the base priority of the running task.
rot_rdq(pri) == TaskContext /\ TaskCall([k EXCEPT !.rq = rotate_ready_queue(@, pri)])

rot_rdq_self ==
  /\ TaskContext
  /\ TaskCall([k EXCEPT !.rq = rotate_ready_queue(@, k.bpriority[runtsk])])

irot_rdq(pri) == IntContext /\ IntCall([k EXCEPT !.rq = rotate_ready_queue(@, pri)])

-----------------------------------------------------------------------------
\* init_wait_queue of wait.c: one turn ends the wait of the first waiter.
init_wait_queue ==
  /\ pc = "init_wait_queue"
  /\ k.wait_queue[frame.obj] # << >>
  /\ LoopTurn(end_wait(queue_delete_next(k, frame.obj),
                       Head(k.wait_queue[frame.obj]), "E_DLT"))

-----------------------------------------------------------------------------
BootNext == (\E t \in Task : ActivateAtBoot(t)) \/ start_dispatch

\* What the processor does on its own account.
ProcessorNext ==
  \/ BootNext
  \/ DispatchTask \/ EnterIdle \/ LeaveIdle
  \/ irq_handler \/ ret_int_nested \/ ret_int_task

FlagNext ==
  \/ dis_dsp \/ ena_dsp \/ chg_ipm_enaall \/ chg_ipm_mask
  \/ lock_cpu \/ unlock_cpu

RotateNext == \/ \E pri \in Pri : rot_rdq(pri) \/ irot_rdq(pri)
              \/ rot_rdq_self

-----------------------------------------------------------------------------
(***************************************************************************)
(* Terms in which the modules of the objects state their properties.       *)
(***************************************************************************)
\* The task whose end is under way: unlinked, but not yet dormant.
Ending == IF pc = "release_all" THEN {frame.tsk} ELSE {}
Live   == Task \ Ending

\* t is given what it waits for at o (and not ended by ter_tsk).
Granted(t, o) ==
  t \in Live /\ k.wobj[t] = o /\ k'.wobj[t] # o /\ k'.wercd[t] = "E_OK"

\* t waits at o, and u came later or has not come yet.
Precedes(t, u, o) ==
  /\ k.wobj[t] = o
  /\ k.wobj[u] = o =>
       \E i, j \in DOMAIN k.wait_queue[o] :
          i < j /\ k.wait_queue[o][i] = t /\ k.wait_queue[o][j] = u
=============================================================================
