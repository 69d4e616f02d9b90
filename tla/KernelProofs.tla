---------------------------- MODULE KernelProofs ----------------------------
(***************************************************************************)
(* The invariants of module Kernel, for any tasks, priorities, semaphores, *)
(* mutexes and depth of interrupts.                                        *)
(*                                                                         *)
(* The data invariant of module CallProofs is joined by what holds of the  *)
(* context: which task runs, and who will notice that another one should.  *)
(* Each frame of a call (TaskCall, IntCall, LoopTurn, ...) keeps the two   *)
(* together for any result that is correct data, so that a call only has   *)
(* to be known by what it does to the data.                                *)
(***************************************************************************)
EXTENDS CallProofs

\* What holds of the variables outside k.
ContextInv ==
  /\ runtsk \in Task \cup {NoTask} /\ pc \in PC /\ frame \in FrameType
  /\ disdsp \in BOOLEAN /\ ipmflg \in BOOLEAN /\ dspflg \in BOOLEAN
  /\ reqflg \in BOOLEAN /\ locked \in BOOLEAN
  /\ excpt_nest_count \in 0 .. MaxNest + 1
  /\ DispatchInv
  /\ RunningIsRunnable
  /\ pc = "boot" => dspflg /\ ~reqflg /\ runtsk = NoTask

Looping == pc \in {"release_all", "init_wait_queue"}

\* In a call that loops, dspreq remembers every change of p_schedtsk, and the
\* task that ends in the loop is unlinked already.
LoopInv ==
  Looping =>
    /\ excpt_nest_count = 0 /\ ~reqflg
    /\ frame.exits \/ frame.dspreq => dspflg
    /\ dspflg /\ ~frame.exits /\ ~frame.dspreq => runtsk = k.rq.schedtsk
    /\ ~frame.exits => runtsk \in Task /\ IsRunnable(k, runtsk)
    /\ pc = "release_all" => /\ frame.tsk \in Task /\ ~IsDormant(k, frame.tsk)
                             /\ ~k.tmevtb[frame.tsk]
                             /\ ~frame.exits => runtsk # frame.tsk
    /\ pc = "init_wait_queue" => frame.obj \in Obj /\ ~frame.exits

\* The inductive invariant, for any WINFOs in I and control blocks in C; the
\* kernel without communication objects has none.
KernelInv(I, C) == DataInv(I, C, k, Live) /\ ContextInv /\ LoopInv

IInv == KernelInv({NoInfo}, [ComObj -> {NoInfo}])

-----------------------------------------------------------------------------
(***************************************************************************)
(* What the invariant says in each context.                                *)
(***************************************************************************)
\* p_schedtsk is a runnable task, and NULL only when there is none.
LEMMA Schedtsk ==
  ASSUME NEW I, NEW C,
         NEW d, NEW L \in SUBSET Task, DataInv(I, C, d, L)
  PROVE  /\ d.rq.schedtsk \in Task \cup {NoTask}
         /\ d.rq.schedtsk # NoTask => d.rq.schedtsk \in L /\ IsRunnable(d, d.rq.schedtsk)
         /\ d.rq.schedtsk = NoTask => \A t \in L : ~IsRunnable(d, t)
<1>1. d.rq \in ReadyQueueType /\ ReadyQueueInv(d.rq, RunnableTasks(d) \cap L)
  BY DataTypes DEF DataInv, QueuesInv
<1> DEFINE R == RunnableTasks(d) \cap L
<1>2. R \in SUBSET Task
  OBVIOUS
<1>3. \A t \in R : t \in L /\ IsRunnable(d, t)
  BY DEF RunnableTasks
<1>4. \A t \in L : IsRunnable(d, t) => t \in R
  BY DEF RunnableTasks
<1> HIDE DEF R
<1>5. ReadyQueueInv(d.rq, R)
  BY <1>1 DEF R
<1>6. /\ d.rq.schedtsk # NoTask => d.rq.schedtsk \in R
      /\ d.rq.schedtsk = NoTask => R = {}
  BY <1>1, <1>2, <1>5, SchedtskIsRunnable
<1>7. QED
  BY <1>1, <1>3, <1>4, <1>6 DEF ReadyQueueType

\* While no task ends, the data is correct for all.
LEMMA InvData ==
  ASSUME NEW I, NEW C,
         KernelInv(I, C), pc # "release_all"
  PROVE  DataInv(I, C, k, Task) /\ Live = Task
  BY DEF KernelInv, Live, Ending

\* The running task in its own code or interrupted.
LEMMA InTask ==
  ASSUME NEW I, NEW C,
         KernelInv(I, C), pc = "task"
  PROVE  /\ DataInv(I, C, k, Task) /\ runtsk \in Task /\ runtsk # NoTask
         /\ IsRunnable(k, runtsk) /\ ~IsDormant(k, runtsk)
         /\ excpt_nest_count = 0 => ~reqflg /\ (dspflg => runtsk = k.rq.schedtsk)
  BY InvData, NoTaskAssumption
     DEF KernelInv, ContextInv, RunningIsRunnable, DispatchInv, DispatchAllowed, RunsSchedtsk,
         IsRunnable, IsDormant

-----------------------------------------------------------------------------
(***************************************************************************)
(* The frames of service calls.                                            *)
(***************************************************************************)
\* A call that dispatches when p_schedtsk changes.
LEMMA TaskCallKeeps ==
  ASSUME NEW I, NEW C,
         KernelInv(I, C), TaskContext, NEW result, DataInv(I, C, result, Task),
         dspflg \/ IsRunnable(result, runtsk), TaskCall(result)
  PROVE  KernelInv(I, C)'
<1>1. /\ DataInv(I, C, k, Task) /\ runtsk \in Task /\ runtsk # NoTask /\ ~reqflg
      /\ dspflg => runtsk = k.rq.schedtsk
  BY InTask DEF TaskContext
<1>2. k' = result /\ pc' \in {"task", "dispatcher"}
  BY DEF TaskCall
<1>3. (DataInv(I, C, k, Live))'
  BY <1>2 DEF Live, Ending
<1>4. pc' = "task" /\ dspflg => runtsk = result.rq.schedtsk
  BY <1>1, <1>2 DEF TaskCall, NewSchedule
<1>5. pc' = "task" => IsRunnable(result, runtsk)
  BY <1>1, <1>4, Schedtsk
<1>6. pc' = "dispatcher" => dspflg
  BY DEF TaskCall
<1>7. ContextInv'
  <2>1. /\ runtsk' = runtsk /\ frame' = frame /\ disdsp' = disdsp /\ ipmflg' = ipmflg
        /\ dspflg' = dspflg /\ reqflg' = reqflg /\ locked' = locked
        /\ excpt_nest_count' = excpt_nest_count /\ excpt_nest_count = 0
    BY DEF TaskCall, TaskContext, flags
  <2>2. (RunningIsRunnable)'
    BY <1>1, <1>2, <1>5, <2>1 DEF RunningIsRunnable
  <2>3. (DispatchInv)'
    BY <1>1, <1>2, <1>4, <1>6, <2>1
       DEF KernelInv, ContextInv, DispatchInv, RunsSchedtsk, NoLostRequest, DispatchAllowed,
           DspflgExact
  <2>4. QED
    BY <1>2, <2>1, <2>2, <2>3 DEF KernelInv, ContextInv, PC
<1>8. LoopInv'
  BY <1>2 DEF LoopInv, Looping
<1>9. QED
  BY <1>3, <1>7, <1>8 DEF KernelInv

\* A call that changes no schedule; a handler may make it too.
LEMMA PlainCallKeeps ==
  ASSUME NEW I, NEW C,
         KernelInv(I, C), pc \in {"task", "idle"}, NEW result, DataInv(I, C, result, Task),
         \A t \in Task : IsRunnable(k, t) => IsRunnable(result, t),
         \/ result.rq.schedtsk = k.rq.schedtsk
         \/ /\ TaskContext
            /\ k.rq.schedtsk = runtsk => result.rq.schedtsk = runtsk,
         PlainCall(result)
  PROVE  KernelInv(I, C)'
<1>1. /\ \/ result.rq.schedtsk = k.rq.schedtsk
         \/ pc = "task" /\ excpt_nest_count = 0 /\ ~reqflg
      /\ k.rq.schedtsk = runtsk => result.rq.schedtsk = runtsk
  BY InTask DEF TaskContext
<1>2. k' = result /\ pc' = pc /\ pc \in {"task", "idle"}
  BY DEF PlainCall
<1>3. (DataInv(I, C, k, Live))'
  BY <1>2 DEF Live, Ending
<1>4. ContextInv'
  <2>1. /\ runtsk' = runtsk /\ frame' = frame /\ disdsp' = disdsp /\ ipmflg' = ipmflg
        /\ dspflg' = dspflg /\ reqflg' = reqflg /\ locked' = locked
        /\ excpt_nest_count' = excpt_nest_count
    BY DEF PlainCall, flags
  <2>2. (RunningIsRunnable)'
    BY <1>2, <2>1 DEF KernelInv, ContextInv, RunningIsRunnable
  <2>3. (DispatchInv)'
    BY <1>1, <1>2, <2>1
       DEF KernelInv, ContextInv, DispatchInv, RunsSchedtsk, NoLostRequest, DispatchAllowed,
           DspflgExact
  <2>4. QED
    BY <1>2, <2>1, <2>2, <2>3 DEF KernelInv, ContextInv
<1>5. LoopInv'
  BY <1>2 DEF LoopInv, Looping
<1>6. QED
  BY <1>3, <1>4, <1>5 DEF KernelInv

\* A call in which the running task stops being runnable.
LEMMA WaitCallKeeps ==
  ASSUME NEW I, NEW C,
         KernelInv(I, C), MayWait, NEW result, DataInv(I, C, result, Task), WaitCall(result)
  PROVE  KernelInv(I, C)'
<1>1. k' = result /\ pc' = "dispatcher" /\ dspflg /\ pc = "task" /\ excpt_nest_count = 0
  BY DEF WaitCall, MayWait, TaskContext
<1>2. ~reqflg
  BY <1>1, InTask
<1>3. (DataInv(I, C, k, Live))'
  BY <1>1 DEF Live, Ending
<1>4. ContextInv'
  <2>1. /\ runtsk' = runtsk /\ frame' = frame /\ disdsp' = disdsp /\ ipmflg' = ipmflg
        /\ dspflg' = dspflg /\ reqflg' = reqflg /\ locked' = locked
        /\ excpt_nest_count' = excpt_nest_count
    BY DEF WaitCall, flags
  <2>2. (RunningIsRunnable)'
    BY <1>1 DEF RunningIsRunnable
  <2>3. (DispatchInv)'
    BY <1>1, <1>2, <2>1
       DEF KernelInv, ContextInv, DispatchInv, RunsSchedtsk, NoLostRequest, DispatchAllowed,
           DspflgExact
  <2>4. QED
    BY <1>1, <2>1, <2>2, <2>3 DEF KernelInv, ContextInv, PC
<1>5. LoopInv'
  BY <1>1 DEF LoopInv, Looping
<1>6. QED
  BY <1>3, <1>4, <1>5 DEF KernelInv

\* A call of a handler: a change of the schedule is announced by reqflg.
LEMMA IntCallKeeps ==
  ASSUME NEW I, NEW C,
         KernelInv(I, C), IntContext, NEW result, DataInv(I, C, result, Task),
         \A t \in Task : IsRunnable(k, t) => IsRunnable(result, t),
         IntCall(result)
  PROVE  KernelInv(I, C)'
<1>1. /\ k' = result /\ pc' = pc /\ pc \in {"task", "idle"} /\ excpt_nest_count # 0
  <2>1. excpt_nest_count \in Int
    BY DispatcherAssumption DEF KernelInv, ContextInv
  <2>2. QED
    BY <2>1 DEF IntCall, IntContext
<1>2. reqflg' = (reqflg \/ (dspflg /\ k.rq.schedtsk # result.rq.schedtsk))
  BY <1>1 DEF IntCall, NewSchedule
<1>3. (DataInv(I, C, k, Live))'
  BY <1>1 DEF Live, Ending
<1>4. ContextInv'
  <2>1. /\ runtsk' = runtsk /\ frame' = frame /\ disdsp' = disdsp /\ ipmflg' = ipmflg
        /\ dspflg' = dspflg /\ locked' = locked
        /\ excpt_nest_count' = excpt_nest_count
    BY DEF IntCall, flags
  <2>2. (RunningIsRunnable)'
    BY <1>1, <2>1 DEF KernelInv, ContextInv, RunningIsRunnable
  <2>3. (DispatchInv)'
    BY <1>1, <1>2, <2>1
       DEF KernelInv, ContextInv, DispatchInv, RunsSchedtsk, NoLostRequest, DispatchAllowed,
           DspflgExact
  <2>4. reqflg' \in BOOLEAN
    BY <1>2 DEF KernelInv, ContextInv
  <2>5. QED
    BY <1>1, <2>1, <2>2, <2>3, <2>4 DEF KernelInv, ContextInv
<1>5. LoopInv'
  BY <1>1 DEF LoopInv, Looping
<1>6. QED
  BY <1>3, <1>4, <1>5 DEF KernelInv

\* ini_sem and ini_mtx enter their loop.
LEMMA InitCallKeeps ==
  ASSUME NEW I, NEW C,
         KernelInv(I, C), TaskContext, NEW o \in Obj,
         LoopCall(k, "init_wait_queue", [NoFrame EXCEPT !.obj = o])
  PROVE  KernelInv(I, C)'
<1>1. /\ DataInv(I, C, k, Task) /\ runtsk \in Task /\ IsRunnable(k, runtsk) /\ ~reqflg
      /\ dspflg => runtsk = k.rq.schedtsk
  BY InTask DEF TaskContext
<1>2. /\ k' = k /\ pc' = "init_wait_queue"
      /\ frame' = [tsk |-> NoTask, obj |-> o, exits |-> FALSE, dspreq |-> FALSE]
  BY DEF LoopCall, NoFrame
<1>3. (DataInv(I, C, k, Live))'
  BY <1>1, <1>2 DEF Live, Ending
<1>4. /\ runtsk' = runtsk /\ disdsp' = disdsp /\ ipmflg' = ipmflg
      /\ dspflg' = dspflg /\ reqflg' = reqflg /\ locked' = locked
      /\ excpt_nest_count' = excpt_nest_count /\ excpt_nest_count = 0
  BY DEF LoopCall, TaskContext, flags
<1>5. ContextInv'
  <2>1. (RunningIsRunnable)'
    BY <1>2 DEF RunningIsRunnable
  <2>2. (DispatchInv)'
    BY <1>2, <1>4
       DEF KernelInv, ContextInv, DispatchInv, RunsSchedtsk, NoLostRequest, DispatchAllowed,
           DspflgExact
  <2>3. frame' \in FrameType
    BY <1>2 DEF FrameType, Obj
  <2>4. QED
    BY <1>2, <1>4, <2>1, <2>2, <2>3 DEF KernelInv, ContextInv, PC
<1>6. LoopInv'
  BY <1>1, <1>2, <1>4 DEF LoopInv, Looping
<1>7. QED
  BY <1>3, <1>5, <1>6 DEF KernelInv

\* ter_tsk enters its loop, for a task that is unlinked.
LEMMA TerminateCallKeeps ==
  ASSUME NEW I, NEW C,
         KernelInv(I, C), TaskContext, NEW t \in Task, t # runtsk, NEW result,
         DataInv(I, C, result, Task \ {t}), result.tstat = k.tstat, ~IsDormant(k, t),
         ~result.tmevtb[t],
         k.rq.schedtsk # t => result.rq.schedtsk = k.rq.schedtsk,
         LoopCall(result, "release_all", [NoFrame EXCEPT !.tsk = t])
  PROVE  KernelInv(I, C)'
<1>1. /\ DataInv(I, C, k, Task) /\ runtsk \in Task /\ IsRunnable(k, runtsk) /\ ~reqflg
      /\ dspflg => runtsk = k.rq.schedtsk
  BY InTask DEF TaskContext
<1>2. /\ k' = result /\ pc' = "release_all"
      /\ frame' = [tsk |-> t, obj |-> NoObj, exits |-> FALSE, dspreq |-> FALSE]
  BY DEF LoopCall, NoFrame
<1>3. (DataInv(I, C, k, Live))'
  BY <1>2 DEF Live, Ending
<1>4. /\ runtsk' = runtsk /\ disdsp' = disdsp /\ ipmflg' = ipmflg
      /\ dspflg' = dspflg /\ reqflg' = reqflg /\ locked' = locked
      /\ excpt_nest_count' = excpt_nest_count /\ excpt_nest_count = 0
  BY DEF LoopCall, TaskContext, flags
<1>5. dspflg => runtsk = result.rq.schedtsk
  BY <1>1
<1>6. ContextInv'
  <2>1. (RunningIsRunnable)'
    BY <1>2 DEF RunningIsRunnable
  <2>2. (DispatchInv)'
    BY <1>2, <1>4
       DEF KernelInv, ContextInv, DispatchInv, RunsSchedtsk, NoLostRequest, DispatchAllowed,
           DspflgExact
  <2>3. frame' \in FrameType
    BY <1>2 DEF FrameType
  <2>4. QED
    BY <1>2, <1>4, <2>1, <2>2, <2>3 DEF KernelInv, ContextInv, PC
<1>7. LoopInv'
  BY <1>1, <1>2, <1>4, <1>5 DEF LoopInv, Looping, IsRunnable, IsDormant
<1>8. QED
  BY <1>3, <1>6, <1>7 DEF KernelInv

\* A turn of a loop: a change of the schedule is remembered in dspreq.
LEMMA LoopTurnKeeps ==
  ASSUME NEW I, NEW C,
         KernelInv(I, C), Looping, NEW result, DataInv(I, C, result, Live), Keeps(k, result),
         LoopTurn(result)
  PROVE  KernelInv(I, C)'
<1>1. k' = result /\ pc' = pc
  BY DEF LoopTurn
<1>2. frame \in [tsk : Task \cup {NoTask}, obj : Obj \cup {NoObj},
                 exits : BOOLEAN, dspreq : BOOLEAN]
  BY DEF KernelInv, ContextInv, FrameType
<1>3. /\ frame'.tsk = frame.tsk /\ frame'.obj = frame.obj /\ frame'.exits = frame.exits
      /\ frame'.dspreq = (frame.dspreq \/ (dspflg /\ k.rq.schedtsk # result.rq.schedtsk))
      /\ frame' \in FrameType
  <2>1. (dspflg /\ k.rq.schedtsk # result.rq.schedtsk) \in BOOLEAN
    OBVIOUS
  <2>2. frame' = [frame EXCEPT !.dspreq =
                    @ \/ (dspflg /\ k.rq.schedtsk # result.rq.schedtsk)]
    BY <1>1 DEF LoopTurn, NewSchedule
  <2>3. QED
    BY <1>2, <2>2 DEF FrameType
<1>4. /\ runtsk' = runtsk /\ disdsp' = disdsp /\ ipmflg' = ipmflg
      /\ dspflg' = dspflg /\ reqflg' = reqflg /\ locked' = locked
      /\ excpt_nest_count' = excpt_nest_count
  BY DEF LoopTurn, flags
<1>5. (DataInv(I, C, k, Live))'
  BY <1>1, <1>3 DEF Live, Ending
<1>6. pc \in {"release_all", "init_wait_queue"}
  BY DEF Looping
<1>7. ContextInv'
  <2>1. (RunningIsRunnable)'
    BY <1>1, <1>6 DEF RunningIsRunnable
  <2>2. (DispatchInv)'
    BY <1>1, <1>4, <1>6
       DEF KernelInv, ContextInv, DispatchInv, RunsSchedtsk, NoLostRequest, DispatchAllowed,
           DspflgExact
  <2>3. QED
    BY <1>1, <1>3, <1>4, <1>6, <2>1, <2>2 DEF KernelInv, ContextInv
<1>8. LoopInv'
  BY <1>1, <1>3, <1>4, <1>6 DEF KernelInv, LoopInv, Looping, Keeps
<1>9. QED
  BY <1>5, <1>7, <1>8 DEF KernelInv

\* The end of a loop: the caller dispatches if the schedule has changed in it,
\* and always if it is the task that ends.
LEMMA LoopEndKeeps ==
  ASSUME NEW I, NEW C,
         KernelInv(I, C), Looping, NEW result, DataInv(I, C, result, Task),
         ~frame.exits => IsRunnable(result, runtsk),
         LoopEnd(result)
  PROVE  KernelInv(I, C)'
<1>1. /\ excpt_nest_count = 0 /\ ~reqflg
      /\ frame.exits \/ frame.dspreq => dspflg
      /\ dspflg /\ ~frame.exits /\ ~frame.dspreq => runtsk = k.rq.schedtsk
      /\ ~frame.exits => runtsk \in Task
  BY DEF KernelInv, LoopInv
<1>2. /\ k' = result /\ pc' \in {"task", "dispatcher"} /\ frame' = NoFrame
      /\ pc' = "dispatcher" => dspflg
      /\ pc' = "task" => /\ ~frame.exits /\ ~frame.dspreq
                         /\ dspflg => k.rq.schedtsk = result.rq.schedtsk
  BY <1>1 DEF LoopEnd, NewSchedule
<1>3. (DataInv(I, C, k, Live))'
  BY <1>2 DEF Live, Ending
<1>4. /\ runtsk' = runtsk /\ disdsp' = disdsp /\ ipmflg' = ipmflg
      /\ dspflg' = dspflg /\ reqflg' = reqflg /\ locked' = locked
      /\ excpt_nest_count' = excpt_nest_count
  BY DEF LoopEnd, flags
<1>5. ContextInv'
  <2>1. (RunningIsRunnable)'
    BY <1>1, <1>2, <1>4 DEF RunningIsRunnable
  <2>2. (DispatchInv)'
    BY <1>1, <1>2, <1>4
       DEF KernelInv, ContextInv, DispatchInv, RunsSchedtsk, NoLostRequest, DispatchAllowed,
           DspflgExact
  <2>3. NoFrame \in FrameType
    BY DEF NoFrame, FrameType
  <2>4. QED
    BY <1>2, <1>4, <2>1, <2>2, <2>3 DEF KernelInv, ContextInv, PC
<1>6. LoopInv'
  BY <1>2 DEF LoopInv, Looping
<1>7. QED
  BY <1>3, <1>5, <1>6 DEF KernelInv

-----------------------------------------------------------------------------
(***************************************************************************)
(* The actions.                                                            *)
(***************************************************************************)
\* The start of the kernel keeps the invariant.
LEMMA BootKeeps == ASSUME NEW I, NEW C, KernelInv(I, C), BootNext PROVE KernelInv(I, C)'
<1>1. ASSUME NEW t \in Task, ActivateAtBoot(t) PROVE KernelInv(I, C)'
  <2>1. /\ pc = "boot" /\ IsDormant(k, t) /\ k' = make_active(k, t)
        /\ runtsk' = runtsk /\ pc' = pc /\ frame' = frame /\ disdsp' = disdsp
        /\ ipmflg' = ipmflg /\ dspflg' = dspflg /\ reqflg' = reqflg
        /\ excpt_nest_count' = excpt_nest_count /\ locked' = locked
    BY <1>1 DEF ActivateAtBoot, flags
  <2>2. DataInv(I, C, k, Task)
    BY <2>1, InvData
  <2>3. k.tstat[t] \in {"DORMANT", "SUSPENDED"}
    BY <2>1 DEF IsDormant
  <2>4. DataInv(I, C, make_active(k, t), Task)
    BY <2>2, <2>3, MakeActive
  <2>5. (DataInv(I, C, k, Live))'
    BY <2>1, <2>4 DEF Live, Ending
  <2>6. ContextInv'
    BY <2>1 DEF KernelInv, ContextInv, RunningIsRunnable, DispatchInv, RunsSchedtsk,
       NoLostRequest,
                DispatchAllowed, DspflgExact
  <2>7. LoopInv'
    BY <2>1 DEF LoopInv, Looping
  <2>8. QED
    BY <2>5, <2>6, <2>7 DEF KernelInv
<1>2. ASSUME start_dispatch PROVE KernelInv(I, C)'
  <2>1. /\ pc = "boot" /\ pc' = "dispatcher" /\ excpt_nest_count' = 0
        /\ k' = k /\ runtsk' = runtsk /\ frame' = frame /\ disdsp' = disdsp
        /\ ipmflg' = ipmflg /\ dspflg' = dspflg /\ reqflg' = reqflg /\ locked' = locked
    BY <1>2 DEF start_dispatch, flags
  <2>2. DataInv(I, C, k, Task)
    BY <2>1, InvData
  <2>3. (DataInv(I, C, k, Live))'
    BY <2>1, <2>2 DEF Live, Ending
  <2>4. 0 \in 0 .. MaxNest + 1
    BY DispatcherAssumption
  <2>5. ContextInv'
    BY <2>1, <2>4
       DEF KernelInv, ContextInv, RunningIsRunnable, DispatchInv, RunsSchedtsk, NoLostRequest,
           DispatchAllowed, DspflgExact, PC
  <2>6. LoopInv'
    BY <2>1 DEF LoopInv, Looping
  <2>7. QED
    BY <2>3, <2>5, <2>6 DEF KernelInv
<1>3. QED
  BY <1>1, <1>2 DEF BootNext

\* The dispatcher resumes the task of the highest precedence.
LEMMA DispatchTaskKeeps ==
  ASSUME NEW I, NEW C, KernelInv(I, C), DispatchTask
  PROVE  KernelInv(I, C)'
<1> DEFINE t == k.rq.schedtsk
           d2 == [k EXCEPT !.wercd[t] = "E_OK", !.winfo[t] = NoInfo]
<1>1. /\ pc = "dispatcher" /\ t # NoTask /\ runtsk' = t /\ k' = d2 /\ pc' = "task"
      /\ locked' = FALSE /\ frame' = frame /\ disdsp' = disdsp
      /\ ipmflg' = ipmflg /\ dspflg' = dspflg /\ reqflg' = reqflg
      /\ excpt_nest_count' = excpt_nest_count
  BY DEF DispatchTask, flags
<1>2. DataInv(I, C, k, Task)
  BY <1>1, InvData
<1>3. t \in Task /\ IsRunnable(k, t)
  BY <1>1, <1>2, Schedtsk
<1>4. DataInv(I, C, d2, Task) /\ Keeps(k, d2) /\ d2.rq = k.rq
  BY <1>2, <1>3, Dispatched
<1>5. d2.rq.schedtsk = t
  BY <1>4
<1> HIDE DEF d2, t
<1>6. (DataInv(I, C, k, Live))'
  BY <1>1, <1>4 DEF Live, Ending
<1>7. IsRunnable(d2, t)
  BY <1>3, <1>4 DEF Keeps
<1>8. ContextInv'
  <2>1. (RunningIsRunnable)'
    BY <1>1, <1>3, <1>7 DEF RunningIsRunnable
  <2>2. (DispatchInv)'
    BY <1>1, <1>5
       DEF KernelInv, ContextInv, DispatchInv, RunsSchedtsk, NoLostRequest, DispatchAllowed,
           DspflgExact
  <2>3. QED
    BY <1>1, <1>3, <2>1, <2>2 DEF KernelInv, ContextInv, PC
<1>9. LoopInv'
  BY <1>1 DEF LoopInv, Looping
<1>10. QED
  BY <1>6, <1>8, <1>9 DEF KernelInv

\* The idle loop is entered when no task can run, and left on a request.
LEMMA IdleKeeps ==
  ASSUME NEW I, NEW C, KernelInv(I, C), EnterIdle \/ LeaveIdle
  PROVE  KernelInv(I, C)'
<1>1. 0 \in 0 .. MaxNest + 1 /\ 1 \in 0 .. MaxNest + 1
  BY DispatcherAssumption
<1>2. ASSUME EnterIdle PROVE KernelInv(I, C)'
  <2>1. /\ pc = "dispatcher" /\ k.rq.schedtsk = NoTask /\ runtsk' = NoTask /\ pc' = "idle"
        /\ excpt_nest_count' = 1 /\ locked' = FALSE
        /\ k' = k /\ frame' = frame /\ disdsp' = disdsp
        /\ ipmflg' = ipmflg /\ dspflg' = dspflg /\ reqflg' = reqflg
    BY <1>2 DEF EnterIdle, flags
  <2>2. DataInv(I, C, k, Task)
    BY <2>1, InvData
  <2>3. (DataInv(I, C, k, Live))'
    BY <2>1, <2>2 DEF Live, Ending
  <2>4. ContextInv'
    <3>1. excpt_nest_count' >= 1 /\ excpt_nest_count' # 0
      BY <2>1
    <3>2. (RunningIsRunnable)'
      BY <2>1 DEF RunningIsRunnable
    <3>3. (DispatchInv)'
      BY <2>1, <3>1
         DEF KernelInv, ContextInv, DispatchInv, RunsSchedtsk, NoLostRequest, DispatchAllowed,
             DspflgExact
    <3>4. QED
      BY <1>1, <2>1, <3>2, <3>3 DEF KernelInv, ContextInv, PC
  <2>5. LoopInv'
    BY <2>1 DEF LoopInv, Looping
  <2>6. QED
    BY <2>3, <2>4, <2>5 DEF KernelInv
<1>3. ASSUME LeaveIdle PROVE KernelInv(I, C)'
  <2>1. /\ pc = "idle" /\ reqflg' = FALSE /\ pc' = "dispatcher"
        /\ excpt_nest_count' = 0 /\ locked' = locked /\ runtsk' = runtsk
        /\ k' = k /\ frame' = frame /\ disdsp' = disdsp
        /\ ipmflg' = ipmflg /\ dspflg' = dspflg
    BY <1>3 DEF LeaveIdle, flags
  <2>2. DataInv(I, C, k, Task)
    BY <2>1, InvData
  <2>3. (DataInv(I, C, k, Live))'
    BY <2>1, <2>2 DEF Live, Ending
  <2>4. ContextInv'
    BY <1>1, <2>1
       DEF KernelInv, ContextInv, RunningIsRunnable, DispatchInv, RunsSchedtsk, NoLostRequest,
           DispatchAllowed, DspflgExact, PC
  <2>5. LoopInv'
    BY <2>1 DEF LoopInv, Looping
  <2>6. QED
    BY <2>3, <2>4, <2>5 DEF KernelInv
<1>4. QED
  BY <1>2, <1>3

\* Interrupt entry and exit change the count, and the exit looks at reqflg.
LEMMA InterruptKeeps ==
  ASSUME NEW I, NEW C,
         KernelInv(I, C), irq_handler \/ ret_int_nested \/ ret_int_task PROVE KernelInv(I, C)'
<1>1. MaxNest \in Nat /\ excpt_nest_count \in 0 .. MaxNest + 1
  BY DispatcherAssumption DEF KernelInv, ContextInv
<1>2. ASSUME irq_handler PROVE KernelInv(I, C)'
  <2>1. /\ pc \in {"task", "idle"} /\ excpt_nest_count < MaxNest
        /\ excpt_nest_count' = excpt_nest_count + 1
        /\ k' = k /\ runtsk' = runtsk /\ pc' = pc /\ frame' = frame /\ disdsp' = disdsp
        /\ ipmflg' = ipmflg /\ dspflg' = dspflg /\ reqflg' = reqflg /\ locked' = locked
    BY <1>2 DEF irq_handler, flags
  <2>2. excpt_nest_count' \in 0 .. MaxNest + 1 /\ excpt_nest_count' >= 1
        /\ excpt_nest_count' # 0
    BY <1>1, <2>1
  <2>3. DataInv(I, C, k, Task)
    BY <2>1, InvData
  <2>4. (DataInv(I, C, k, Live))'
    BY <2>1, <2>3 DEF Live, Ending
  <2>5. ContextInv'
    BY <2>1, <2>2
       DEF KernelInv, ContextInv, RunningIsRunnable, DispatchInv, RunsSchedtsk, NoLostRequest,
           DispatchAllowed, DspflgExact
  <2>6. LoopInv'
    BY <2>1 DEF LoopInv, Looping
  <2>7. QED
    BY <2>4, <2>5, <2>6 DEF KernelInv
<1>3. ASSUME ret_int_nested PROVE KernelInv(I, C)'
  <2>1. /\ pc \in {"task", "idle"} /\ excpt_nest_count > 1
        /\ excpt_nest_count' = excpt_nest_count - 1 /\ locked' = FALSE
        /\ k' = k /\ runtsk' = runtsk /\ pc' = pc /\ frame' = frame /\ disdsp' = disdsp
        /\ ipmflg' = ipmflg /\ dspflg' = dspflg /\ reqflg' = reqflg
    BY <1>3 DEF ret_int_nested, InHandler, flags
  <2>2. excpt_nest_count' \in 0 .. MaxNest + 1 /\ excpt_nest_count' >= 1
        /\ excpt_nest_count' # 0
    BY <1>1, <2>1
  <2>3. DataInv(I, C, k, Task)
    BY <2>1, InvData
  <2>4. (DataInv(I, C, k, Live))'
    BY <2>1, <2>3 DEF Live, Ending
  <2>5. ContextInv'
    BY <2>1, <2>2
       DEF KernelInv, ContextInv, RunningIsRunnable, DispatchInv, RunsSchedtsk, NoLostRequest,
           DispatchAllowed, DspflgExact
  <2>6. LoopInv'
    BY <2>1 DEF LoopInv, Looping
  <2>7. QED
    BY <2>4, <2>5, <2>6 DEF KernelInv
<1>4. ASSUME ret_int_task PROVE KernelInv(I, C)'
  <2>1. /\ excpt_nest_count' = 0 /\ reqflg' = FALSE /\ locked' = FALSE
        /\ pc' = IF reqflg /\ dspflg /\ runtsk # k.rq.schedtsk THEN "dispatcher" ELSE "task"
        /\ k' = k /\ runtsk' = runtsk /\ frame' = frame /\ disdsp' = disdsp
        /\ ipmflg' = ipmflg /\ dspflg' = dspflg
    BY <1>4 DEF ret_int_task, flags
  <2>2. pc = "task"
    BY <1>1, <1>4 DEF ret_int_task, InHandler
  <2>3. DataInv(I, C, k, Task) /\ runtsk \in Task /\ IsRunnable(k, runtsk)
    BY <2>2, InTask
  <2>4. (DataInv(I, C, k, Live))'
    BY <2>1, <2>3 DEF Live, Ending
  <2>5. ContextInv'
    <3>1. pc' = "task" /\ dspflg => runtsk = k.rq.schedtsk
      BY <2>1, <2>2 DEF KernelInv, ContextInv, DispatchInv, NoLostRequest
    <3>2. pc' \in {"task", "dispatcher"} /\ (pc' = "dispatcher" => dspflg)
      BY <2>1
    <3>3. (RunningIsRunnable)'
      BY <2>1, <2>3 DEF RunningIsRunnable
    <3>4. (DispatchInv)'
      BY <2>1, <3>1, <3>2
         DEF KernelInv, ContextInv, DispatchInv, RunsSchedtsk, NoLostRequest, DispatchAllowed,
             DspflgExact
    <3>5. 0 \in 0 .. MaxNest + 1
      BY <1>1
    <3>6. QED
      BY <2>1, <3>2, <3>3, <3>4, <3>5 DEF KernelInv, ContextInv, PC
  <2>6. LoopInv'
    BY <2>1 DEF LoopInv, Looping
  <2>7. QED
    BY <2>4, <2>5, <2>6 DEF KernelInv
<1>5. QED
  BY <1>2, <1>3, <1>4

\* The calls that change disdsp, ipmflg and dspflg, and the CPU lock.
LEMMA FlagKeeps == ASSUME NEW I, NEW C, KernelInv(I, C), FlagNext PROVE KernelInv(I, C)'
<1>1. ASSUME dis_dsp \/ ena_dsp \/ chg_ipm_enaall \/ chg_ipm_mask PROVE KernelInv(I, C)'
  <2>1. TaskContext
    BY <1>1 DEF dis_dsp, ena_dsp, chg_ipm_enaall, chg_ipm_mask
  <2>2. /\ DataInv(I, C, k, Task) /\ runtsk \in Task /\ IsRunnable(k, runtsk) /\ ~reqflg
        /\ pc = "task" /\ excpt_nest_count = 0
        /\ dspflg => runtsk = k.rq.schedtsk
    BY <2>1, InTask DEF TaskContext
  <2>3. /\ k' = k /\ runtsk' = runtsk /\ frame' = frame /\ reqflg' = reqflg
        /\ excpt_nest_count' = excpt_nest_count /\ locked' = locked
    BY <1>1 DEF dis_dsp, ena_dsp, chg_ipm_enaall, chg_ipm_mask
  <2>4. /\ disdsp \in BOOLEAN /\ ipmflg \in BOOLEAN /\ dspflg \in BOOLEAN
        /\ dspflg <=> ~disdsp /\ ipmflg
    BY DEF KernelInv, ContextInv, DispatchInv, DspflgExact
  <2>5. /\ disdsp' \in BOOLEAN /\ ipmflg' \in BOOLEAN /\ dspflg' \in BOOLEAN
        /\ dspflg' <=> ~disdsp' /\ ipmflg'
        /\ pc' \in {"task", "dispatcher"}
        /\ pc' = "dispatcher" => dspflg'
        /\ pc' = "task" /\ dspflg' => runtsk = k.rq.schedtsk
    <3>1. CASE dis_dsp
      BY <2>2, <2>4, <3>1 DEF dis_dsp
    <3>2. CASE ena_dsp
      BY <2>2, <2>4, <3>2 DEF ena_dsp
    <3>3. CASE chg_ipm_enaall
      BY <2>2, <2>4, <3>3 DEF chg_ipm_enaall
    <3>4. CASE chg_ipm_mask
      BY <2>2, <2>4, <3>4 DEF chg_ipm_mask
    <3>5. QED
      BY <1>1, <3>1, <3>2, <3>3, <3>4
  <2>6. (DataInv(I, C, k, Live))'
    BY <2>2, <2>3, <2>5 DEF Live, Ending
  <2>7. ContextInv'
    <3>1. (RunningIsRunnable)'
      BY <2>2, <2>3 DEF RunningIsRunnable
    <3>2. (DispatchInv)'
      BY <2>2, <2>3, <2>5
         DEF DispatchInv, RunsSchedtsk, NoLostRequest, DispatchAllowed, DspflgExact
    <3>3. QED
      BY <2>3, <2>5, <3>1, <3>2 DEF KernelInv, ContextInv, PC
  <2>8. LoopInv'
    BY <2>5 DEF LoopInv, Looping
  <2>9. QED
    BY <2>6, <2>7, <2>8 DEF KernelInv
<1>2. ASSUME lock_cpu \/ unlock_cpu PROVE KernelInv(I, C)'
  <2>1. /\ k' = k /\ runtsk' = runtsk /\ pc' = pc /\ frame' = frame /\ disdsp' = disdsp
        /\ ipmflg' = ipmflg /\ dspflg' = dspflg /\ reqflg' = reqflg
        /\ excpt_nest_count' = excpt_nest_count /\ locked' \in BOOLEAN
    BY <1>2 DEF lock_cpu, unlock_cpu, flags
  <2>2. (DataInv(I, C, k, Live))'
    BY <2>1 DEF KernelInv, Live, Ending
  <2>3. ContextInv'
    BY <2>1 DEF KernelInv, ContextInv, RunningIsRunnable, DispatchInv, RunsSchedtsk,
       NoLostRequest,
                DispatchAllowed, DspflgExact
  <2>4. LoopInv'
    BY <2>1 DEF KernelInv, LoopInv, Looping
  <2>5. QED
    BY <2>2, <2>3, <2>4 DEF KernelInv
<1>3. QED
  BY <1>1, <1>2 DEF FlagNext

\* A call finds data that is correct for all tasks.
LEMMA InCall ==
  ASSUME NEW I, NEW C,
         KernelInv(I, C), TaskContext \/ IntContext
  PROVE  /\ DataInv(I, C, k, Task) /\ k \in KernelData(I, C) /\ pc \in {"task", "idle"}
         /\ TaskContext => /\ runtsk \in Task /\ IsRunnable(k, runtsk)
                           /\ ~IsDormant(k, runtsk)
                           /\ dspflg => runtsk = k.rq.schedtsk
<1>1. pc \in {"task", "idle"}
  BY DEF TaskContext, IntContext
<1>2. DataInv(I, C, k, Task)
  BY <1>1, InvData
<1>3. QED
  BY <1>1, <1>2, InTask DEF TaskContext, DataInv

\* A call of a task or of a handler after which whoever was runnable still is.
LEMMA CallKeeps ==
  ASSUME NEW I, NEW C,
         KernelInv(I, C), NEW result, DataInv(I, C, result, Task), Keeps(k, result),
         \/ TaskContext /\ TaskCall(result)
         \/ IntContext /\ IntCall(result)
  PROVE  KernelInv(I, C)'
<1>1. \A t \in Task : IsRunnable(k, t) => IsRunnable(result, t)
  BY DEF Keeps
<1>2. CASE TaskContext /\ TaskCall(result)
  BY <1>1, <1>2, InCall, TaskCallKeeps
<1>3. CASE IntContext /\ IntCall(result)
  BY <1>1, <1>3, IntCallKeeps
<1>4. QED
  BY <1>2, <1>3

\* The same for a call that leaves the ready queue alone.
LEMMA RequestCallKeeps ==
  ASSUME NEW I, NEW C,
         KernelInv(I, C), TaskContext \/ IntContext, NEW result, DataInv(I, C, result, Task),
         Keeps(k, result), result.rq = k.rq, PlainCall(result)
  PROVE  KernelInv(I, C)'
<1>1. \A t \in Task : IsRunnable(k, t) => IsRunnable(result, t)
  BY DEF Keeps
<1>2. pc \in {"task", "idle"} /\ result.rq.schedtsk = k.rq.schedtsk
  BY InCall
<1>3. QED
  BY <1>1, <1>2, PlainCallKeeps

\* rot_rdq.
LEMMA RotateKeeps ==
  ASSUME NEW I, NEW C, KernelInv(I, C), RotateNext
  PROVE  KernelInv(I, C)'
<1>1. ASSUME NEW pri \in Pri,
             \/ TaskContext /\ TaskCall([k EXCEPT !.rq = rotate_ready_queue(@, pri)])
             \/ IntContext /\ IntCall([k EXCEPT !.rq = rotate_ready_queue(@, pri)])
      PROVE  KernelInv(I, C)'
  <2> DEFINE d2 == [k EXCEPT !.rq = rotate_ready_queue(@, pri)]
  <2>1. DataInv(I, C, k, Task)
    BY <1>1, InCall
  <2>2. DataInv(I, C, d2, Task) /\ Keeps(k, d2)
    BY <2>1, Rotated
  <2>3. (TaskContext /\ TaskCall(d2)) \/ (IntContext /\ IntCall(d2))
    BY <1>1
  <2> HIDE DEF d2
  <2>4. QED
    BY <2>2, <2>3, CallKeeps
<1>2. ASSUME NEW pri \in Pri, rot_rdq(pri) PROVE KernelInv(I, C)'
  BY <1>1, <1>2 DEF rot_rdq
<1>3. ASSUME NEW pri \in Pri, irot_rdq(pri) PROVE KernelInv(I, C)'
  BY <1>1, <1>3 DEF irot_rdq
<1>4. ASSUME rot_rdq_self PROVE KernelInv(I, C)'
  <2>1. /\ TaskContext
        /\ TaskCall([k EXCEPT !.rq = rotate_ready_queue(@, k.bpriority[runtsk])])
    BY <1>4 DEF rot_rdq_self
  <2>2. k.bpriority \in [Task -> Pri] /\ runtsk \in Task
    BY <2>1, InCall, DataTypes
  <2>3. k.bpriority[runtsk] \in Pri
    BY <2>2
  <2>4. QED
    BY <1>1, <2>1, <2>3
<1>5. QED
  BY <1>2, <1>3, <1>4 DEF RotateNext

\* slp_tsk, dly_tsk, wup_tsk and can_wup.
LEMMA SleepKeeps == ASSUME NEW I, NEW C, KernelInv(I, C), SleepNext PROVE KernelInv(I, C)'
<1>1. ASSUME take_wakeup PROVE KernelInv(I, C)'
  <2> DEFINE d2 == [k EXCEPT !.wupque[runtsk] = FALSE]
  <2>1. TaskContext /\ PlainCall(d2)
    BY <1>1 DEF take_wakeup, MayWait
  <2>2. DataInv(I, C, k, Task) /\ runtsk \in Task
    BY <2>1, InCall
  <2>3. DataInv(I, C, d2, Task) /\ Keeps(k, d2) /\ d2.rq = k.rq
    BY <2>2, TakeWakeup
  <2> HIDE DEF d2
  <2>4. QED
    BY <2>1, <2>3, RequestCallKeeps
<1>2. ASSUME NEW timed \in BOOLEAN, slp_tsk(timed) PROVE KernelInv(I, C)'
  <2>1. MayWait /\ TaskContext /\ ~k.wupque[runtsk]
        /\ WaitCall(make_wait(k, runtsk, "SLP", timed))
    BY <1>2 DEF slp_tsk, MayWait
  <2>2. DataInv(I, C, k, Task) /\ runtsk \in Task /\ IsRunnable(k, runtsk)
    BY <2>1, InCall
  <2>3. DataInv(I, C, make_wait(k, runtsk, "SLP", timed), Task)
    BY <2>1, <2>2, Sleep
  <2>4. QED
    BY <2>1, <2>3, WaitCallKeeps
<1>3. ASSUME dly_tsk PROVE KernelInv(I, C)'
  <2>1. MayWait /\ TaskContext /\ WaitCall(make_wait(k, runtsk, "DLY", TRUE))
    BY <1>3 DEF dly_tsk, MayWait
  <2>2. DataInv(I, C, k, Task) /\ runtsk \in Task /\ IsRunnable(k, runtsk)
    BY <2>1, InCall
  <2>3. DataInv(I, C, make_wait(k, runtsk, "DLY", TRUE), Task)
    BY <2>2, Sleep
  <2>4. QED
    BY <2>1, <2>3, WaitCallKeeps
<1>4. ASSUME NEW t \in Task, wup_tsk(t) \/ iwup_tsk(t) PROVE KernelInv(I, C)'
  <2>1. /\ \/ TaskContext /\ TaskCall(wakeup(k, t))
           \/ IntContext /\ IntCall(wakeup(k, t))
        /\ ~IsDormant(k, t)
    BY <1>4 DEF wup_tsk, iwup_tsk, CanWakeup
  <2>2. DataInv(I, C, k, Task)
    BY <2>1, InCall
  <2>3. DataInv(I, C, wakeup(k, t), Task) /\ Keeps(k, wakeup(k, t))
    BY <2>1, <2>2, Wakeup
  <2>4. QED
    BY <2>1, <2>3, CallKeeps
<1>5. ASSUME NEW t \in Task, can_wup(t) PROVE KernelInv(I, C)'
  <2> DEFINE d2 == [k EXCEPT !.wupque[t] = FALSE]
  <2>1. TaskContext /\ PlainCall(d2)
    BY <1>5 DEF can_wup
  <2>2. DataInv(I, C, k, Task)
    BY <2>1, InCall
  <2>3. DataInv(I, C, d2, Task) /\ Keeps(k, d2) /\ d2.rq = k.rq
    BY <2>2, TakeWakeup
  <2> HIDE DEF d2
  <2>4. QED
    BY <2>1, <2>3, RequestCallKeeps
<1>6. QED
  BY <1>1, <1>2, <1>3, <1>4, <1>5 DEF SleepNext

\* rel_wai.
LEMMA ReleaseKeeps ==
  ASSUME NEW I, NEW C, KernelInv(I, C), ReleaseNext
  PROVE  KernelInv(I, C)'
<1>1. PICK t \in Task : rel_wai(t) \/ irel_wai(t)
  BY DEF ReleaseNext
<1>2. /\ \/ TaskContext /\ TaskCall(wait_release(k, t))
         \/ IntContext /\ IntCall(wait_release(k, t))
      /\ IsWaiting(k, t)
  BY <1>1 DEF rel_wai, irel_wai
<1>3. DataInv(I, C, k, Task)
  BY <1>2, InCall
<1>4. DataInv(I, C, wait_release(k, t), Task) /\ Keeps(k, wait_release(k, t))
  BY <1>2, <1>3, WaitRelease
<1>5. QED
  BY <1>2, <1>4, CallKeeps

\* sus_tsk and rsm_tsk.
LEMMA SuspendKeeps ==
  ASSUME NEW I, NEW C, KernelInv(I, C), SuspendNext
  PROVE  KernelInv(I, C)'
<1>1. ASSUME NEW t \in Task, sus_tsk(t) PROVE KernelInv(I, C)'
  <2>1. /\ TaskContext
        /\ t = runtsk => dspflg
        /\ \/ IsRunnable(k, t) /\ TaskCall(suspend(k, t))
           \/ k.tstat[t] = "WAITING" /\ TaskCall(set_tstat(k, t, "WAITING-SUSPENDED"))
    BY <1>1 DEF sus_tsk, suspend, set_tstat
  <2>2. DataInv(I, C, k, Task) /\ runtsk \in Task /\ IsRunnable(k, runtsk)
    BY <2>1, InCall
  <2>3. CASE IsRunnable(k, t) /\ TaskCall(suspend(k, t))
    <3>1. /\ DataInv(I, C, suspend(k, t), Task)
          /\ \A u \in Task \ {t} : IsRunnable(k, u) => IsRunnable(suspend(k, t), u)
      BY <2>2, <2>3, SuspendsRunnable
    <3>2. dspflg \/ IsRunnable(suspend(k, t), runtsk)
      BY <2>1, <2>2, <3>1
    <3>3. QED
      BY <2>1, <2>3, <3>1, <3>2, TaskCallKeeps
  <2>4. CASE k.tstat[t] = "WAITING" /\ TaskCall(set_tstat(k, t, "WAITING-SUSPENDED"))
    <3> DEFINE d2 == set_tstat(k, t, "WAITING-SUSPENDED")
    <3>1. DataInv(I, C, d2, Task) /\ Keeps(k, d2)
      BY <2>2, <2>4, SuspendsWaiting
    <3>2. TaskContext /\ TaskCall(d2)
      BY <2>1, <2>4
    <3> HIDE DEF d2
    <3>3. QED
      BY <3>1, <3>2, CallKeeps
  <2>5. QED
    BY <2>1, <2>3, <2>4
<1>2. ASSUME NEW t \in Task, rsm_tsk(t) PROVE KernelInv(I, C)'
  <2>1. /\ TaskContext
        /\ \/ k.tstat[t] = "SUSPENDED" /\ TaskCall(make_active(k, t))
           \/ k.tstat[t] = "WAITING-SUSPENDED" /\ TaskCall(set_tstat(k, t, "WAITING"))
    BY <1>2 DEF rsm_tsk, make_active, set_tstat
  <2>2. DataInv(I, C, k, Task)
    BY <2>1, InCall
  <2>3. CASE k.tstat[t] = "SUSPENDED" /\ TaskCall(make_active(k, t))
    <3>1. DataInv(I, C, make_active(k, t), Task) /\ Keeps(k, make_active(k, t))
      BY <2>2, <2>3, MakeActive
    <3>2. QED
      BY <2>1, <2>3, <3>1, CallKeeps
  <2>4. CASE k.tstat[t] = "WAITING-SUSPENDED" /\ TaskCall(set_tstat(k, t, "WAITING"))
    <3> DEFINE d2 == set_tstat(k, t, "WAITING")
    <3>1. DataInv(I, C, d2, Task) /\ Keeps(k, d2)
      BY <2>2, <2>4, ResumesTask
    <3>2. TaskContext /\ TaskCall(d2)
      BY <2>1, <2>4
    <3> HIDE DEF d2
    <3>3. QED
      BY <3>1, <3>2, CallKeeps
  <2>5. QED
    BY <2>1, <2>3, <2>4
<1>3. QED
  BY <1>1, <1>2 DEF SuspendNext

\* dis_wai and ena_wai.
LEMMA ForbidKeeps ==
  ASSUME NEW I, NEW C, KernelInv(I, C), ForbidNext
  PROVE  KernelInv(I, C)'
<1>1. ASSUME NEW t \in Task, NEW b \in BOOLEAN, TaskContext \/ IntContext, ~IsDormant(k, t),
             PlainCall([k EXCEPT !.waifbd[t] = b])
      PROVE  KernelInv(I, C)'
  <2> DEFINE d2 == [k EXCEPT !.waifbd[t] = b]
  <2>1. DataInv(I, C, k, Task)
    BY <1>1, InCall
  <2>2. DataInv(I, C, d2, Task) /\ Keeps(k, d2) /\ d2.rq = k.rq
    BY <1>1, <2>1, SetWaifbd
  <2>3. PlainCall(d2)
    BY <1>1
  <2> HIDE DEF d2
  <2>4. QED
    BY <1>1, <2>2, <2>3, RequestCallKeeps
<1>2. ASSUME NEW t \in Task, dis_wai(t) PROVE KernelInv(I, C)'
  BY <1>1, <1>2 DEF dis_wai
<1>3. ASSUME NEW t \in Task, ena_wai(t) PROVE KernelInv(I, C)'
  BY <1>1, <1>3 DEF ena_wai
<1>4. QED
  BY <1>2, <1>3 DEF ForbidNext

\* The expiry of a timeout: only a waiting task has one.
LEMMA TimeoutKeeps ==
  ASSUME NEW I, NEW C, KernelInv(I, C), TimeoutNext
  PROVE  KernelInv(I, C)'
<1>1. PICK t \in Task : wait_tmout(t)
  BY DEF TimeoutNext
<1>2. IntContext /\ IntCall(wait_expire(k, t)) /\ k.tmevtb[t]
  BY <1>1 DEF wait_tmout
<1>3. DataInv(I, C, k, Task)
  BY <1>2, InCall
<1>4. IsWaiting(k, t)
  BY <1>2, <1>3, WaitersFacts
<1>5. DataInv(I, C, wait_expire(k, t), Task) /\ Keeps(k, wait_expire(k, t))
  BY <1>3, <1>4, WaitExpire
<1>6. QED
  BY <1>2, <1>5, CallKeeps

\* The calls of semaphore.c but for the turns of init_wait_queue.
LEMMA SemaphoreKeeps ==
  ASSUME NEW I, NEW C,
         KernelInv(I, C), NEW s \in Sem,
         \/ sig_sem(s) \/ isig_sem(s) \/ take_unit(s) \/ ini_sem(s)
         \/ \E timed \in BOOLEAN : wai_sem(s, timed)
  PROVE  KernelInv(I, C)'
<1>1. ASSUME sig_sem(s) \/ isig_sem(s) PROVE KernelInv(I, C)'
  <2>1. /\ \/ TaskContext /\ TaskCall(signal(k, s))
           \/ IntContext /\ IntCall(signal(k, s))
        /\ k.wait_queue[s] # << >> \/ k.semcnt[s] < maxsem[s]
    BY <1>1 DEF sig_sem, isig_sem, CanSignal
  <2>2. DataInv(I, C, k, Task)
    BY <2>1, InCall
  <2>3. DataInv(I, C, signal(k, s), Task) /\ Keeps(k, signal(k, s))
    BY <2>1, <2>2, Signal
  <2>4. QED
    BY <2>1, <2>3, CallKeeps
<1>2. ASSUME take_unit(s) PROVE KernelInv(I, C)'
  <2> DEFINE d2 == [k EXCEPT !.semcnt[s] = @ - 1]
  <2>1. TaskContext /\ k.semcnt[s] >= 1 /\ PlainCall(d2)
    BY <1>2 DEF take_unit
  <2>2. DataInv(I, C, k, Task)
    BY <2>1, InCall
  <2>3. DataInv(I, C, d2, Task) /\ Keeps(k, d2) /\ d2.rq = k.rq
    BY <2>1, <2>2, TakeUnit
  <2> HIDE DEF d2
  <2>4. QED
    BY <2>1, <2>3, RequestCallKeeps
<1>3. ASSUME ini_sem(s) PROVE KernelInv(I, C)'
  BY <1>3, InitCallKeeps DEF ini_sem, Obj
<1>4. ASSUME NEW timed \in BOOLEAN, wai_sem(s, timed) PROVE KernelInv(I, C)'
  <2>1. /\ MayWait /\ TaskContext /\ k.semcnt[s] = 0
        /\ WaitCall(wobj_make_wait(k, runtsk, s, timed))
    BY <1>4 DEF wai_sem, MayWait
  <2>2. DataInv(I, C, k, Task) /\ runtsk \in Task /\ IsRunnable(k, runtsk)
    BY <2>1, InCall
  <2>3. s \in Obj /\ s \notin Mtx /\ s \notin CeilMtx
    BY ObjNames, ObjAssumption, CeilingAssumption
  <2>4. DataInv(I, C, wobj_make_wait(k, runtsk, s, timed), Task)
    BY <2>1, <2>2, <2>3, WaitFor
  <2>5. QED
    BY <2>1, <2>4, WaitCallKeeps
<1>5. QED
  BY <1>1, <1>2, <1>3, <1>4

\* The turns of init_wait_queue.
LEMMA InitWaitQueueKeeps ==
  ASSUME NEW I, NEW C, KernelInv(I, C), init_wait_queue
  PROVE  KernelInv(I, C)'
<1> DEFINE o  == frame.obj
           d2 == end_wait(queue_delete_next(k, o), Head(k.wait_queue[o]), "E_DLT")
<1>1. pc = "init_wait_queue" /\ k.wait_queue[o] # << >> /\ LoopTurn(d2)
  BY DEF init_wait_queue
<1>2. DataInv(I, C, k, Task) /\ Live = Task
  BY <1>1, InvData
<1>3. Looping /\ o \in Obj
  BY <1>1 DEF KernelInv, LoopInv, Looping, Obj
<1>4. "E_DLT" \in ErCd
  BY DEF ErCd
<1>5. DataInv(I, C, d2, Task) /\ Keeps(k, d2)
  BY <1>1, <1>2, <1>3, <1>4, InitWaitQueue
<1> HIDE DEF d2
<1>6. QED
  BY <1>1, <1>2, <1>3, <1>5, LoopTurnKeeps

\* The end of ini_sem.
LEMMA IniSemEndKeeps ==
  ASSUME NEW I, NEW C, KernelInv(I, C), ini_sem_end
  PROVE  KernelInv(I, C)'
<1> DEFINE s  == frame.obj
           d2 == [k EXCEPT !.semcnt[s] = isemcnt[s]]
<1>1. pc = "init_wait_queue" /\ s \in Sem /\ k.wait_queue[s] = << >> /\ LoopEnd(d2)
  BY DEF ini_sem_end
<1>2. DataInv(I, C, k, Task)
  BY <1>1, InvData
<1>3. Looping /\ runtsk \in Task /\ IsRunnable(k, runtsk)
  BY <1>1 DEF KernelInv, LoopInv, Looping
<1>4. DataInv(I, C, d2, Task) /\ Keeps(k, d2)
  BY <1>1, <1>2, IniSemEnd
<1>5. IsRunnable(d2, runtsk)
  BY <1>3, <1>4 DEF Keeps
<1> HIDE DEF d2
<1>6. QED
  BY <1>1, <1>3, <1>4, <1>5, LoopEndKeeps

\* loc_mtx, unl_mtx and the start of ini_mtx.
LEMMA MutexKeeps ==
  ASSUME NEW I, NEW C,
         KernelInv(I, C), NEW m \in Mtx,
         \/ lock_free_mtx(m) \/ unl_mtx(m) \/ ini_mtx(m)
         \/ \E timed \in BOOLEAN : wait_mtx(m, timed)
  PROVE  KernelInv(I, C)'
<1>1. ASSUME lock_free_mtx(m) PROVE KernelInv(I, C)'
  <2> DEFINE d2 == mutex_acquire(k, runtsk, m)
  <2>1. /\ TaskContext /\ k.loctsk[m] = NoTask /\ PlainCall(d2)
        /\ m \in CeilMtx => ceilpri[m] <= k.bpriority[runtsk]
    BY <1>1 DEF lock_free_mtx
  <2>2. /\ DataInv(I, C, k, Task) /\ runtsk \in Task /\ ~IsDormant(k, runtsk)
        /\ pc \in {"task", "idle"}
    BY <2>1, InCall
  <2>3. /\ DataInv(I, C, d2, Task) /\ Keeps(k, d2)
        /\ k.rq.schedtsk = runtsk => d2.rq.schedtsk = runtsk
    BY <2>1, <2>2, Acquire
  <2> HIDE DEF d2
  <2>4. \A t \in Task : IsRunnable(k, t) => IsRunnable(d2, t)
    BY <2>3 DEF Keeps
  <2>5. QED
    BY <2>1, <2>2, <2>3, <2>4, PlainCallKeeps
<1>2. ASSUME NEW timed \in BOOLEAN, wait_mtx(m, timed) PROVE KernelInv(I, C)'
  <2>1. /\ MayWait /\ TaskContext /\ k.loctsk[m] \notin {NoTask, runtsk}
        /\ m \in CeilMtx => ceilpri[m] <= k.bpriority[runtsk]
        /\ WaitCall(wobj_make_wait(k, runtsk, m, timed))
    BY <1>2 DEF wait_mtx, MayWait
  <2>2. DataInv(I, C, k, Task) /\ runtsk \in Task /\ IsRunnable(k, runtsk)
    BY <2>1, InCall
  <2>3. m \in Obj /\ m \notin Sem
    BY ObjNames, ObjAssumption
  <2>4. DataInv(I, C, wobj_make_wait(k, runtsk, m, timed), Task)
    BY <2>1, <2>2, <2>3, WaitFor
  <2>5. QED
    BY <2>1, <2>4, WaitCallKeeps
<1>3. ASSUME unl_mtx(m) PROVE KernelInv(I, C)'
  <2> DEFINE dropped == drop_ceiling(unlink(k, m), runtsk, m)
             d2 == mutex_release(dropped, m)
  <2>1. /\ TaskContext /\ k.loctsk[m] = runtsk /\ k' = d2
        /\ pc' = IF dspflg /\ \/ NewSchedule(k.rq, dropped.rq)
                              \/ NewSchedule(dropped.rq, d2.rq)
                 THEN "dispatcher" ELSE "task"
        /\ UNCHANGED << runtsk, frame, flags, reqflg, excpt_nest_count, locked >>
    BY <1>3 DEF unl_mtx
  <2>2. /\ DataInv(I, C, k, Task) /\ runtsk \in Task /\ IsRunnable(k, runtsk)
        /\ dspflg => runtsk = k.rq.schedtsk
    BY <2>1, InCall
  <2>3. DataInv(I, C, d2, Task) /\ Keeps(k, d2)
    BY <2>1, <2>2, Unlock
  <2> HIDE DEF dropped, d2
  <2>4. pc' \in {"task", "dispatcher"} /\ (pc' = "dispatcher" => dspflg)
    BY <2>1
  <2>5. pc' = "task" /\ dspflg => runtsk = d2.rq.schedtsk
    BY <2>1, <2>2 DEF NewSchedule
  <2>6. IsRunnable(d2, runtsk)
    BY <2>2, <2>3 DEF Keeps
  <2>7. ~reqflg /\ pc = "task" /\ excpt_nest_count = 0
    BY <2>1, InTask DEF TaskContext
  <2>8. (DataInv(I, C, k, Live))'
    BY <2>1, <2>3, <2>4 DEF Live, Ending
  <2>9. ContextInv'
    <3>1. /\ runtsk' = runtsk /\ frame' = frame /\ disdsp' = disdsp /\ ipmflg' = ipmflg
          /\ dspflg' = dspflg /\ reqflg' = reqflg /\ locked' = locked
          /\ excpt_nest_count' = excpt_nest_count
      BY <2>1 DEF flags
    <3>2. (RunningIsRunnable)'
      BY <2>1, <2>2, <2>6, <3>1 DEF RunningIsRunnable
    <3>3. (DispatchInv)'
      BY <2>1, <2>4, <2>5, <2>7, <3>1
         DEF KernelInv, ContextInv, DispatchInv, RunsSchedtsk, NoLostRequest, DispatchAllowed,
             DspflgExact
    <3>4. QED
      BY <2>4, <3>1, <3>2, <3>3 DEF KernelInv, ContextInv, PC
  <2>10. LoopInv'
    BY <2>4 DEF LoopInv, Looping
  <2>11. QED
    BY <2>8, <2>9, <2>10 DEF KernelInv
<1>4. ASSUME ini_mtx(m) PROVE KernelInv(I, C)'
  BY <1>4, InitCallKeeps DEF ini_mtx, Obj
<1>5. QED
  BY <1>1, <1>2, <1>3, <1>4

\* The end of ini_mtx.
LEMMA IniMtxEndKeeps ==
  ASSUME NEW I, NEW C, KernelInv(I, C), ini_mtx_end
  PROVE  KernelInv(I, C)'
<1> DEFINE m  == frame.obj
           t  == k.loctsk[m]
           d2 == IF t = NoTask THEN k ELSE drop_ceiling(set_free(unlink(k, m), m), t, m)
<1>1. pc = "init_wait_queue" /\ m \in Mtx /\ k.wait_queue[m] = << >> /\ LoopEnd(d2)
  BY DEF ini_mtx_end, set_free
<1>2. DataInv(I, C, k, Task) /\ k \in KernelData(I, C)
  BY <1>1, InvData DEF DataInv
<1>3. Looping /\ runtsk \in Task /\ IsRunnable(k, runtsk)
  BY <1>1 DEF KernelInv, LoopInv, Looping
<1>4. CASE t = NoTask
  <2>1. d2 = k
    BY <1>4
  <2> HIDE DEF d2
  <2>2. QED
    BY <1>1, <1>2, <1>3, <2>1, LoopEndKeeps
<1>5. CASE t # NoTask
  <2>1. t \in Task
    BY <1>1, <1>2, <1>5, DataTypes
  <2>2. NoWaiter(k, m)
    BY <1>1 DEF NoWaiter
  <2>3. d2 = drop_ceiling(set_free(unlink(k, m), m), t, m)
    BY <1>5
  <2>4. DataInv(I, C, d2, Task) /\ Keeps(k, d2)
    BY <1>1, <1>2, <2>1, <2>2, <2>3, IniMtxEnd
  <2> HIDE DEF d2
  <2>5. IsRunnable(d2, runtsk)
    BY <1>3, <2>4 DEF Keeps
  <2>6. QED
    BY <1>1, <1>3, <2>4, <2>5, LoopEndKeeps
<1>6. QED
  BY <1>4, <1>5

\* The turns of mutex_release_all.
LEMMA ReleaseAllKeeps ==
  ASSUME NEW I, NEW C, KernelInv(I, C), mutex_release_all
  PROVE  KernelInv(I, C)'
<1> DEFINE e  == frame.tsk
           m  == Head(k.mutex_queue[e])
           d2 == mutex_release(unlink(k, m), m)
<1>1. pc = "release_all" /\ k.mutex_queue[e] # << >> /\ LoopTurn(d2)
  BY DEF mutex_release_all
<1>2. Looping /\ e \in Task /\ Live = Task \ {e}
  BY <1>1 DEF KernelInv, LoopInv, Looping, Live, Ending
<1>3. DataInv(I, C, k, Task \ {e})
  BY <1>2 DEF KernelInv
<1>4. DataInv(I, C, d2, Task \ {e}) /\ Keeps(k, d2)
  BY <1>1, <1>2, <1>3, ReleaseAllTurn
<1> HIDE DEF d2
<1>5. QED
  BY <1>1, <1>2, <1>4, LoopTurnKeeps

\* A task becomes dormant, or starts again.
LEMMA EndOfTaskKeeps ==
  ASSUME NEW I, NEW C, KernelInv(I, C), end_of_task
  PROVE  KernelInv(I, C)'
<1> DEFINE e  == frame.tsk
           d2 == reactivate(make_dormant(k, e), e)
<1>1. pc = "release_all" /\ k.mutex_queue[e] = << >> /\ LoopEnd(d2)
  BY DEF end_of_task
<1>2. /\ Looping /\ e \in Task /\ Live = Task \ {e} /\ ~k.tmevtb[e]
      /\ ~frame.exits => runtsk \in Task \ {e} /\ IsRunnable(k, runtsk)
  BY <1>1 DEF KernelInv, LoopInv, Looping, Live, Ending
<1>3. DataInv(I, C, k, Task \ {e})
  BY <1>2 DEF KernelInv
<1>4. /\ DataInv(I, C, d2, Task)
      /\ \A u \in Task \ {e} : IsRunnable(k, u) => IsRunnable(d2, u)
  BY <1>1, <1>2, <1>3, TaskEnds
<1>5. ~frame.exits => IsRunnable(d2, runtsk)
  BY <1>2, <1>4
<1> HIDE DEF d2
<1>6. QED
  BY <1>1, <1>2, <1>4, <1>5, LoopEndKeeps

\* act_tsk, can_act and chg_pri.
LEMMA ActivateKeeps ==
  ASSUME NEW I, NEW C,
         KernelInv(I, C), NEW t \in Task, act_tsk(t) \/ iact_tsk(t) \/ can_act(t)
  PROVE  KernelInv(I, C)'
<1>1. ASSUME act_tsk(t) \/ iact_tsk(t) PROVE KernelInv(I, C)'
  <2>1. \/ TaskContext /\ TaskCall(activate(k, t))
        \/ IntContext /\ IntCall(activate(k, t))
    BY <1>1 DEF act_tsk, iact_tsk
  <2>2. DataInv(I, C, k, Task)
    BY <2>1, InCall
  <2>3. DataInv(I, C, activate(k, t), Task) /\ Keeps(k, activate(k, t))
    BY <2>2, Activate
  <2>4. QED
    BY <2>1, <2>3, CallKeeps
<1>2. ASSUME can_act(t) PROVE KernelInv(I, C)'
  <2> DEFINE d2 == [k EXCEPT !.actque[t] = FALSE]
  <2>1. TaskContext /\ PlainCall(d2)
    BY <1>2 DEF can_act
  <2>2. DataInv(I, C, k, Task)
    BY <2>1, InCall
  <2>3. DataInv(I, C, d2, Task) /\ Keeps(k, d2) /\ d2.rq = k.rq
    BY <2>2, SetActque, Zenon
  <2> HIDE DEF d2
  <2>4. QED
    BY <2>1, <2>3, RequestCallKeeps
<1>3. QED
  BY <1>1, <1>2

\* chg_pri.
LEMMA ChgPriKeeps ==
  ASSUME NEW I, NEW C,
         KernelInv(I, C), NEW t \in Task, NEW pri \in Pri, chg_pri(t, pri)
  PROVE  KernelInv(I, C)'
<1>1. /\ TaskContext /\ ~IsDormant(k, t) /\ mutex_check_ceilpri(k, t, pri)
      /\ TaskCall(changed_pri(k, t, pri))
  BY DEF chg_pri, changed_pri, change_base
<1>2. DataInv(I, C, k, Task)
  BY <1>1, InCall
<1>3. DataInv(I, C, changed_pri(k, t, pri), Task) /\ Keeps(k, changed_pri(k, t, pri))
  BY <1>1, <1>2, ChangesPriority
<1>4. QED
  BY <1>1, <1>3, CallKeeps

\* ter_tsk unlinks its task, whatever its state.
LEMMA TerminateKeeps ==
  ASSUME NEW I, NEW C, KernelInv(I, C), NEW t \in Task, ter_tsk(t)
  PROVE  KernelInv(I, C)'
<1> DEFINE d2 == IF IsRunnable(k, t) THEN [k EXCEPT !.rq = make_non_runnable(@, t)]
                 ELSE IF IsWaiting(k, t) THEN stop_waiting(k, t) ELSE k
<1>1. /\ TaskContext /\ t # runtsk /\ ~IsDormant(k, t)
      /\ LoopCall(d2, "release_all", [NoFrame EXCEPT !.tsk = t])
  BY DEF ter_tsk, stop_waiting
<1>2. DataInv(I, C, k, Task) /\ k \in KernelData(I, C)
  BY <1>1, InCall
<1>3. /\ DataInv(I, C, d2, Task \ {t}) /\ d2.tstat = k.tstat /\ ~d2.tmevtb[t]
      /\ k.rq.schedtsk # t => d2.rq.schedtsk = k.rq.schedtsk
  <2>1. CASE IsRunnable(k, t)
    BY <1>2, <2>1, StopRunnable
  <2>2. CASE ~IsRunnable(k, t) /\ IsWaiting(k, t)
    BY <1>2, <2>2, StopWaiting
  <2>3. CASE ~IsRunnable(k, t) /\ ~IsWaiting(k, t)
    <3>1. k.tstat[t] \in TStat
      BY <1>2, DataTypes
    <3>2. k.tstat[t] = "SUSPENDED"
      BY <1>1, <2>3, <3>1 DEF TStat, IsRunnable, IsWaiting, IsDormant
    <3>3. QED
      BY <1>2, <2>3, <3>2, StopSuspended
  <2>4. QED
    BY <2>1, <2>2, <2>3
<1> HIDE DEF d2
<1>4. QED
  BY <1>1, <1>3, TerminateCallKeeps

\* ext_tsk gives up the CPU for good.
LEMMA ExitKeeps == ASSUME NEW I, NEW C, KernelInv(I, C), ext_tsk PROVE KernelInv(I, C)'
<1> DEFINE d2 == [k EXCEPT !.rq = make_non_runnable(@, runtsk)]
<1>1. /\ pc = "task" /\ excpt_nest_count = 0 /\ k' = d2
      /\ disdsp' = FALSE /\ ipmflg' = TRUE /\ dspflg' = TRUE /\ pc' = "release_all"
      /\ frame' = [tsk |-> runtsk, obj |-> NoObj, exits |-> TRUE, dspreq |-> FALSE]
      /\ runtsk' = runtsk /\ reqflg' = reqflg
      /\ excpt_nest_count' = excpt_nest_count /\ locked' = locked
  BY DEF ext_tsk, NoFrame
<1>2. /\ DataInv(I, C, k, Task) /\ runtsk \in Task /\ IsRunnable(k, runtsk)
      /\ ~IsDormant(k, runtsk) /\ ~reqflg
  BY <1>1, InTask
<1>3. DataInv(I, C, d2, Task \ {runtsk}) /\ d2.tstat = k.tstat /\ ~d2.tmevtb[runtsk]
  BY <1>2, StopRunnable
<1> HIDE DEF d2
<1>4. (DataInv(I, C, k, Live))'
  BY <1>1, <1>3 DEF Live, Ending
<1>5. ContextInv'
  <2>1. (RunningIsRunnable)'
    BY <1>1 DEF RunningIsRunnable
  <2>2. (DispatchInv)'
    BY <1>1 DEF DispatchInv, RunsSchedtsk, NoLostRequest, DispatchAllowed, DspflgExact
  <2>3. frame' \in FrameType
    BY <1>1, <1>2 DEF FrameType
  <2>4. QED
    BY <1>1, <2>1, <2>2, <2>3 DEF KernelInv, ContextInv, PC
<1>6. LoopInv'
  BY <1>1, <1>2, <1>3 DEF LoopInv, Looping, IsDormant
<1>7. QED
  BY <1>4, <1>5, <1>6 DEF KernelInv

-----------------------------------------------------------------------------
(***************************************************************************)
(* The invariant holds.                                                    *)
(***************************************************************************)
LEMMA InitEstablishesInv ==
  ASSUME NEW I, NEW C, NoInfo \in I, NEW icb \in C, k = InitKernel(isemcnt, icb), InitContext
  PROVE  KernelInv(I, C)
<1>1. /\ k = InitKernel(isemcnt, icb)
      /\ runtsk = NoTask /\ pc = "boot" /\ frame = NoFrame
      /\ disdsp = FALSE /\ ipmflg = TRUE /\ dspflg = TRUE
      /\ reqflg = FALSE /\ excpt_nest_count = 1 /\ locked = FALSE
  BY DEF InitContext
<1>2. DataInv(I, C, k, Live)
  BY <1>1, InitData DEF Live, Ending
<1>3. ContextInv
  <2>1. 1 \in 0 .. MaxNest + 1
    BY DispatcherAssumption
  <2>2. NoFrame \in FrameType
    BY DEF NoFrame, FrameType
  <2>3. QED
    BY <1>1, <2>1, <2>2
       DEF ContextInv, PC, RunningIsRunnable, DispatchInv, RunsSchedtsk, NoLostRequest,
           DispatchAllowed, DspflgExact
<1>4. LoopInv
  BY <1>1 DEF LoopInv, Looping
<1>5. QED
  BY <1>2, <1>3, <1>4 DEF KernelInv

\* Every action keeps the invariant.
LEMMA NextKeepsInv ==
  ASSUME NEW I, NEW C, KernelInv(I, C), [Next]_vars
  PROVE  KernelInv(I, C)'
<1>1. ASSUME ProcessorNext PROVE KernelInv(I, C)'
  BY <1>1, BootKeeps, DispatchTaskKeeps, IdleKeeps, InterruptKeeps DEF ProcessorNext
<1>2. ASSUME TaskManageNext PROVE KernelInv(I, C)'
  <2>1. ASSUME NEW t \in Task, act_tsk(t) \/ iact_tsk(t) \/ can_act(t) PROVE KernelInv(I, C)'
    BY <2>1, ActivateKeeps
  <2>2. ASSUME NEW t \in Task, ter_tsk(t) PROVE KernelInv(I, C)'
    BY <2>2, TerminateKeeps
  <2>3. ASSUME NEW t \in Task, NEW pri \in Pri, chg_pri(t, pri) PROVE KernelInv(I, C)'
    BY <2>3, ChgPriKeeps
  <2>4. QED
    BY <1>2, <2>1, <2>2, <2>3, ExitKeeps, ReleaseAllKeeps, EndOfTaskKeeps
       DEF TaskManageNext
<1>3. ASSUME SemaphoreNext PROVE KernelInv(I, C)'
  <2>1. ASSUME NEW s \in Sem,
               \/ sig_sem(s) \/ isig_sem(s) \/ take_unit(s) \/ ini_sem(s)
               \/ \E timed \in BOOLEAN : wai_sem(s, timed)
        PROVE  KernelInv(I, C)'
    BY <2>1, SemaphoreKeeps
  <2>2. QED
    BY <1>3, <2>1, InitWaitQueueKeeps, IniSemEndKeeps DEF SemaphoreNext
<1>4. ASSUME MutexNext PROVE KernelInv(I, C)'
  <2>1. ASSUME NEW m \in Mtx,
               \/ lock_free_mtx(m) \/ unl_mtx(m) \/ ini_mtx(m)
               \/ \E timed \in BOOLEAN : wait_mtx(m, timed)
        PROVE  KernelInv(I, C)'
    BY <2>1, MutexKeeps
  <2>2. QED
    BY <1>4, <2>1, InitWaitQueueKeeps, IniMtxEndKeeps DEF MutexNext
<1>5. ASSUME UNCHANGED vars PROVE KernelInv(I, C)'
  <2>1. /\ k' = k /\ runtsk' = runtsk /\ pc' = pc /\ frame' = frame /\ disdsp' = disdsp
        /\ ipmflg' = ipmflg /\ dspflg' = dspflg /\ reqflg' = reqflg
        /\ excpt_nest_count' = excpt_nest_count /\ locked' = locked
    BY <1>5 DEF vars
  <2>2. (DataInv(I, C, k, Live))'
    BY <2>1 DEF KernelInv, Live, Ending
  <2>3. ContextInv'
    BY <2>1 DEF KernelInv, ContextInv, RunningIsRunnable, DispatchInv, RunsSchedtsk,
       NoLostRequest,
                DispatchAllowed, DspflgExact
  <2>4. LoopInv'
    BY <2>1 DEF KernelInv, LoopInv, Looping
  <2>5. QED
    BY <2>2, <2>3, <2>4 DEF KernelInv
<1>6. QED
  BY <1>1, <1>2, <1>3, <1>4, <1>5, FlagKeeps, RotateKeeps, SleepKeeps, ReleaseKeeps,
     SuspendKeeps, ForbidKeeps, TimeoutKeeps
     DEF Next

\* The start of the kernel with tasks, semaphores and mutexes only.
LEMMA InitEstablishesIInv == Init => IInv
<1>1. NoInfo \in {NoInfo} /\ [o \in ComObj |-> NoInfo] \in [ComObj -> {NoInfo}]
  OBVIOUS
<1>2. QED
  BY <1>1, InitEstablishesInv DEF Init, IInv

\* The kernel keeps its inductive invariant.
LEMMA IInvHolds == Spec => []IInv
<1>1. Init => IInv
  BY InitEstablishesIInv
<1>2. IInv /\ [Next]_vars => IInv'
  BY NextKeepsInv DEF IInv
<1>3. QED
  BY <1>1, <1>2, PTL DEF Spec

-----------------------------------------------------------------------------
(***************************************************************************)
(* What it says.                                                           *)
(***************************************************************************)
\* The parts of the data invariant, in the terms of module Kernel.
LEMMA LiveIsTask ==
  ASSUME NEW I, NEW C,
         KernelInv(I, C)
  PROVE  /\ Live \in SUBSET Task /\ DataInv(I, C, k, Live) /\ k \in KernelData(I, C)
         /\ \A t \in Task : t \notin Live => t \in Ending /\ ~IsDormant(k, t)
         /\ RunnableTasks(k) \ Ending = RunnableTasks(k) \cap Live
<1>1. Live \in SUBSET Task /\ DataInv(I, C, k, Live) /\ k \in KernelData(I, C)
  BY DEF KernelInv, Live, DataInv
<1>2. \A t \in Task : t \notin Live => t \in Ending /\ ~IsDormant(k, t)
  BY DEF KernelInv, Live, Ending, LoopInv, Looping
<1>3. RunnableTasks(k) \ Ending = RunnableTasks(k) \cap Live
  BY DEF RunnableTasks, Live
<1>4. QED
  BY <1>1, <1>2, <1>3

\* The inductive invariant holds the types.
LEMMA IInvTypeOK == IInv => TypeOK
<1> SUFFICES ASSUME IInv PROVE TypeOK
  OBVIOUS
<1>1. k \in KernelData({NoInfo}, [ComObj -> {NoInfo}])
  BY LiveIsTask DEF IInv
<1>2. ContextInv
  BY DEF IInv, KernelInv
<1>3. QED
  BY <1>1, <1>2 DEF TypeOK, ContextInv, KernelData

\* The queues are correct for the live tasks, which have all runnable ones.
LEMMA InvQueues ==
  ASSUME NEW I, NEW C, KernelInv(I, C)
  PROVE  ReadyQueueOK /\ WaitQueuesOK
<1>1. QueuesInv(k, Live) /\ RunnableTasks(k) \ Ending = RunnableTasks(k) \cap Live
  BY LiveIsTask DEF DataInv
<1>2. QED
  BY <1>1 DEF QueuesInv, ReadyQueueOK, WaitQueuesOK

\* A queue without a waiter is empty.
LEMMA InvNoIdleUnit ==
  ASSUME NEW I, NEW C, KernelInv(I, C)
  PROVE  NoIdleUnit
<1> SUFFICES ASSUME NEW s \in Sem
             PROVE  /\ k.semcnt[s] <= maxsem[s]
                    /\ k.semcnt[s] > 0 => k.wait_queue[s] = << >>
  BY DEF NoIdleUnit
<1>1. /\ Live \in SUBSET Task /\ DataInv(I, C, k, Live)
      /\ k.wait_queue \in [Obj -> Seq(Task)]
  BY LiveIsTask, DataTypes
<1>2. /\ k.semcnt[s] <= maxsem[s]
      /\ k.semcnt[s] > 0 => \A t \in Live : k.wobj[t] # s
  BY <1>1 DEF DataInv, ObjectsInv, UnitsInv
<1>3. s \in Obj
  BY DEF Obj
<1>4. \A t \in Task : t \in ToSet(k.wait_queue[s]) <=> t \in Live /\ k.wobj[t] = s
  BY <1>1, <1>3, WaitersFacts
<1>5. k.wait_queue[s] # << >> =>
         Head(k.wait_queue[s]) \in Task /\ Head(k.wait_queue[s]) \in ToSet(k.wait_queue[s])
  BY <1>1, <1>3, HeadIsEntry
<1>6. QED
  BY <1>2, <1>4, <1>5

\* Between two calls no mutex is unlinked from its owner's list.
LEMMA InvOneOwner ==
  ASSUME NEW I, NEW C, KernelInv(I, C)
  PROVE  OneOwner
  BY DEF KernelInv, DataInv, ObjectsInv, OwnersInv, OneOwner

\* The entries of the queue of a mutex wait for it.
LEMMA InvNoWaitForFreeMutex ==
  ASSUME NEW I, NEW C, KernelInv(I, C)
  PROVE  NoWaitForFreeMutex
<1> SUFFICES ASSUME NEW m \in Mtx, NEW i \in DOMAIN k.wait_queue[m]
             PROVE  k.loctsk[m] \notin {NoTask, k.wait_queue[m][i]}
  BY DEF NoWaitForFreeMutex
<1> DEFINE q == k.wait_queue[m]
<1>1. /\ Live \in SUBSET Task /\ DataInv(I, C, k, Live)
      /\ k.wait_queue \in [Obj -> Seq(Task)] /\ m \in Obj
  BY LiveIsTask, DataTypes DEF Obj
<1>2. q \in Seq(Task) /\ q[i] \in Task /\ q[i] \in ToSet(q)
  BY <1>1 DEF ToSet
<1>3. q[i] \in Live /\ k.wobj[q[i]] = m
  BY <1>1, <1>2, WaitersFacts
<1>4. QED
  BY <1>1, <1>3 DEF DataInv, ObjectsInv, WaitersInv

\* Priorities and ceilings of the live tasks.
LEMMA InvPriorities ==
  ASSUME NEW I, NEW C, KernelInv(I, C)
  PROVE  PriorityIsCeiling /\ CeilingRespected
<1>1. Live \in SUBSET Task /\ DataInv(I, C, k, Live)
  BY LiveIsTask
<1>2. PriorityIsCeiling
  BY <1>1 DEF DataInv, ObjectsInv, PrioritiesInv, PriorityIsCeiling
<1>3. CeilingRespected
  <2> SUFFICES ASSUME NEW m \in CeilMtx, NEW t \in Live,
                      m \in HeldBy(k, t) \/ k.wobj[t] = m
               PROVE  ceilpri[m] <= k.bpriority[t]
    BY DEF CeilingRespected
  <2>1. m \in Mtx /\ t \in Task
    BY <1>1, CeilingAssumption
  <2>2. m \in HeldBy(k, t) => k.loctsk[m] = t
    BY <1>1, <2>1 DEF DataInv, ObjectsInv, OwnersInv
  <2>3. QED
    BY <1>1, <2>2 DEF DataInv, ObjectsInv, CeilingsInv
<1>4. QED
  BY <1>2, <1>3

\* A dormant task owns no mutex, so its list is empty; it waits for nothing,
\* so that it has no timeout.
LEMMA InvDormantIsClean ==
  ASSUME NEW I, NEW C, KernelInv(I, C)
  PROVE  DormantIsClean
<1> SUFFICES ASSUME NEW t \in Task, IsDormant(k, t)
             PROVE  /\ ~k.actque[t] /\ ~k.wupque[t] /\ ~k.waifbd[t] /\ ~k.tmevtb[t]
                    /\ k.mutex_queue[t] = << >>
                    /\ k.bpriority[t] = ipriority[t] /\ k.rq.priority[t] = ipriority[t]
  BY DEF DormantIsClean
<1>1. /\ Live \in SUBSET Task /\ DataInv(I, C, k, Live)
      /\ k.mutex_queue \in [Task -> Seq(Mtx)]
  BY LiveIsTask, DataTypes
<1>2. /\ ~k.actque[t] /\ ~k.wupque[t] /\ ~k.waifbd[t]
      /\ \A m \in Mtx : k.loctsk[m] # t
      /\ k.bpriority[t] = ipriority[t] /\ k.rq.priority[t] = ipriority[t]
  BY <1>1 DEF DataInv, ObjectsInv, DormantInv
<1>3. ~k.tmevtb[t]
  BY <1>1, WaitersFacts DEF IsDormant, IsWaiting
<1>4. k.mutex_queue[t] = << >>
  <2> DEFINE q == k.mutex_queue[t]
  <2>1. q \in Seq(Mtx)
    BY <1>1
  <2>2. q # << >> => Head(q) \in Mtx /\ Head(q) \in ToSet(q)
    BY <2>1 DEF ToSet
  <2>3. \A m \in Mtx : m \in ToSet(q) => k.loctsk[m] = t
    BY <1>1 DEF DataInv, ObjectsInv, OwnersInv, HeldBy
  <2>4. QED
    BY <1>2, <2>2, <2>3
<1>5. QED
  BY <1>2, <1>3, <1>4

\* A task that ends may sleep in its records, no other.
LEMMA InvNoSleepOverWakeup ==
  ASSUME NEW I, NEW C, KernelInv(I, C)
  PROVE  NoSleepOverWakeup
<1> SUFFICES ASSUME NEW t \in Task, k.wobj[t] = "SLP"
             PROVE  ~k.wupque[t] \/ t \in Ending
  BY DEF NoSleepOverWakeup
<1>1. DataInv(I, C, k, Live) /\ (t \notin Live => t \in Ending)
  BY LiveIsTask
<1>2. QED
  BY <1>1 DEF DataInv, ObjectsInv, SleepersInv

-----------------------------------------------------------------------------
\* Every field of every control block keeps its type: no call stores NULL where
\* a task is expected, or a priority that has no list.
THEOREM Kernel_TypeOK == Spec => []TypeOK
  BY IInvHolds, IInvTypeOK, PTL

\* No call, no way out of an interrupt and no path of the idle loop forgets a
\* dispatch, or dispatches where it must not.
THEOREM Kernel_DispatchInv == Spec => []DispatchInv
<1>1. IInv => DispatchInv
  BY DEF IInv, KernelInv, ContextInv
<1>2. QED
  BY <1>1, IInvHolds, PTL

\* The processor executes only code of tasks that are in the runnable state.
THEOREM Kernel_RunningIsRunnable == Spec => []RunningIsRunnable
<1>1. IInv => RunningIsRunnable
  BY DEF IInv, KernelInv, ContextInv
<1>2. QED
  BY <1>1, IInvHolds, PTL

\* The ready queue, its bitmap and p_schedtsk agree with the states of the tasks
\* whatever calls are made of them, and in the midst of ext_tsk and ter_tsk.
THEOREM Kernel_ReadyQueueOK == Spec => []ReadyQueueOK
<1>1. IInv => ReadyQueueOK
  BY InvQueues DEF IInv
<1>2. QED
  BY <1>1, IInvHolds, PTL

\* A task is linked to the queue of the object that it waits for, and to no
\* other; TA_TPRI queues are in the order of the current priorities; and only
\* waiting tasks have timeouts.
THEOREM Kernel_WaitQueuesOK == Spec => []WaitQueuesOK
<1>1. IInv => WaitQueuesOK
  BY InvQueues DEF IInv
<1>2. QED
  BY <1>1, IInvHolds, PTL

\* No unit of a semaphore is left while somebody waits for one.
THEOREM Kernel_NoIdleUnit == Spec => []NoIdleUnit
<1>1. IInv => NoIdleUnit
  BY InvNoIdleUnit DEF IInv
<1>2. QED
  BY <1>1, IInvHolds, PTL

\* A mutex is in the list of its owner and of nobody else.
THEOREM Kernel_OneOwner == Spec => []OneOwner
<1>1. IInv => OneOwner
  BY InvOneOwner DEF IInv
<1>2. QED
  BY <1>1, IInvHolds, PTL

\* Nobody waits for a mutex that is free, or for its own.
THEOREM Kernel_NoWaitForFreeMutex == Spec => []NoWaitForFreeMutex
<1>1. IInv => NoWaitForFreeMutex
  BY InvNoWaitForFreeMutex DEF IInv
<1>2. QED
  BY <1>1, IInvHolds, PTL

\* The current priority of every task is the highest of its base priority and
\* of the ceilings of its mutexes, in whatever order it locks and unlocks them.
THEOREM Kernel_PriorityIsCeiling == Spec => []PriorityIsCeiling
<1>1. IInv => PriorityIsCeiling
  BY InvPriorities DEF IInv
<1>2. QED
  BY <1>1, IInvHolds, PTL

\* chg_pri and loc_mtx never leave a task above a ceiling that binds it.
THEOREM Kernel_CeilingRespected == Spec => []CeilingRespected
<1>1. IInv => CeilingRespected
  BY InvPriorities DEF IInv
<1>2. QED
  BY <1>1, IInvHolds, PTL

\* A task that has ended, by itself or by ter_tsk, has left nothing behind.
THEOREM Kernel_DormantIsClean == Spec => []DormantIsClean
<1>1. IInv => DormantIsClean
  BY InvDormantIsClean DEF IInv
<1>2. QED
  BY <1>1, IInvHolds, PTL

\* No task sleeps while a wakeup request for it is queued.
THEOREM Kernel_NoSleepOverWakeup == Spec => []NoSleepOverWakeup
<1>1. IInv => NoSleepOverWakeup
  BY InvNoSleepOverWakeup DEF IInv
<1>2. QED
  BY <1>1, IInvHolds, PTL

\* All of that at once.
THEOREM Kernel_SyncInv == Spec => []SyncInv
<1>1. IInv => SyncInv
  BY InvQueues, InvNoIdleUnit, InvOneOwner, InvPriorities, InvDormantIsClean
     DEF SyncInv, IInv, KernelInv, ContextInv, DispatchInv
<1>2. QED
  BY <1>1, IInvHolds, PTL

-----------------------------------------------------------------------------
(***************************************************************************)
(* Who is served.  From d to d2 an object is given to its first waiter     *)
(* only, nothing is given at a communication object, a queue in the order  *)
(* of arrival keeps its order, and of the queues of communication objects  *)
(* one at most changes, in which one task leaves or takes another place.   *)
(***************************************************************************)
Serves(d, d2, L) ==
  \A t \in L : d.wobj[t] \in Obj /\ d2.wobj[t] # d.wobj[t] /\ d2.wercd[t] = "E_OK"
                 => t = Head(d.wait_queue[d.wobj[t]]) /\ d.wobj[t] \notin ComObj

KeepsOrder(q, q2) ==
  \A t, u \in Task :
     /\ t # u /\ t \in ToSet(q) /\ (u \in ToSet(q) => Before(q, t, u))
     /\ t \in ToSet(q2) /\ u \in ToSet(q2)
     => Before(q2, t, u)

Moved(q, q2) ==
  \E i \in DOMAIN q : \/ q2 = RemoveAt(q, i)
                      \/ \E j \in DOMAIN q : q2 = InsertAt(RemoveAt(q, i), j, q[i])

OneQueueMoves(P, wq, wq2) ==
  \/ \A o \in P : wq2[o] = wq[o]
  \/ \E o \in P : Moved(wq[o], wq2[o]) /\ \A x \in P \ {o} : wq2[x] = wq[x]

InOrder(d, d2, L) ==
  /\ Serves(d, d2, L)
  /\ \A o \in Obj \ TPriObj : KeepsOrder(d.wait_queue[o], d2.wait_queue[o])
  /\ OneQueueMoves(ComObj, d.wait_queue, d2.wait_queue)

\* Unlinking and appending keep the order.
LEMMA KeepsOrderDelete ==
  ASSUME NEW q \in Seq(Task), NEW w, w \in ToSet(q), IsInjective(q)
  PROVE  KeepsOrder(q, queue_delete(q, w))
<1>1. ToSet(queue_delete(q, w)) = ToSet(q) \ {w}
  BY QueueDelete
<1>2. \A t, u \in Task : Before(queue_delete(q, w), t, u) <=> Before(q, t, u) /\ t # w /\ u # w
  BY QueueDeleteOrder
<1>3. QED
  BY <1>1, <1>2 DEF KeepsOrder

\* A task that arrives is behind all others.
LEMMA KeepsOrderAppend ==
  ASSUME NEW q \in Seq(Task), NEW w \in Task, w \notin ToSet(q), IsInjective(q)
  PROVE  KeepsOrder(q, Append(q, w))
<1> DEFINE r == Append(q, w)
<1>1. /\ ToSet(r) = ToSet(q) \cup {w}
      /\ \A t, u : t # w /\ u # w => (Before(r, t, u) <=> Before(q, t, u))
  BY AppendOrder
<1>2. \A t \in ToSet(q) : Before(r, t, w)
  <2> SUFFICES ASSUME NEW i \in DOMAIN q PROVE Before(r, q[i], w)
    BY DEF ToSet
  <2>1. /\ Len(r) = Len(q) + 1 /\ r \in Seq(Task)
        /\ r[i] = q[i] /\ r[Len(q) + 1] = w
    BY AppendProperties
  <2>2. i \in 1 .. Len(q) /\ Len(q) \in Nat
    OBVIOUS
  <2> HIDE DEF r
  <2>3. i \in DOMAIN r /\ Len(q) + 1 \in DOMAIN r /\ i < Len(q) + 1
    BY <2>1, <2>2
  <2>4. QED
    BY <2>1, <2>3 DEF Before
<1> HIDE DEF r
<1>3. KeepsOrder(q, r)
  BY <1>1, <1>2 DEF KeepsOrder
<1>4. QED
  BY <1>3 DEF r

\* Steps that leave waiters and queues alone.
LEMMA Untouched ==
  ASSUME NEW d, NEW d2, NEW L,
         \A t \in L : d.wobj[t] \in Obj => d2.wobj[t] = d.wobj[t],
         \A o \in Obj \ TPriObj : d2.wait_queue[o] = d.wait_queue[o],
         OneQueueMoves(ComObj, d.wait_queue, d2.wait_queue)
  PROVE  InOrder(d, d2, L)
  BY DEF InOrder, Serves, KeepsOrder

LEMMA NoneMoves ==
  ASSUME NEW P, NEW wq, NEW wq2, wq2 = wq
  PROVE  OneQueueMoves(P, wq, wq2)
  BY DEF OneQueueMoves

\* Steps in which one waiter leaves its queue.
LEMMA OneLeaves ==
  ASSUME NEW I, NEW C,
         NEW d \in KernelData(I, C), NEW L \in SUBSET Task, QueuesInv(d, L), NEW w \in L,
         NEW d2,
         \A t \in L \ {w} : d2.wobj[t] = d.wobj[t],
         \A o \in Obj : d2.wait_queue[o] = IF d.wobj[w] = o
                                           THEN queue_delete(d.wait_queue[o], w)
                                           ELSE d.wait_queue[o],
         d.wobj[w] \in Obj /\ d2.wobj[w] # d.wobj[w] /\ d2.wercd[w] = "E_OK"
           => w = Head(d.wait_queue[d.wobj[w]]) /\ d.wobj[w] \notin ComObj
  PROVE  InOrder(d, d2, L)
<1>1. Serves(d, d2, L)
  BY DEF Serves
<1>2. /\ d.wait_queue \in [Obj -> Seq(Task)]
      /\ \A o \in Obj : IsInjective(d.wait_queue[o])
      /\ \A t \in Task, o \in Obj : t \in ToSet(d.wait_queue[o]) <=> t \in L /\ d.wobj[t] = o
  <2>1. d.wait_queue \in [Obj -> Seq(Task)]
    BY DataTypes
  <2>2. QueuesOf(d.rq, d.tstat, d.wobj, d.tmevtb, d.wait_queue, L)
    BY QueuesAre
  <2>3. QED
    BY <2>1, <2>2 DEF QueuesOf
<1>3. ASSUME NEW o \in Obj \ TPriObj PROVE KeepsOrder(d.wait_queue[o], d2.wait_queue[o])
  <2> DEFINE q == d.wait_queue[o]
  <2>1. q \in Seq(Task) /\ IsInjective(q) /\ (d.wobj[w] = o => w \in ToSet(q))
    BY <1>2
  <2> HIDE DEF q
  <2>2. CASE d.wobj[w] = o
    BY <2>1, <2>2, KeepsOrderDelete DEF q
  <2>3. CASE d.wobj[w] # o
    BY <2>3 DEF KeepsOrder
  <2>4. QED
    BY <2>2, <2>3
<1>4. OneQueueMoves(ComObj, d.wait_queue, d2.wait_queue)
  <2> DEFINE o == d.wobj[w]
             q == d.wait_queue[o]
  <2>1. ComObj \subseteq Obj
    BY ObjNames
  <2>2. CASE o \in ComObj
    <3>1. q \in Seq(Task) /\ w \in ToSet(q)
      BY <1>2, <2>1, <2>2
    <3>2. d2.wait_queue[o] = queue_delete(q, w)
      BY <2>1, <2>2
    <3>3. \A x \in ComObj \ {o} : d2.wait_queue[x] = d.wait_queue[x]
      BY <2>1
    <3> HIDE DEF q
    <3>4. PICK n \in 1 .. Len(q) : queue_delete(q, w) = RemoveAt(q, n)
      BY <3>1, QueueDeleteEntries
    <3>5. n \in DOMAIN q
      BY <3>1
    <3>6. Moved(q, d2.wait_queue[o])
      BY <3>2, <3>4, <3>5 DEF Moved
    <3>7. QED
      BY <2>2, <3>3, <3>6 DEF OneQueueMoves, q
  <2>3. CASE o \notin ComObj
    BY <2>1, <2>3 DEF OneQueueMoves
  <2>4. QED
    BY <2>2, <2>3
<1>5. QED
  BY <1>1, <1>3, <1>4 DEF InOrder

\* What end_wait changes of waits and queues.
WaitsNoMore(d, d2, t, ercd) ==
  /\ d2.wobj = [d.wobj EXCEPT ![t] = NoObj]
  /\ d2.wercd = [d.wercd EXCEPT ![t] = ercd]
  /\ d2.wait_queue = d.wait_queue

\* It changes just that.
LEMMA EndWaitFields ==
  ASSUME NEW I, NEW C,
         NEW d \in KernelData(I, C), NEW t \in Task, NEW ercd \in ErCd
  PROVE  WaitsNoMore(d, end_wait(d, t, ercd), t, ercd)
<1> DEFINE d2 == end_wait(d, t, ercd)
           wobj2 == [d.wobj EXCEPT ![t] = NoObj]
           tmevtb2 == [d.tmevtb EXCEPT ![t] = FALSE]
           wercd2 == [d.wercd EXCEPT ![t] = ercd]
<1>1. CASE IsSuspended(d, t)
  <2> DEFINE tstat2 == [d.tstat EXCEPT ![t] = "SUSPENDED"]
  <2>1. d2 = [d EXCEPT !.tmevtb = tmevtb2, !.wercd = wercd2, !.tstat = tstat2, !.wobj = wobj2]
    BY <1>1 DEF end_wait, make_non_wait, wait_dequeue_tmevtb, IsSuspended, KernelData
  <2> HIDE DEF tstat2, wobj2, tmevtb2, wercd2, d2
  <2>2. d2.wobj = wobj2 /\ d2.wercd = wercd2 /\ d2.wait_queue = d.wait_queue
    BY <2>1 DEF KernelData
  <2>3. QED
    BY <2>2 DEF wobj2, wercd2, d2, WaitsNoMore
<1>2. CASE ~IsSuspended(d, t)
  <2> DEFINE tstat2 == [d.tstat EXCEPT ![t] = "RUNNABLE"]
             rq2 == make_runnable(d.rq, t)
  <2>1. d2 = [d EXCEPT !.tmevtb = tmevtb2, !.wercd = wercd2, !.tstat = tstat2, !.wobj = wobj2,
                       !.rq = rq2]
    BY <1>2 DEF end_wait, make_non_wait, wait_dequeue_tmevtb, IsSuspended, KernelData
  <2> HIDE DEF tstat2, wobj2, tmevtb2, wercd2, rq2, d2
  <2>2. d2.wobj = wobj2 /\ d2.wercd = wercd2 /\ d2.wait_queue = d.wait_queue
    BY <2>1 DEF KernelData
  <2>3. QED
    BY <2>2 DEF wobj2, wercd2, d2, WaitsNoMore
<1>3. QED
  BY <1>1, <1>2

\* What wait_dequeue_wobj changes of the queues.
LEMMA DequeuedFields ==
  ASSUME NEW I, NEW C,
         NEW d \in KernelData(I, C), NEW t \in Task
  PROVE  \A o \in Obj : wait_dequeue_wobj(d, t).wait_queue[o] =
                        IF d.wobj[t] = o THEN queue_delete(d.wait_queue[o], t)
                        ELSE d.wait_queue[o]
<1> DEFINE d1   == wait_dequeue_wobj(d, t)
           Left(o) == IF d.wobj[t] = o THEN queue_delete(d.wait_queue[o], t)
                      ELSE d.wait_queue[o]
           obj  == d.wobj[t]
           wq   == [d.wait_queue EXCEPT ![obj] = queue_delete(@, t)]
<1>1. d.wait_queue \in [Obj -> Seq(Task)]
  BY DataTypes
<1>2. CASE obj \in Obj
  <2>1. d1 = [d EXCEPT !.wait_queue = wq]
    BY <1>2 DEF wait_dequeue_wobj
  <2>2. \A o \in Obj : wq[o] = Left(o)
    BY <1>1, <1>2
  <2> HIDE DEF wq, d1
  <2>3. d1.wait_queue = wq
    BY <2>1 DEF KernelData
  <2>4. \A o \in Obj : d1.wait_queue[o] = Left(o)
    BY <2>2, <2>3
  <2>5. QED
    BY <2>4 DEF d1
<1>3. CASE obj \notin Obj
  BY <1>3 DEF wait_dequeue_wobj
<1>4. QED
  BY <1>2, <1>3

\* The end of a wait, with E_OK only for the first of its queue.
LEMMA WaitEndsInOrder ==
  ASSUME NEW I, NEW C,
         NEW d, NEW L \in SUBSET Task, DataInv(I, C, d, L),
         NEW t \in L, IsWaiting(d, t), NEW ercd \in ErCd,
         d.wobj[t] \in Obj /\ ercd = "E_OK"
           => t = Head(d.wait_queue[d.wobj[t]]) /\ d.wobj[t] \notin ComObj
  PROVE  InOrder(d, end_wait(wait_dequeue_wobj(d, t), t, ercd), L)
<1> DEFINE d1 == wait_dequeue_wobj(d, t)
           d2 == end_wait(d1, t, ercd)
<1>1. d \in KernelData(I, C) /\ QueuesInv(d, L) /\ t \in Task
  BY DEF DataInv
<1>2. d1 \in KernelData(I, C) /\ SameStates(d1, d) /\ SameWINFO(d1, d)
  BY <1>1, Dequeue
<1> DEFINE Left(o) == IF d.wobj[t] = o THEN queue_delete(d.wait_queue[o], t)
                      ELSE d.wait_queue[o]
<1>3. \A o \in Obj : d1.wait_queue[o] = Left(o)
  BY <1>1, DequeuedFields
<1> HIDE DEF d1
<1>4. /\ d2.wobj = [d1.wobj EXCEPT ![t] = NoObj]
      /\ d2.wercd = [d1.wercd EXCEPT ![t] = ercd]
      /\ d2.wait_queue = d1.wait_queue
  BY <1>1, <1>2, EndWaitFields DEF WaitsNoMore
<1> HIDE DEF d2
<1>5. d1.wobj = d.wobj /\ d.wobj \in [Task -> WaitKind] /\ d1.wercd \in [Task -> ErCd]
  BY <1>1, <1>2, DataTypes DEF SameStates
<1>6. /\ \A u \in L \ {t} : d2.wobj[u] = d.wobj[u]
      /\ d2.wercd[t] = ercd
  BY <1>1, <1>4, <1>5
<1>7. \A o \in Obj : d2.wait_queue[o] = IF d.wobj[t] = o
                                       THEN queue_delete(d.wait_queue[o], t)
                                       ELSE d.wait_queue[o]
  BY <1>3, <1>4
<1>8. d.wobj[t] \in Obj /\ d2.wobj[t] # d.wobj[t] /\ d2.wercd[t] = "E_OK"
        => t = Head(d.wait_queue[d.wobj[t]]) /\ d.wobj[t] \notin ComObj
  BY <1>6
<1>9. InOrder(d, d2, L)
  BY <1>1, <1>6, <1>7, <1>8, OneLeaves
<1>10. QED
  BY <1>9 DEF d2, d1

\* The first waiter of an object gets something or an error.
LEMMA FirstEndsInOrder ==
  ASSUME NEW I, NEW C,
         NEW d, NEW L \in SUBSET Task, DataInv(I, C, d, L),
         NEW o \in Obj, d.wait_queue[o] # << >>, NEW ercd \in ErCd,
         o \in ComObj => ercd # "E_OK"
  PROVE  InOrder(d, end_wait(queue_delete_next(d, o), Head(d.wait_queue[o]), ercd), L)
<1> DEFINE t == Head(d.wait_queue[o])
<1>1. t \in L /\ IsWaiting(d, t) /\ queue_delete_next(d, o) = wait_dequeue_wobj(d, t)
      /\ d.wobj[t] = o
  BY DequeueNext DEF DataInv
<1>2. d.wobj[t] \in Obj /\ ercd = "E_OK"
        => t = Head(d.wait_queue[d.wobj[t]]) /\ d.wobj[t] \notin ComObj
  BY <1>1
<1> HIDE DEF t
<1>3. InOrder(d, end_wait(wait_dequeue_wobj(d, t), t, ercd), L)
  BY <1>1, <1>2, WaitEndsInOrder
<1>4. QED
  BY <1>1, <1>3 DEF t

\* A mutex goes to its first waiter.
LEMMA MutexServesInOrder ==
  ASSUME NEW I, NEW C,
         NEW d \in KernelData(I, C), NEW L \in SUBSET Task, QueuesInv(d, L), NEW m \in Mtx
  PROVE  InOrder(d, mutex_release(d, m), L)
<1> DEFINE d2 == mutex_release(d, m)
<1>1. CASE d.wait_queue[m] = << >>
  <2>1. d2 = set_free(d, m)
    BY <1>1 DEF mutex_release, set_free
  <2>2. d2.wobj = d.wobj /\ d2.wait_queue = d.wait_queue
    BY <2>1 DEF set_free, KernelData
  <2> HIDE DEF d2
  <2>3. InOrder(d, d2, L)
    BY <2>2, Untouched, NoneMoves
  <2>4. QED
    BY <2>3 DEF d2
<1>2. CASE d.wait_queue[m] # << >>
  <2> DEFINE w == Head(d.wait_queue[m])
  <2>1. w \in L /\ d.wobj[w] = m /\ HandedOver(d, d2, w, m)
    BY <1>2, HandOver
  <2>2. /\ d.wait_queue \in [Obj -> Seq(Task)] /\ d.wobj \in [Task -> WaitKind]
        /\ m \in Obj /\ IsInjective(d.wait_queue[m])
    <3>1. QueuesOf(d.rq, d.tstat, d.wobj, d.tmevtb, d.wait_queue, L)
      BY QueuesAre
    <3>2. QED
      BY <3>1, DataTypes, ObjNames DEF QueuesOf
  <2>3. Tail(d.wait_queue[m]) = queue_delete(d.wait_queue[m], w)
    BY <1>2, <2>2, TailIsQueueDelete
  <2>4. w = Head(d.wait_queue[d.wobj[w]]) /\ d.wobj[w] \notin ComObj
    BY <2>1, ObjAssumption
  <2> HIDE DEF w, d2
  <2>5. d2.wobj = [d.wobj EXCEPT ![w] = NoObj]
        /\ d2.wait_queue = [d.wait_queue EXCEPT ![m] = queue_delete(@, w)]
    BY <2>1, <2>3 DEF HandedOver
  <2>6. \A t \in L \ {w} : d2.wobj[t] = d.wobj[t]
    BY <2>1, <2>2, <2>5
  <2>7. \A o \in Obj : d2.wait_queue[o] = IF d.wobj[w] = o
                                         THEN queue_delete(d.wait_queue[o], w)
                                         ELSE d.wait_queue[o]
    BY <2>1, <2>2, <2>5
  <2>8. InOrder(d, d2, L)
    BY <2>1, <2>4, <2>6, <2>7, OneLeaves
  <2>9. QED
    BY <2>8 DEF d2
<1>3. QED
  BY <1>1, <1>2

\* d2 has the waiters and the queues in the order of arrival of d.
SameWaits(d2, d) ==
  /\ d2.wobj = d.wobj /\ \A o \in Obj \ TPriObj : d2.wait_queue[o] = d.wait_queue[o]
  /\ OneQueueMoves(ComObj, d.wait_queue, d2.wait_queue)

\* If t waits for an object it is in its queue.
Queued(d, t) == d.wobj[t] \in Obj => t \in ToSet(d.wait_queue[d.wobj[t]])

LEMMA WaitersQueued ==
  ASSUME NEW d, NEW L, QueuesInv(d, L), NEW t \in L, t \in Task
  PROVE  Queued(d, t)
  BY DEF Queued, QueuesInv, WaitQueueInv, QueuedWhereWaiting

\* Unlinking a task and queueing it by its priority gives it another place.
LEMMA RequeuedMoved ==
  ASSUME NEW q \in Seq(Task), NEW t, t \in ToSet(q), NEW priority
  PROVE  Moved(q, queue_insert_tpri(queue_delete(q, t), t, priority))
<1> DEFINE r == queue_delete(q, t)
<1>1. PICK n \in 1 .. Len(q) : q[n] = t /\ r = RemoveAt(q, n) /\ r \in Seq(Task) /\ Len(r) = Len(q) - 1
  BY QueueDeleteEntries
<1> HIDE DEF r
<1>2. PICK j \in 1 .. Len(r) + 1 : queue_insert_tpri(r, t, priority) = InsertAt(r, j, t)
  BY <1>1, InsertTpriPlace
<1>3. n \in DOMAIN q /\ j \in DOMAIN q
  BY <1>1
<1>4. Moved(q, queue_insert_tpri(r, t, priority))
  BY <1>1, <1>2, <1>3 DEF Moved
<1>5. QED
  BY <1>4 DEF r

LEMMA SameFields ==
  ASSUME NEW d, NEW d2, d2.wobj = d.wobj, d2.wait_queue = d.wait_queue
  PROVE  SameWaits(d2, d)
  BY NoneMoves DEF SameWaits

\* Such a change serves nobody and keeps every order.
LEMMA SameWaitsInOrder ==
  ASSUME NEW d, NEW d2, SameWaits(d2, d), NEW L PROVE InOrder(d, d2, L)
  BY Untouched DEF SameWaits

\* A change of priority moves a task in no queue but the ready queue and those
\* in the order of priority.
LEMMA ChangePriorityWaits ==
  ASSUME NEW I, NEW C,
         NEW d \in KernelData(I, C), NEW t \in Task, NEW newpri \in Pri, NEW mtxmode \in BOOLEAN,
         IsRunnable(d, t) \/ Queued(d, t)
  PROVE  LET d2 == change_priority(d, t, newpri, mtxmode)
         IN  SameWaits(d2, d) /\ (IsRunnable(d, t) => d2.wait_queue = d.wait_queue)
<1> DEFINE d2 == change_priority(d, t, newpri, mtxmode)
<1>1. CASE IsRunnable(d, t)
  <2> DEFINE rq2 == requeue(d.rq, t, newpri, mtxmode)
  <2>1. d2 = [d EXCEPT !.rq = rq2]
    BY <1>1 DEF change_priority
  <2> HIDE DEF rq2, d2
  <2>2. d2.wobj = d.wobj /\ d2.wait_queue = d.wait_queue
    BY <2>1 DEF KernelData
  <2>3. QED
    BY <2>2, NoneMoves DEF SameWaits, d2
<1>2. CASE ~IsRunnable(d, t)
  <2> DEFINE d1 == [d EXCEPT !.rq.priority[t] = newpri]
             o  == d.wobj[t]
  <2>1. d1.wobj = d.wobj /\ d1.wait_queue = d.wait_queue
    BY DEF KernelData
  <2>2. d1 \in [rq : {d1.rq}, tstat : [Task -> TStat], wobj : [Task -> WaitKind],
                tmevtb : [Task -> BOOLEAN], wercd : [Task -> ErCd],
                bpriority : [Task -> Pri],
                actque : [Task -> BOOLEAN], wupque : [Task -> BOOLEAN],
                waifbd : [Task -> BOOLEAN],
                wait_queue : [Obj -> Seq(Task)],
                semcnt : [Sem -> Nat],
                loctsk : [Mtx -> Task \cup {NoTask}],
                mutex_queue : [Task -> Seq(Mtx)],
                winfo : [Task -> I], cb : C]
    BY DEF KernelData
  <2>3. d2 = IF o \in Obj THEN wobj_change_priority(d1, t, o) ELSE d1
    <3>1. d1.wobj[t] = o
      BY <2>1
    <3>2. QED
      BY <1>2, <3>1 DEF change_priority
  <2> HIDE DEF d1
  <2>4. CASE o \in Obj /\ o \in TPriObj
    <3> DEFINE wq == [d1.wait_queue EXCEPT ![o] =
                        queue_insert_tpri(queue_delete(@, t), t, d1.rq.priority)]
    <3>1. d2 = [d1 EXCEPT !.wait_queue = wq]
      BY <2>3, <2>4 DEF wobj_change_priority
    <3>2. d1.wait_queue \in [Obj -> Seq(Task)]
      BY <2>2
    <3>3. \A x \in Obj \ TPriObj : wq[x] = d1.wait_queue[x]
      BY <2>4, <3>2
    <3>4. OneQueueMoves(ComObj, d1.wait_queue, wq)
      <4>1. t \in ToSet(d1.wait_queue[o]) /\ d1.wait_queue[o] \in Seq(Task)
        BY <1>2, <2>1, <2>4, <3>2 DEF Queued
      <4>2. Moved(d1.wait_queue[o],
                  queue_insert_tpri(queue_delete(d1.wait_queue[o], t), t, d1.rq.priority))
        BY <4>1, RequeuedMoved
      <4>3. wq[o] = queue_insert_tpri(queue_delete(d1.wait_queue[o], t), t, d1.rq.priority)
            /\ \A x \in Obj \ {o} : wq[x] = d1.wait_queue[x]
        BY <2>4, <3>2
      <4> HIDE DEF wq, o
      <4>4. ComObj \subseteq Obj
        BY ObjNames
      <4>5. QED
        BY <4>2, <4>3, <4>4 DEF OneQueueMoves
    <3> HIDE DEF wq, d2
    <3>5. d2.wobj = d1.wobj /\ d2.wait_queue = wq
      BY <2>2, <3>1
    <3>6. SameWaits(d2, d)
      BY <2>1, <3>3, <3>4, <3>5 DEF SameWaits
    <3>7. QED
      BY <1>2, <3>6 DEF d2
  <2>5. CASE ~(o \in Obj /\ o \in TPriObj)
    <3>1. d2 = d1
      BY <2>3, <2>5 DEF wobj_change_priority
    <3>2. SameWaits(d2, d)
      BY <2>1, <3>1, NoneMoves DEF SameWaits
    <3>3. QED
      BY <1>2, <3>2
  <2>6. QED
    BY <2>4, <2>5
<1>3. QED
  BY <1>1, <1>2

\* Nor does the end of a ceiling.
LEMMA DropCeilingWaits ==
  ASSUME NEW I, NEW C,
         NEW d \in KernelData(I, C), NEW t \in Task, NEW m \in Mtx,
         IsRunnable(d, t) \/ Queued(d, t)
  PROVE  LET d2 == drop_ceiling(d, t, m)
         IN  SameWaits(d2, d) /\ (IsRunnable(d, t) => d2.wait_queue = d.wait_queue)
<1> DEFINE newpri == mutex_calc_priority(d, t)
           d2 == drop_ceiling(d, t, m)
<1>1. newpri \in Pri
  BY CalcPriority
<1> HIDE DEF newpri
<1>2. d2 = d \/ d2 = change_priority(d, t, newpri, TRUE)
  BY DEF drop_ceiling, mutex_drop_priority, newpri
<1> HIDE DEF d2
<1>3. CASE d2 = d
  BY <1>3, NoneMoves DEF SameWaits, d2
<1>4. CASE d2 = change_priority(d, t, newpri, TRUE)
  BY ZenonT(60), <1>1, <1>4, ChangePriorityWaits DEF d2
<1>5. QED
  BY <1>2, <1>3, <1>4

\* Nor does a ceiling that a task takes on.
LEMMA AcquireWaits ==
  ASSUME NEW I, NEW C,
         NEW d \in KernelData(I, C), NEW t \in Task, IsRunnable(d, t), NEW m \in Mtx
  PROVE  SameWaits(mutex_acquire(d, t, m), d)
<1> DEFINE loctsk2 == [d.loctsk EXCEPT ![m] = t]
           mutex_queue2 == [d.mutex_queue EXCEPT ![t] = << m >> \o @]
           d1 == [d EXCEPT !.loctsk = loctsk2, !.mutex_queue = mutex_queue2]
           d2 == mutex_acquire(d, t, m)
<1>1. /\ loctsk2 \in [Mtx -> Task \cup {NoTask}]
      /\ mutex_queue2 \in [Task -> Seq(Mtx)]
  BY DataTypes
<1>2. m \in CeilMtx => ceilpri[m] \in Pri
  BY CeilingAssumption
<1>3. \/ d2 = d1
      \/ m \in CeilMtx /\ d2 = change_priority(d1, t, ceilpri[m], TRUE)
  BY DEF mutex_acquire, mutex_raise_priority
<1> HIDE DEF loctsk2, mutex_queue2, d2
<1>4. /\ d1 \in KernelData(I, C) /\ d1.wobj = d.wobj /\ d1.wait_queue = d.wait_queue
      /\ IsRunnable(d1, t)
  BY <1>1 DEF KernelData, IsRunnable
<1> HIDE DEF d1
<1>5. SameWaits(d2, d1)
  <2>1. CASE d2 = d1
    BY <2>1, NoneMoves DEF SameWaits
  <2>2. CASE m \in CeilMtx /\ d2 = change_priority(d1, t, ceilpri[m], TRUE)
    BY <1>2, <1>4, <2>2, ChangePriorityWaits
  <2>3. QED
    BY <1>3, <2>1, <2>2
<1>6. SameWaits(d2, d)
  BY <1>4, <1>5 DEF SameWaits
<1>7. QED
  BY <1>6 DEF d2

\* unl_mtx: nobody but the first waiter gets the mutex, wherever the drop of
\* its owner's priority leaves that task.
LEMMA UnlockInOrder ==
  ASSUME NEW I, NEW C,
         NEW d, DataInv(I, C, d, Task), NEW m \in Mtx, NEW t \in Task, d.loctsk[m] = t,
         IsRunnable(d, t)
  PROVE  InOrder(d, mutex_release(drop_ceiling(unlink(d, m), t, m), m), Task)
<1> DEFINE d1 == unlink(d, m)
           dropped == drop_ceiling(d1, t, m)
           d2 == mutex_release(dropped, m)
<1>1. d \in KernelData(I, C) /\ QueuesInv(d, Task) /\ Task \in SUBSET Task
  BY DEF DataInv
<1>2. /\ OnlyOwners(I, C, d, d1) /\ HeldBy(d1, t) = HeldBy(d, t) \ {m}
      /\ ObjectsBut(d1, Task, {m}, Task \ {t})
  BY <1>1, Unlink DEF Unlinked
<1>3. d1.wobj = d.wobj /\ d1.wait_queue = d.wait_queue
  BY <1>2 DEF OnlyOwners, SameStates
<1> HIDE DEF d1
<1>4. /\ d1 \in KernelData(I, C) /\ QueuesInv(d1, Task) /\ Keeps(d, d1) /\ IsRunnable(d1, t)
      /\ d1.rq.priority = d.rq.priority /\ d1.bpriority = d.bpriority /\ d1.tstat = d.tstat
  BY <1>1, <1>2, OnlyOwnersKeeps DEF OnlyOwners, IsRunnable
<1>5. dropped \in KernelData(I, C) /\ QueuesInv(dropped, Task)
  BY <1>2, <1>4, Drops
<1>6. dropped.wobj = d.wobj /\ dropped.wait_queue = d.wait_queue
  BY <1>3, <1>4, DropCeilingWaits DEF SameWaits
<1> HIDE DEF dropped
<1>7. InOrder(dropped, d2, Task)
  BY <1>1, <1>5, MutexServesInOrder
<1> HIDE DEF d2
<1>8. InOrder(d, d2, Task)
  BY <1>6, <1>7 DEF InOrder, Serves
<1>9. QED
  BY <1>8 DEF d2, dropped, d1

\* The end of ini_mtx takes the mutex from its owner and gives it to nobody.
LEMMA IniMtxEndInOrder ==
  ASSUME NEW I, NEW C,
         NEW d, DataInv(I, C, d, Task), NEW m \in Mtx, NEW t \in Task, d.loctsk[m] = t,
         NoWaiter(d, m)
  PROVE  InOrder(d, drop_ceiling(set_free(unlink(d, m), m), t, m), Task)
<1> DEFINE d0 == unlink(d, m)
           d1 == set_free(d0, m)
           d2 == drop_ceiling(d1, t, m)
<1>1. d \in KernelData(I, C) /\ QueuesInv(d, Task) /\ Task \in SUBSET Task
  BY DEF DataInv
<1>2. OnlyOwners(I, C, d, d0) /\ ObjectsBut(d0, Task, {m}, Task \ {t})
  BY <1>1, Unlink DEF Unlinked
<1> HIDE DEF d0
<1>3. d0 \in KernelData(I, C) /\ QueuesInv(d0, Task) /\ NoWaiter(d0, m)
  BY <1>1, <1>2, OnlyOwnersKeeps DEF OnlyOwners, NoWaiter
<1>4. d1 \in KernelData(I, C)
  BY <1>1, <1>2, <1>3, ReleaseFree
<1>5. d1.wobj = d.wobj /\ d1.wait_queue = d.wait_queue
  BY <1>2, <1>3 DEF set_free, OnlyOwners, SameStates, KernelData
<1> HIDE DEF d1
<1>0. Queued(d1, t)
  BY <1>1, <1>5, WaitersQueued DEF Queued
<1>6. SameWaits(d2, d1)
  BY <1>0, <1>4, DropCeilingWaits
<1> HIDE DEF d2
<1>7. SameWaits(d2, d)
  BY <1>5, <1>6 DEF SameWaits
<1>8. InOrder(d, d2, Task)
  BY <1>7, SameWaitsInOrder
<1>9. QED
  BY <1>8 DEF d2, d1, d0

\* A turn of mutex_release_all.
LEMMA ReleaseAllInOrder ==
  ASSUME NEW I, NEW C,
         NEW d, NEW e \in Task, DataInv(I, C, d, Task \ {e}), d.mutex_queue[e] # << >>
  PROVE  LET m == Head(d.mutex_queue[e])
         IN  InOrder(d, mutex_release(unlink(d, m), m), Task \ {e})
<1> DEFINE m  == Head(d.mutex_queue[e])
           d1 == unlink(d, m)
           d2 == mutex_release(d1, m)
           L  == Task \ {e}
<1>1. d \in KernelData(I, C) /\ QueuesInv(d, L) /\ OwnersInv(d, {})
  BY DEF DataInv, ObjectsInv
<1>2. d.mutex_queue[e] \in Seq(Mtx)
  BY <1>1, DataTypes
<1>3. m \in Mtx /\ m \in HeldBy(d, e)
  BY <1>2, HeadIsEntry DEF HeldBy
<1> HIDE DEF m
<1>4. d.loctsk[m] = e /\ L \in SUBSET Task
  BY <1>1, <1>3 DEF OwnersInv
<1>5. DataInv(I, C, d, L)
  OBVIOUS
<1> HIDE DEF L
<1>6. OnlyOwners(I, C, d, d1)
  BY <1>3, <1>4, <1>5, Unlink DEF Unlinked
<1> HIDE DEF d1
<1>7. /\ d1 \in KernelData(I, C) /\ QueuesInv(d1, L) /\ d1.wobj = d.wobj
      /\ d1.wait_queue = d.wait_queue
  BY <1>1, <1>4, <1>6, OnlyOwnersKeeps DEF OnlyOwners
<1>8. InOrder(d1, d2, L)
  BY <1>3, <1>4, <1>7, MutexServesInOrder
<1> HIDE DEF d2
<1>9. InOrder(d, d2, L)
  BY <1>7, <1>8 DEF InOrder, Serves
<1>10. QED
  BY <1>9 DEF d2, d1, m, L

\* A task joins the queue of what it waits for.
LEMMA JoinsInOrder ==
  ASSUME NEW I, NEW C,
         NEW d, DataInv(I, C, d, Task), NEW t \in Task, IsRunnable(d, t), NEW o \in Obj \ ComObj,
         NEW timed \in BOOLEAN
  PROVE  InOrder(d, wobj_make_wait(d, t, o, timed), Task)
<1> DEFINE rq2 == make_non_runnable(d.rq, t)
           tstat2 == [d.tstat EXCEPT ![t] = "WAITING"]
           wobj2 == [d.wobj EXCEPT ![t] = o]
           tmevtb2 == [d.tmevtb EXCEPT ![t] = timed]
           q2 == IF o \in TPriObj THEN queue_insert_tpri(d.wait_queue[o], t, rq2.priority)
                 ELSE Append(d.wait_queue[o], t)
           wq2 == [d.wait_queue EXCEPT ![o] = q2]
           d2 == wobj_make_wait(d, t, o, timed)
<1>1. d \in KernelData(I, C) /\ QueuesInv(d, Task) /\ Task \in SUBSET Task
  BY DEF DataInv
<1>2. /\ d.wait_queue \in [Obj -> Seq(Task)] /\ d.wobj \in [Task -> WaitKind]
      /\ IsInjective(d.wait_queue[o])
      /\ d.wobj[t] = NoObj /\ t \notin ToSet(d.wait_queue[o])
  <2>1. QueuesOf(d.rq, d.tstat, d.wobj, d.tmevtb, d.wait_queue, Task)
    BY <1>1, QueuesAre
  <2>2. d.wobj[t] = NoObj
    BY <2>1 DEF QueuesOf, IsRunnable
  <2>3. QED
    BY <1>1, <2>1, <2>2, DataTypes, ObjNames DEF QueuesOf
<1>3. d2 = [d EXCEPT !.rq = rq2, !.tstat = tstat2, !.wobj = wobj2, !.tmevtb = tmevtb2,
                     !.wait_queue = wq2]
  BY <1>1 DEF wobj_make_wait, make_wait, wobj_queue_insert, KernelData
<1> HIDE DEF rq2, tstat2, tmevtb2, d2, wq2, wobj2
<1>4. d2.wobj = wobj2 /\ d2.wait_queue = wq2
  BY <1>1, <1>3 DEF KernelData
<1>5. Serves(d, d2, Task)
  BY <1>2, <1>4, ObjNames DEF Serves, wobj2
<1>6. ASSUME NEW x \in Obj \ TPriObj PROVE KeepsOrder(d.wait_queue[x], d2.wait_queue[x])
  <2>1. CASE x = o
    <3>1. d2.wait_queue[x] = Append(d.wait_queue[o], t)
      BY <1>2, <1>4, <2>1 DEF wq2
    <3>2. KeepsOrder(d.wait_queue[o], Append(d.wait_queue[o], t))
      BY <1>2, KeepsOrderAppend
    <3>3. QED
      BY <2>1, <3>1, <3>2
  <2>2. CASE x # o
    BY <1>2, <1>4, <2>2 DEF KeepsOrder, wq2
  <2>3. QED
    BY <2>1, <2>2
<1>7. OneQueueMoves(ComObj, d.wait_queue, d2.wait_queue)
  <2>1. \A x \in ComObj : x \in Obj /\ x # o
    BY ObjNames
  <2>2. QED
    BY <1>2, <1>4, <2>1 DEF OneQueueMoves, wq2
<1>8. InOrder(d, d2, Task)
  BY <1>5, <1>6, <1>7 DEF InOrder
<1>9. QED
  BY <1>8 DEF d2

\* wup_tsk ends a sleep, which is in no queue.
LEMMA WakeupInOrder ==
  ASSUME NEW I, NEW C,
         NEW d, DataInv(I, C, d, Task), NEW t \in Task
  PROVE  InOrder(d, wakeup(d, t), Task)
<1> DEFINE d2 == wakeup(d, t)
<1>1. d \in KernelData(I, C) /\ d.wobj \in [Task -> WaitKind] /\ "E_OK" \in ErCd
  BY DataTypes DEF DataInv, ErCd
<1>2. CASE d.wobj[t] = "SLP"
  <2>1. d2 = end_wait(d, t, "E_OK")
    BY <1>2 DEF wakeup, wait_complete
  <2> HIDE DEF d2
  <2>2. d2.wobj = [d.wobj EXCEPT ![t] = NoObj] /\ d2.wait_queue = d.wait_queue
    <3> DEFINE d3 == end_wait(d, t, "E_OK")
               ercd == "E_OK"
    <3>1. ercd \in ErCd /\ d \in KernelData(I, C) /\ d3 = end_wait(d, t, ercd)
      BY <1>1
    <3> HIDE DEF ercd, d3
    <3>2. d3.wobj = [d.wobj EXCEPT ![t] = NoObj] /\ d3.wait_queue = d.wait_queue
      <4>1. WaitsNoMore(d, d3, t, ercd)
        BY <3>1, EndWaitFields
      <4>2. QED
        BY <4>1 DEF WaitsNoMore
    <3>3. d2 = d3
      BY <2>1 DEF d3
    <3>4. QED
      BY <3>2, <3>3
  <2>3. \A u \in Task : d.wobj[u] \in Obj => d2.wobj[u] = d.wobj[u]
    BY <1>1, <1>2, <2>2, ObjNames
  <2>4. InOrder(d, d2, Task)
    BY <2>2, <2>3, Untouched, NoneMoves
  <2>5. QED
    BY <2>4 DEF d2
<1>3. CASE d.wobj[t] # "SLP"
  <2>1. d2 = [d EXCEPT !.wupque[t] = TRUE]
    BY <1>3 DEF wakeup
  <2>2. d2.wobj = d.wobj /\ d2.wait_queue = d.wait_queue
    BY <1>1, <2>1 DEF KernelData
  <2>3. QED
    BY <2>2, SameFields, SameWaitsInOrder
<1>4. QED
  BY <1>2, <1>3

\* sig_sem gives its unit to the first waiter.
LEMMA SignalInOrder ==
  ASSUME NEW I, NEW C,
         NEW d, DataInv(I, C, d, Task), NEW s \in Sem
  PROVE  InOrder(d, signal(d, s), Task)
<1>1. /\ d \in KernelData(I, C) /\ s \in Obj /\ "E_OK" \in ErCd /\ Task \in SUBSET Task
      /\ s \notin ComObj
  BY ObjNames, ObjAssumption DEF DataInv, ErCd
<1>2. CASE d.wait_queue[s] # << >>
  BY <1>1, <1>2, FirstEndsInOrder DEF signal, wait_complete
<1>3. CASE d.wait_queue[s] = << >>
  <2> DEFINE d2 == [d EXCEPT !.semcnt[s] = @ + 1]
  <2>1. d2.wobj = d.wobj /\ d2.wait_queue = d.wait_queue
    BY <1>1 DEF KernelData
  <2>2. signal(d, s) = d2
    BY <1>3 DEF signal
  <2>3. QED
    BY <2>1, <2>2, SameFields, SameWaitsInOrder
<1>4. QED
  BY <1>2, <1>3

\* rel_wai and an expired timeout take a task out of the middle of a queue, and
\* give it nothing.
LEMMA ReleasedInOrder ==
  ASSUME NEW I, NEW C,
         NEW d, DataInv(I, C, d, Task), NEW t \in Task, IsWaiting(d, t)
  PROVE  InOrder(d, wait_release(d, t), Task) /\ InOrder(d, wait_expire(d, t), Task)
<1>1. Task \in SUBSET Task /\ {"E_OK", "E_TMOUT", "E_RLWAI"} \subseteq ErCd
  BY DEF ErCd
<1>2. InOrder(d, wait_release(d, t), Task)
  BY <1>1, WaitEndsInOrder DEF wait_release
<1>3. InOrder(d, wait_expire(d, t), Task)
  <2> DEFINE ercd == IF d.wobj[t] = "DLY" THEN "E_OK" ELSE "E_TMOUT"
  <2>1. ercd \in ErCd /\ (d.wobj[t] \in Obj => ercd # "E_OK")
    BY <1>1, ObjNames
  <2> HIDE DEF ercd
  <2>2. InOrder(d, end_wait(wait_dequeue_wobj(d, t), t, ercd), Task)
    BY <1>1, <2>1, WaitEndsInOrder
  <2>3. QED
    BY <2>2 DEF wait_expire, ercd
<1>4. QED
  BY <1>2, <1>3

\* ter_tsk takes a task out of the middle of a queue, too.
LEMMA StopInOrder ==
  ASSUME NEW I, NEW C,
         NEW d, DataInv(I, C, d, Task), NEW t \in Task, IsWaiting(d, t)
  PROVE  InOrder(d, stop_waiting(d, t), Task)
<1> DEFINE d1 == wait_dequeue_wobj(d, t)
           tmevtb2 == [d1.tmevtb EXCEPT ![t] = FALSE]
           d2 == stop_waiting(d, t)
<1>1. d \in KernelData(I, C) /\ QueuesInv(d, Task) /\ Task \in SUBSET Task
  BY DEF DataInv
<1>2. d1 \in KernelData(I, C) /\ SameStates(d1, d)
  BY <1>1, Dequeue
<1> DEFINE Left(o) == IF d.wobj[t] = o THEN queue_delete(d.wait_queue[o], t)
                      ELSE d.wait_queue[o]
<1>3. \A o \in Obj : d1.wait_queue[o] = Left(o)
  BY <1>1, DequeuedFields
<1>4. d2 = [d1 EXCEPT !.tmevtb = tmevtb2]
  BY DEF stop_waiting, wait_dequeue_tmevtb
<1> HIDE DEF d1, d2, tmevtb2
<1>5. d2.wobj = d.wobj /\ d2.wait_queue = d1.wait_queue
  BY <1>2, <1>4 DEF SameStates, KernelData
<1>6. \A o \in Obj : d2.wait_queue[o] = IF d.wobj[t] = o
                                       THEN queue_delete(d.wait_queue[o], t)
                                       ELSE d.wait_queue[o]
  BY <1>3, <1>5
<1>7. InOrder(d, d2, Task)
  BY <1>1, <1>5, <1>6, OneLeaves
<1>8. QED
  BY <1>7 DEF d2

\* Nobody is served when a task becomes dormant or starts again.
LEMMA EndInOrder ==
  ASSUME NEW I, NEW C,
         NEW d \in KernelData(I, C), NEW e \in Task
  PROVE  InOrder(d, reactivate(make_dormant(d, e), e), Task \ {e})
<1> DEFINE d1 == make_dormant(d, e)
           d2 == reactivate(d1, e)
<1>1. /\ \A t \in Task \ {e} : d1.wobj[t] = d.wobj[t]
      /\ d1.wait_queue = d.wait_queue
  BY DEF make_dormant, KernelData
<1>2. d2.wobj = d1.wobj /\ d2.wait_queue = d1.wait_queue
  BY SMTT(60) DEF reactivate, make_active, make_dormant, KernelData
<1> HIDE DEF d1, d2
<1>3. InOrder(d, d2, Task \ {e})
  BY <1>1, <1>2, Untouched, NoneMoves
<1>4. QED
  BY <1>3 DEF d2, d1

\* Every step serves the waiters in order.
LEMMA NextInOrder ==
  ASSUME NEW I, NEW C, KernelInv(I, C), [Next]_vars
  PROVE  InOrder(k, k', Live)
<1> DEFINE Goal == InOrder(k, k', Live)
<1>1. k \in KernelData(I, C)
  BY DEF KernelInv, DataInv
<1>2. ASSUME SameWaits(k', k) PROVE Goal
  BY <1>2, SameWaitsInOrder
<1> HIDE DEF Goal
\* The data stays what it is, or changes where no wait is.
<1>3. ASSUME k' = k PROVE Goal
  BY <1>2, <1>3, NoneMoves DEF SameWaits
<1>4. ASSUME NEW t \in Task,
             \/ k' = make_active(k, t) \/ k' = suspend(k, t)
             \/ k' = [k EXCEPT !.rq = make_non_runnable(@, t)]
             \/ \E s : k' = set_tstat(k, t, s)
             \/ \E b : \/ k' = [k EXCEPT !.wupque[t] = b] \/ k' = [k EXCEPT !.actque[t] = b]
                       \/ k' = [k EXCEPT !.waifbd[t] = b]
      PROVE  Goal
  <2>1. k'.wobj = k.wobj /\ k'.wait_queue = k.wait_queue
    BY <1>1, <1>4 DEF make_active, suspend, set_tstat, KernelData
  <2>2. QED
    BY <1>2, <2>1, SameFields
<1>5. ASSUME ProcessorNext \/ FlagNext \/ RotateNext PROVE Goal
  <2>1. ASSUME NEW t \in Task, ActivateAtBoot(t) PROVE Goal
    BY <1>4, <2>1 DEF ActivateAtBoot
  <2>2. ASSUME DispatchTask PROVE Goal
    <3>1. k'.wobj = k.wobj /\ k'.wait_queue = k.wait_queue
      BY <1>1, <2>2 DEF DispatchTask, KernelData
    <3>2. QED
      BY <1>2, <3>1, SameFields
  <2>3. ASSUME RotateNext PROVE Goal
    <3>1. \E pri : k' = [k EXCEPT !.rq = rotate_ready_queue(@, pri)]
      BY <2>3 DEF RotateNext, rot_rdq, irot_rdq, rot_rdq_self, TaskCall, IntCall
    <3>2. k'.wobj = k.wobj /\ k'.wait_queue = k.wait_queue
      BY <1>1, <3>1 DEF KernelData
    <3>3. QED
      BY <1>2, <3>2, SameFields
  <2>4. ASSUME \/ start_dispatch \/ EnterIdle \/ LeaveIdle
               \/ irq_handler \/ ret_int_nested \/ ret_int_task \/ FlagNext
        PROVE  Goal
    BY <1>3, <2>4 DEF start_dispatch, EnterIdle, LeaveIdle, irq_handler, ret_int_nested,
                      ret_int_task, FlagNext, dis_dsp, ena_dsp, chg_ipm_enaall, chg_ipm_mask,
                      lock_cpu, unlock_cpu
  <2>5. QED
    BY <1>5, <2>1, <2>2, <2>3, <2>4 DEF ProcessorNext, BootNext
\* Of the calls, those that wait and those that end a wait.
<1>6. ASSUME TaskContext \/ IntContext
      PROVE  /\ DataInv(I, C, k, Task) /\ Live = Task
             /\ TaskContext => runtsk \in Task /\ IsRunnable(k, runtsk)
  <2>1. pc # "release_all"
    BY <1>6 DEF TaskContext, IntContext
  <2>2. QED
    BY <1>6, <2>1, InCall, InvData
<1>7. ASSUME TaskManageNext, ~mutex_release_all, ~end_of_task PROVE Goal
  <2>1. ASSUME NEW t \in Task, act_tsk(t) \/ iact_tsk(t) \/ can_act(t) PROVE Goal
    BY <1>4, <2>1 DEF act_tsk, iact_tsk, can_act, TaskCall, IntCall, PlainCall, activate
  <2>2. ASSUME NEW t \in Task, NEW pri \in Pri, chg_pri(t, pri) PROVE Goal
    <3> DEFINE bpriority2 == [k.bpriority EXCEPT ![t] = pri]
               d1 == [k EXCEPT !.bpriority = bpriority2]
    <3>1. k' = d1 \/ k' = change_priority(d1, t, pri, FALSE)
      BY <2>2 DEF chg_pri, TaskCall
    <3>2. bpriority2 \in [Task -> Pri]
      BY <1>1, DataTypes
    <3> HIDE DEF bpriority2
    <3>3. d1 \in KernelData(I, C) /\ d1.wobj = k.wobj /\ d1.wait_queue = k.wait_queue
      BY <1>1, <3>2 DEF KernelData
    <3> HIDE DEF d1
    <3>4. SameWaits(k', d1)
      <4>0. Queued(d1, t)
        <5>1. QueuesInv(k, Task)
          BY <1>6, <2>2 DEF chg_pri, DataInv
        <5>2. QED
          BY <3>3, <5>1, WaitersQueued DEF Queued
      <4>1. CASE k' = d1
        BY <4>1, NoneMoves DEF SameWaits
      <4>2. CASE k' = change_priority(d1, t, pri, FALSE)
        BY <3>3, <4>0, <4>2, ChangePriorityWaits
      <4>3. QED
        BY <3>1, <4>1, <4>2
    <3>5. QED
      BY <1>2, <3>3, <3>4 DEF SameWaits
  <2>3. ASSUME NEW t \in Task, ter_tsk(t) PROVE Goal
    <3>1. /\ TaskContext
          /\ \/ k' = [k EXCEPT !.rq = make_non_runnable(@, t)]
             \/ IsWaiting(k, t) /\ k' = stop_waiting(k, t)
             \/ k' = k
      BY <2>3 DEF ter_tsk, stop_waiting, LoopCall
    <3>2. CASE IsWaiting(k, t) /\ k' = stop_waiting(k, t)
      BY <1>6, <3>1, <3>2, StopInOrder DEF Goal
    <3>3. QED
      BY <1>3, <1>4, <3>1, <3>2
  <2>4. ASSUME ext_tsk PROVE Goal
    <3>1. k' = [k EXCEPT !.rq = make_non_runnable(@, runtsk)] /\ pc = "task"
      BY <2>4 DEF ext_tsk
    <3>2. QED
      BY <1>4, <3>1, InTask
  <2>5. QED
    BY <1>7, <2>1, <2>2, <2>3, <2>4 DEF TaskManageNext
<1>8. ASSUME SleepNext PROVE Goal
  <2>1. ASSUME NEW t \in Task, wup_tsk(t) \/ iwup_tsk(t) PROVE Goal
    <3>1. (TaskContext \/ IntContext) /\ k' = wakeup(k, t)
      BY <2>1 DEF wup_tsk, iwup_tsk, TaskCall, IntCall
    <3>2. QED
      BY <1>6, <3>1, WakeupInOrder DEF Goal
  <2>2. ASSUME NEW t \in Task, can_wup(t) PROVE Goal
    BY <1>4, <2>2 DEF can_wup, PlainCall
  <2>3. ASSUME take_wakeup PROVE Goal
    BY <1>4, <1>6, <2>3 DEF take_wakeup, MayWait, PlainCall
  <2>4. ASSUME NEW timed \in BOOLEAN, slp_tsk(timed) \/ dly_tsk PROVE Goal
    <3>1. /\ TaskContext
          /\ \E kind \in {"SLP", "DLY"} : \E b \in BOOLEAN : k' = make_wait(k, runtsk, kind, b)
      BY <2>4 DEF slp_tsk, dly_tsk, MayWait, WaitCall
    <3>2. /\ k'.wait_queue = k.wait_queue
          /\ \E kind : k'.wobj = [k.wobj EXCEPT ![runtsk] = kind]
      <4>1. PICK kind \in {"SLP", "DLY"}, b \in BOOLEAN : k' = make_wait(k, runtsk, kind, b)
        BY <3>1
      <4>2. k'.wait_queue = k.wait_queue /\ k'.wobj = [k.wobj EXCEPT ![runtsk] = kind]
        BY <1>1, <4>1 DEF make_wait, KernelData
      <4>3. QED
        BY <4>2
    <3>3. runtsk \in Task /\ k.wobj[runtsk] = NoObj
      <4>1. DataInv(I, C, k, Task) /\ runtsk \in Task /\ IsRunnable(k, runtsk)
        BY <1>6, <3>1
      <4>2. QED
        BY <4>1 DEF DataInv, QueuesInv, WaitQueueInv, QueuedWhereWaiting, IsRunnable, IsWaiting
    <3>4. \A u \in Live : k.wobj[u] \in Obj => k'.wobj[u] = k.wobj[u]
      BY <1>1, <3>2, <3>3, ObjNames, DataTypes DEF Live
    <3>5. QED
      BY <3>2, <3>4, Untouched, NoneMoves DEF Goal
  <2>5. QED
    BY <1>8, <2>1, <2>2, <2>3, <2>4 DEF SleepNext
<1>9. ASSUME ReleaseNext \/ TimeoutNext PROVE Goal
  <2>1. ASSUME NEW t \in Task, rel_wai(t) \/ irel_wai(t) PROVE Goal
    <3>1. (TaskContext \/ IntContext) /\ k' = wait_release(k, t) /\ IsWaiting(k, t)
      BY <2>1 DEF rel_wai, irel_wai, TaskCall, IntCall
    <3>2. QED
      BY <1>6, <3>1, ReleasedInOrder DEF Goal
  <2>2. ASSUME NEW t \in Task, wait_tmout(t) PROVE Goal
    <3>1. IntContext /\ k' = wait_expire(k, t) /\ k.tmevtb[t]
      BY <2>2 DEF wait_tmout, IntCall
    <3>2. DataInv(I, C, k, Task) /\ IsWaiting(k, t)
      BY <1>6, <3>1, WaitersFacts
    <3>3. QED
      BY <1>6, <3>1, <3>2, ReleasedInOrder DEF Goal
  <2>3. QED
    BY <1>9, <2>1, <2>2 DEF ReleaseNext, TimeoutNext
<1>10. ASSUME SuspendNext \/ ForbidNext PROVE Goal
  <2>1. \E t \in Task : \/ k' = make_active(k, t) \/ k' = suspend(k, t)
                        \/ \E s : k' = set_tstat(k, t, s)
                        \/ \E b : k' = [k EXCEPT !.waifbd[t] = b]
    BY <1>10 DEF SuspendNext, sus_tsk, rsm_tsk, ForbidNext, dis_wai, ena_wai, TaskCall,
                 PlainCall, suspend, set_tstat, make_active
  <2>2. QED
    BY <1>4, <2>1
<1>11. ASSUME NEW s \in Sem,
              \/ sig_sem(s) \/ isig_sem(s) \/ take_unit(s) \/ ini_sem(s)
              \/ \E timed \in BOOLEAN : wai_sem(s, timed)
       PROVE  Goal
  <2>1. ASSUME sig_sem(s) \/ isig_sem(s) PROVE Goal
    <3>1. (TaskContext \/ IntContext) /\ k' = signal(k, s)
      BY <2>1 DEF sig_sem, isig_sem, TaskCall, IntCall
    <3>2. QED
      BY <1>6, <3>1, SignalInOrder DEF Goal
  <2>2. ASSUME take_unit(s) PROVE Goal
    <3>1. k'.wobj = k.wobj /\ k'.wait_queue = k.wait_queue
      BY <1>1, <2>2 DEF take_unit, PlainCall, KernelData
    <3>2. QED
      BY <1>2, <3>1, SameFields
  <2>3. ASSUME ini_sem(s) PROVE Goal
    BY <1>3, <2>3 DEF ini_sem, LoopCall
  <2>4. ASSUME NEW timed \in BOOLEAN, wai_sem(s, timed) PROVE Goal
    <3>1. TaskContext /\ k' = wobj_make_wait(k, runtsk, s, timed)
      BY <2>4 DEF wai_sem, MayWait, WaitCall
    <3>2. s \in Obj \ ComObj
      BY ObjNames, ObjAssumption
    <3>3. QED
      BY <1>6, <3>1, <3>2, JoinsInOrder DEF Goal
  <2>5. QED
    BY <1>11, <2>1, <2>2, <2>3, <2>4
<1>12. ASSUME NEW m \in Mtx,
              \/ lock_free_mtx(m) \/ unl_mtx(m) \/ ini_mtx(m)
              \/ \E timed \in BOOLEAN : wait_mtx(m, timed)
       PROVE  Goal
  <2>1. ASSUME lock_free_mtx(m) PROVE Goal
    <3>1. TaskContext /\ k' = mutex_acquire(k, runtsk, m)
      BY <2>1 DEF lock_free_mtx, PlainCall
    <3>2. QED
      BY <1>1, <1>2, <1>6, <3>1, AcquireWaits
  <2>2. ASSUME unl_mtx(m) PROVE Goal
    <3>1. /\ TaskContext /\ k.loctsk[m] = runtsk
          /\ k' = mutex_release(drop_ceiling(unlink(k, m), runtsk, m), m)
      BY <2>2 DEF unl_mtx
    <3>2. QED
      BY <1>6, <3>1, UnlockInOrder DEF Goal
  <2>3. ASSUME ini_mtx(m) PROVE Goal
    BY <1>3, <2>3 DEF ini_mtx, LoopCall
  <2>4. ASSUME NEW timed \in BOOLEAN, wait_mtx(m, timed) PROVE Goal
    <3>1. TaskContext /\ k' = wobj_make_wait(k, runtsk, m, timed)
      BY <2>4 DEF wait_mtx, MayWait, WaitCall
    <3>2. m \in Obj \ ComObj
      BY ObjNames, ObjAssumption
    <3>3. QED
      BY <1>6, <3>1, <3>2, JoinsInOrder DEF Goal
  <2>5. QED
    BY <1>12, <2>1, <2>2, <2>3, <2>4
\* The loops.
<1>13. ASSUME init_wait_queue PROVE Goal
  <2> DEFINE o == frame.obj
  <2>1. /\ pc = "init_wait_queue" /\ k.wait_queue[o] # << >>
        /\ k' = end_wait(queue_delete_next(k, o), Head(k.wait_queue[o]), "E_DLT")
    BY <1>13 DEF init_wait_queue, LoopTurn
  <2>2. DataInv(I, C, k, Task) /\ Live = Task
    BY <2>1, InvData
  <2>3. o \in Obj /\ "E_DLT" \in ErCd /\ Task \in SUBSET Task
    BY <2>1 DEF KernelInv, LoopInv, Looping, Obj, ErCd
  <2>4. QED
    BY <2>1, <2>2, <2>3, FirstEndsInOrder DEF Goal
<1>14. ASSUME ini_sem_end PROVE Goal
  <2>1. k'.wobj = k.wobj /\ k'.wait_queue = k.wait_queue
    BY <1>1, <1>14 DEF ini_sem_end, LoopEnd, KernelData
  <2>2. QED
    BY <1>2, <2>1, SameFields
<1>15. ASSUME ini_mtx_end PROVE Goal
  <2> DEFINE m == frame.obj
             t == k.loctsk[m]
  <2>1. /\ pc = "init_wait_queue" /\ m \in Mtx /\ NoWaiter(k, m)
        /\ \/ k' = k
           \/ t # NoTask /\ k' = drop_ceiling(set_free(unlink(k, m), m), t, m)
    BY <1>15 DEF ini_mtx_end, LoopEnd, set_free, NoWaiter
  <2>2. DataInv(I, C, k, Task) /\ Live = Task /\ (t # NoTask => t \in Task)
    BY <1>1, <2>1, InvData, DataTypes
  <2>3. CASE t # NoTask /\ k' = drop_ceiling(set_free(unlink(k, m), m), t, m)
    BY <2>1, <2>2, <2>3, IniMtxEndInOrder DEF Goal
  <2>4. QED
    BY <1>3, <2>1, <2>3
<1>16. ASSUME mutex_release_all \/ end_of_task PROVE Goal
  <2> DEFINE e == frame.tsk
  <2>1. pc = "release_all"
    BY <1>16 DEF mutex_release_all, end_of_task
  <2>2. e \in Task /\ Live = Task \ {e} /\ DataInv(I, C, k, Task \ {e})
    BY <2>1 DEF KernelInv, LoopInv, Looping, Live, Ending
  <2>3. CASE mutex_release_all
    <3> DEFINE m == Head(k.mutex_queue[e])
    <3>1. k.mutex_queue[e] # << >> /\ k' = mutex_release(unlink(k, m), m)
      BY <2>3 DEF mutex_release_all, LoopTurn
    <3>2. InOrder(k, mutex_release(unlink(k, m), m), Task \ {e})
      BY <2>2, <3>1, ReleaseAllInOrder
    <3>3. QED
      BY <2>2, <3>1, <3>2 DEF Goal
  <2>4. CASE end_of_task
    <3>1. k' = reactivate(make_dormant(k, e), e)
      BY <2>4 DEF end_of_task, LoopEnd
    <3>2. QED
      BY <1>1, <2>2, <3>1, EndInOrder DEF Goal
  <2>5. QED
    BY <1>16, <2>3, <2>4
<1>17. CASE UNCHANGED vars
  BY <1>3, <1>17 DEF vars, Goal
<1>18. CASE Next
  <2>1. CASE SemaphoreNext
    BY <1>11, <1>13, <1>14, <2>1 DEF SemaphoreNext, Goal
  <2>2. CASE MutexNext
    BY <1>12, <1>13, <1>15, <2>2 DEF MutexNext, Goal
  <2>3. QED
    BY <1>5, <1>7, <1>8, <1>9, <1>10, <1>16, <1>18, <2>1, <2>2 DEF Next, Goal
<1>19. QED
  BY <1>17, <1>18 DEF Goal

\* GrantByPriority, of two states: the first of a queue in the order of
\* priority waits behind nobody.
LEMMA ServedByPriority ==
  ASSUME NEW I, NEW C,
         KernelInv(I, C), InOrder(k, k', Live),
         NEW o \in TPriObj, NEW t \in Task, NEW u \in Task,
         Granted(t, o), k.wobj[u] = o, u \in Live
  PROVE  k.rq.priority[t] <= k.rq.priority[u]
<1> DEFINE q == k.wait_queue[o]
<1>1. k \in KernelData(I, C) /\ QueuesInv(k, Live) /\ Live \in SUBSET Task
  BY DEF KernelInv, DataInv, Live
<1>2. /\ t \in Live /\ o \in Obj /\ t = Head(q)
  BY ObjNames DEF Granted, InOrder, Serves
<1>3. /\ u \in ToSet(q) /\ q \in Seq(Task) /\ Sorted(q, k.rq.priority)
      /\ k.rq.priority \in [Task -> Pri]
  <2>1. QueuesOf(k.rq, k.tstat, k.wobj, k.tmevtb, k.wait_queue, Live)
    BY <1>1, QueuesAre
  <2>2. QED
    BY <1>1, <1>2, <2>1, DataTypes DEF QueuesOf
<1> HIDE DEF q
<1>4. PICK i \in DOMAIN q : q[i] = u
  BY <1>3 DEF ToSet
<1>5. i \in 1 .. Len(q) /\ Len(q) \in Nat /\ q[1] = t
  BY <1>2, <1>3, <1>4
<1>6. CASE i = 1
  BY <1>3, <1>4, <1>5, <1>6 DEF Pri
<1>7. CASE i # 1
  <2>1. 1 \in DOMAIN q /\ 1 < i
    BY <1>3, <1>5, <1>7
  <2>2. Before(q, t, u)
    BY <1>4, <1>5, <2>1 DEF Before
  <2>3. QED
    BY <1>3, <2>2 DEF Sorted
<1>8. QED
  BY <1>6, <1>7

\* GrantInOrder, of two states.
LEMMA ServedInOrder ==
  ASSUME NEW I, NEW C,
         KernelInv(I, C), KernelInv(I, C)', InOrder(k, k', Live),
         NEW o \in Obj \ TPriObj, NEW t \in Live \cap Live', NEW u \in Live \cap Live',
         t # u, Precedes(t, u, o), k'.wobj[t] = o
  PROVE  Precedes(t, u, o)' /\ ~Granted(u, o)
<1> DEFINE q  == k.wait_queue[o]
           q2 == k'.wait_queue[o]
<1>1. /\ k \in KernelData(I, C) /\ QueuesInv(k, Live) /\ Live \in SUBSET Task
      /\ k' \in KernelData(I, C) /\ QueuesInv(k', Live') /\ Live' \in SUBSET Task
  BY DEF KernelInv, DataInv, Live, Ending
<1>2. /\ q \in Seq(Task) /\ IsInjective(q)
      /\ \A w \in Task : w \in ToSet(q) <=> w \in Live /\ k.wobj[w] = o
  <2>1. QueuesOf(k.rq, k.tstat, k.wobj, k.tmevtb, k.wait_queue, Live)
    BY <1>1, QueuesAre
  <2>2. QED
    BY <1>1, <2>1, DataTypes DEF QueuesOf
<1>3. \A w \in Task : w \in ToSet(q2) <=> w \in Live' /\ k'.wobj[w] = o
  <2>1. QueuesOf(k'.rq, k'.tstat, k'.wobj, k'.tmevtb, k'.wait_queue, Live')
    BY <1>1, QueuesAre
  <2>2. QED
    BY <2>1 DEF QueuesOf
<1>4. KeepsOrder(q, q2) /\ Serves(k, k', Live)
  BY DEF InOrder
<1>5. t \in Task /\ u \in Task /\ k.wobj[t] = o /\ (k.wobj[u] = o => Before(q, t, u))
  BY <1>1 DEF Precedes, Before
<1> HIDE DEF q, q2
<1>6. t \in ToSet(q) /\ t \in ToSet(q2) /\ (u \in ToSet(q) => Before(q, t, u))
  BY <1>2, <1>3, <1>5
<1>7. k'.wobj[u] = o => Before(q2, t, u)
  BY <1>3, <1>4, <1>5, <1>6 DEF KeepsOrder
<1>8. Precedes(t, u, o)'
  BY <1>7 DEF Precedes, Before, q2
<1>9. ~Granted(u, o)
  <2> SUFFICES ASSUME Granted(u, o) PROVE FALSE
    OBVIOUS
  <2>1. u \in Live /\ k.wobj[u] = o /\ u = Head(q)
    BY <1>4 DEF Granted, Serves, q
  <2>2. PICK i \in DOMAIN q, j \in DOMAIN q : i < j /\ q[i] = t /\ q[j] = u
    BY <1>5, <2>1 DEF Before
  <2>3. i \in 1 .. Len(q) /\ j \in 1 .. Len(q) /\ Len(q) \in Nat
    BY <1>2, <2>2
  <2>4. 1 \in DOMAIN q /\ q[1] = u /\ j # 1
    BY <1>2, <2>1, <2>2, <2>3
  <2>5. QED
    BY <1>2, <2>2, <2>4 DEF IsInjective
<1>10. QED
  BY <1>8, <1>9

\* An object with the attribute TA_TPRI serves a waiter of the highest current
\* priority, whatever chg_pri, unl_mtx and the others did to the priorities of
\* those that wait, and whichever of them left the queue meanwhile.
THEOREM Kernel_GrantByPriority == Spec => GrantByPriority
<1> DEFINE A == \A o \in TPriObj, t, u \in Task :
                  Granted(t, o) /\ k.wobj[u] = o /\ u \in Live
                    => k.rq.priority[t] <= k.rq.priority[u]
<1>1. IInv /\ [Next]_vars => A
  BY NextInOrder, ServedByPriority DEF IInv
<1>2. [][Next]_vars /\ []IInv => [][A]_vars
  <2> HIDE DEF A
  <2>1. QED
    BY <1>1, PTL
<1>3. QED
  BY <1>2, IInvHolds, PTL DEF Spec, GrantByPriority

\* An object without that attribute serves its waiters in the order in which
\* they came: nobody gets past a task that still waits.
THEOREM Kernel_GrantInOrder == Spec => GrantInOrder
<1> DEFINE A == \A o \in Obj \ TPriObj : \A t, u \in Live \cap Live' :
                  t # u /\ Precedes(t, u, o) /\ k'.wobj[t] = o
                    => Precedes(t, u, o)' /\ ~Granted(u, o)
<1>1. IInv /\ IInv' /\ [Next]_vars => A
  BY NextInOrder, ServedInOrder DEF IInv
<1>2. [][Next]_vars /\ []IInv => [][A]_vars
  <2> HIDE DEF A
  <2>1. QED
    BY <1>1, PTL
<1>3. QED
  BY <1>2, IInvHolds, PTL DEF Spec, GrantInOrder
=============================================================================
