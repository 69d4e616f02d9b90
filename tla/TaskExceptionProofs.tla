------------------------ MODULE TaskExceptionProofs ------------------------
(***************************************************************************)
(* The invariants of module TaskException, for any tasks, of any domains,  *)
(* and any depth of extended service calls, routines and interrupts.       *)
(*                                                                         *)
(* What a task keeps for its exceptions is followed through the operators  *)
(* that start, end and put off routines (section 2); every action then     *)
(* changes it by those operators, for the running task or the task that is *)
(* resumed (sections 3 and 4).  The steps of the kernel below keep the     *)
(* invariant of module KernelProofs as they did there; the routine's       *)
(* return and iras_tex, which are no steps of module Kernel, are shown to  *)
(* keep it too.                                                            *)
(***************************************************************************)
EXTENDS TaskException, KernelProofs

RoutineType == [mode : {"stask", "utask"}, disdsp : BOOLEAN, svclevel : Nat,
                enabled : BOOLEAN]

TexType == [enatex : BOOLEAN, texptn : SUBSET TexBits, svclevel : Nat, waifbd : BOOLEAN,
            routines : Seq(RoutineType),
            resume : {"none", "interrupt", "routine", "call", "chg_ipm"}]

\* A system task's routines, but the last, have called ena_tex; the last has when
\* the exceptions are enabled.
NestedOK(x) ==
  /\ \A i \in 1 .. Len(x.routines) : x.routines[i].mode = "stask"
  /\ \A i \in 1 .. Len(x.routines) - 1 : x.routines[i].enabled
  /\ x.enatex /\ x.routines # << >> => x.routines[Len(x.routines)].enabled

RecordOK(t, x) == x \in TexType /\ (t \notin UserTask => NestedOK(x))

\* A routine that dispatches on its return is there to be resumed; a system
\* task's exceptions are disabled meanwhile.
ResumeOK(t, x) ==
  x.resume = "routine" => x.routines # << >> /\ (t \notin UserTask => ~x.enatex)

\* All routines were begun outside extended service calls.
MaskedOK(x) == \A i \in 1 .. Len(x.routines) : x.routines[i].svclevel = 0

ForbiddenOK(t, x) ==
  x.waifbd => IF t \in UserTask THEN InPrivilegedMode(x) ELSE x.svclevel > 0

\* The running task is in its own code, or in a call that loops.
Occupied == pc \in {"task", "release_all"}

\* The structural invariant.  A task that was not sent to the dispatcher from its
\* own code has been started there, with the exceptions disabled.
TexInv ==
  /\ IInv
  /\ misread \in BOOLEAN
  /\ tex \in [Task -> TexType]
  /\ \A t \in Task : /\ RecordOK(t, tex[t]) /\ ResumeOK(t, tex[t])
                     /\ ForbiddenOK(t, tex[t])
                     /\ ~misread => MaskedOK(tex[t])
                     /\ tex[t].resume = "none" => ~tex[t].enatex \/ (t = runtsk /\ Occupied)
  /\ Occupied /\ runtsk \in Task => tex[runtsk].resume = "none"
  /\ pc # "init_wait_queue"
  /\ pc = "release_all" /\ frame.exits => frame.tsk = runtsk

\* The pending exceptions of user tasks are in the byte that ret_service loads.
LowBitsOnly == UserTask = {} \/ TexBits \subseteq {"low"}

\* Nothing is forgotten; ter_tsk, which ends without a check for exceptions of a
\* system task, returns with none due.
TakenInv ==
  ~misread => /\ TakenAtOnce
              /\ pc = "release_all" /\ ~frame.exits
                   => ~locked /\ ~Due(tex[runtsk], ipmflg)

\* The inductive invariant.
TInv == TexInv /\ (LowBitsOnly => TakenInv)

-----------------------------------------------------------------------------
(***************************************************************************)
(* 1.  Steps of the kernel.                                                *)
(***************************************************************************)
TexKernelNext ==
  \/ BootNext \/ EnterIdle \/ LeaveIdle \/ irq_handler \/ ret_int_nested
  \/ DispatchTask \/ ret_int_task \/ end_of_task \/ ext_tsk
  \/ dis_dsp \/ ena_dsp \/ chg_ipm_mask \/ chg_ipm_enaall \/ lock_cpu \/ unlock_cpu
  \/ slp_tsk(FALSE) \/ take_wakeup
  \/ \E t \in Task : wup_tsk(t) \/ iact_tsk(t) \/ iwup_tsk(t) \/ ter_tsk(t)
  \/ UNCHANGED vars

\* The steps that task exceptions accompany are steps of module Kernel.
LEMMA KernelSteps == TexKernelNext => [Next]_vars
<1>1. (\E t \in Task : wup_tsk(t) \/ iact_tsk(t) \/ iwup_tsk(t) \/ ter_tsk(t))
        => SleepNext \/ TaskManageNext
  BY DEF SleepNext, TaskManageNext
<1>2. slp_tsk(FALSE) \/ take_wakeup => SleepNext
  BY DEF SleepNext
<1>3. end_of_task \/ ext_tsk => TaskManageNext
  BY DEF TaskManageNext
<1>4. \/ BootNext \/ EnterIdle \/ LeaveIdle \/ irq_handler \/ ret_int_nested
      \/ DispatchTask \/ ret_int_task
      => ProcessorNext
  BY DEF ProcessorNext
<1>5. \/ dis_dsp \/ ena_dsp \/ chg_ipm_mask \/ chg_ipm_enaall \/ lock_cpu \/ unlock_cpu
      => FlagNext
  BY DEF FlagNext
<1>6. ProcessorNext \/ FlagNext \/ TaskManageNext \/ SleepNext => Next
  BY DEF Next
<1>7. QED
  BY <1>1, <1>2, <1>3, <1>4, <1>5, <1>6 DEF TexKernelNext

\* The kernel's invariant survives them.
LEMMA KernelStepsKeep == IInv /\ TexKernelNext => IInv'
  BY KernelSteps, NextKeepsInv DEF IInv

\* The calls of task_except.c leave the kernel's variables as they are.
LEMMA SameContextIsStutter ==
  ASSUME SameContext, reqflg' = reqflg PROVE TexKernelNext
  BY DEF SameContext, TexKernelNext, vars, flags

\* iras_tex asks for the exit processing of the interrupt, needed or not.
LEMMA RequestKeeps ==
  ASSUME IInv, IntContext, SameContext, reqflg' \in BOOLEAN, reqflg => reqflg'
  PROVE  IInv'
<1>1. /\ k' = k /\ runtsk' = runtsk /\ pc' = pc /\ frame' = frame /\ disdsp' = disdsp
      /\ ipmflg' = ipmflg /\ dspflg' = dspflg
      /\ excpt_nest_count' = excpt_nest_count /\ locked' = locked
  BY DEF SameContext, flags
<1>2. pc \in {"task", "idle"} /\ (pc = "task" => excpt_nest_count >= 1)
  BY DEF IntContext
<1>3. (DataInv({NoInfo}, [ComObj -> {NoInfo}], k, Live))'
  BY <1>1 DEF IInv, KernelInv, Live, Ending
<1>4. excpt_nest_count \in Nat
  BY DispatcherAssumption DEF IInv, KernelInv, ContextInv
<1>5. (DispatchInv)'
  BY <1>1, <1>2, <1>4
     DEF IInv, KernelInv, ContextInv, DispatchInv, RunsSchedtsk, NoLostRequest, DispatchAllowed,
         DspflgExact
<1>6. ContextInv'
  BY <1>1, <1>2, <1>5 DEF IInv, KernelInv, ContextInv, RunningIsRunnable
<1>7. LoopInv'
  BY <1>1, <1>2 DEF LoopInv, Looping
<1>8. QED
  BY <1>3, <1>6, <1>7 DEF IInv, KernelInv

\* The routine's return puts the flags back and misses no dispatch.
LEMMA ReturnKeeps ==
  ASSUME IInv, pc = "task", excpt_nest_count = 0, NEW dd \in BOOLEAN,
         ipmflg' = TRUE, disdsp' = dd, dspflg' = ~dd, locked' = FALSE,
         UNCHANGED << k, runtsk, frame, reqflg, excpt_nest_count >>,
         pc' = IF dspflg' /\ runtsk # k.rq.schedtsk THEN "dispatcher" ELSE "task"
  PROVE  IInv'
<1>1. /\ k' = k /\ runtsk' = runtsk /\ frame' = frame /\ reqflg' = reqflg
      /\ excpt_nest_count' = excpt_nest_count
  OBVIOUS
<1>2. /\ pc' \in {"task", "dispatcher"} /\ (pc' = "dispatcher" => dspflg')
      /\ pc' = "task" /\ dspflg' => runtsk = k.rq.schedtsk
  OBVIOUS
<1>3. ~reqflg
  BY InTask DEF IInv
<1>4. (DataInv({NoInfo}, [ComObj -> {NoInfo}], k, Live))'
  BY <1>1, <1>2 DEF IInv, KernelInv, Live, Ending
<1>5. (DispatchInv)'
  <2>1. (RunsSchedtsk)'
    BY <1>1, <1>2 DEF RunsSchedtsk
  <2>2. (NoLostRequest)'
    BY <1>1, <1>2 DEF NoLostRequest
  <2>3. (DispatchAllowed)'
    BY <1>1, <1>2, <1>3 DEF DispatchAllowed
  <2>4. (DspflgExact)'
    BY DEF DspflgExact
  <2>5. QED
    BY <2>1, <2>2, <2>3, <2>4 DEF DispatchInv
<1>6. ContextInv'
  BY <1>1, <1>2, <1>5 DEF IInv, KernelInv, ContextInv, RunningIsRunnable, PC
<1>7. LoopInv'
  BY <1>2 DEF LoopInv, Looping
<1>8. QED
  BY <1>4, <1>6, <1>7 DEF IInv, KernelInv


-----------------------------------------------------------------------------
(***************************************************************************)
(* 2.  What starts, ends and puts off exception routines.                  *)
(***************************************************************************)
\* y is x after checks that may have started routines.
Evolves(t, x, y) ==
  /\ RecordOK(t, y)
  /\ y.svclevel = x.svclevel /\ y.resume = x.resume
  /\ y.waifbd => x.waifbd
  /\ y.enatex => x.enatex
  /\ x.routines # << >> => y.routines # << >>

\* A routine is begun, with the exceptions disabled.
LEMMA StartRoutine ==
  ASSUME NEW t \in Task, NEW x, RecordOK(t, x), NEW mode \in {"stask", "utask"},
         NEW dd \in BOOLEAN, t \notin UserTask => mode = "stask" /\ x.enatex
  PROVE  LET y == start_routine(x, mode, dd)
         IN  /\ Evolves(t, x, y) /\ ~y.enatex /\ y.texptn = {} /\ y.waifbd = x.waifbd
             /\ x.svclevel = 0 /\ MaskedOK(x) => MaskedOK(y)
<1> DEFINE new == Routine(x, mode, dd)
           n   == Len(x.routines)
           r2  == Append(x.routines, new)
           y   == start_routine(x, mode, dd)
<1>1. x \in TexType /\ x.routines \in Seq(RoutineType) /\ n \in Nat
  BY DEF RecordOK, TexType
<1>2. /\ new \in RoutineType /\ new.mode = mode /\ ~new.enabled
      /\ new.svclevel = x.svclevel
  BY <1>1 DEF Routine, RoutineType, TexType
<1> HIDE DEF new
<1>3. /\ r2 \in Seq(RoutineType) /\ Len(r2) = n + 1 /\ r2[n + 1] = new
      /\ \A i \in 1 .. n : r2[i] = x.routines[i]
      /\ r2 # << >>
  BY <1>1, <1>2
<1> HIDE DEF r2
<1>4. /\ y.routines = r2 /\ ~y.enatex /\ y.texptn = {} /\ y.svclevel = x.svclevel
      /\ y.waifbd = x.waifbd /\ y.resume = x.resume /\ y \in TexType
  BY <1>1, <1>3 DEF start_routine, TexType, r2, new
<1> HIDE DEF y
<1>5. t \notin UserTask => NestedOK(y)
  <2>1. SUFFICES ASSUME t \notin UserTask PROVE NestedOK(y)
    OBVIOUS
  <2>2. NestedOK(x) /\ x.enatex /\ mode = "stask"
    BY <2>1 DEF RecordOK
  <2>3. \A i \in 1 .. n : x.routines[i].mode = "stask" /\ x.routines[i].enabled
    BY <1>1, <2>2 DEF NestedOK
  <2>4. \A i \in 1 .. n + 1 : r2[i].mode = "stask"
    BY <1>1, <1>2, <1>3, <2>2, <2>3
  <2>5. \A i \in 1 .. n : r2[i].enabled
    BY <1>3, <2>3
  <2>6. QED
    BY <1>1, <1>3, <1>4, <2>4, <2>5 DEF NestedOK
<1>6. x.svclevel = 0 /\ MaskedOK(x) => MaskedOK(y)
  BY <1>1, <1>2, <1>3, <1>4 DEF MaskedOK
<1>7. QED
  BY <1>3, <1>4, <1>5, <1>6 DEF Evolves, RecordOK, y

\* The check in ras_tex, ena_tex, chg_ipm and unl_cpu.
LEMMA CheckedInCall ==
  ASSUME NEW t \in Task, NEW x, RecordOK(t, x), disdsp' \in BOOLEAN
  PROVE  LET y == CheckInCall(t, x)
         IN  /\ Evolves(t, x, y) /\ y.waifbd = x.waifbd
             /\ MaskedOK(x) => MaskedOK(y)
             /\ t \notin UserTask => ~Due(y, ipmflg')
             /\ t \in UserTask => y = x
  BY StartRoutine DEF CheckInCall, Due, Evolves

\* The check at the end of a user task's service call, which allows waiting again.
LEMMA ReturnsFromService ==
  ASSUME NEW t \in Task, NEW x, RecordOK(t, x), disdsp' \in BOOLEAN
  PROVE  LET y == ret_service(t, x)
         IN  /\ Evolves(t, x, y)
             /\ MaskedOK(x) => MaskedOK(y)
             /\ t \notin UserTask => y = x
             /\ t \in UserTask /\ y.waifbd => x.svclevel > 0
             /\ t \in UserTask /\ TexBits \subseteq {"low"} /\ ~locked' => ~Due(y, ipmflg')
<1>1. x \in TexType
  BY DEF RecordOK
<1>2. CASE t \notin UserTask
  BY <1>2 DEF ret_service, Evolves
<1>3. CASE t \in UserTask
  <2> DEFINE x1 == IF x.svclevel = 0 THEN [x EXCEPT !.waifbd = FALSE] ELSE x
             y  == ret_service(t, x)
  <2>1. /\ x1 \in TexType /\ x1.enatex = x.enatex /\ x1.texptn = x.texptn
        /\ x1.svclevel = x.svclevel /\ x1.routines = x.routines /\ x1.resume = x.resume
        /\ x1.waifbd => x.waifbd /\ x.svclevel > 0
    <3>1. CASE x.svclevel = 0
      BY <1>1, <3>1 DEF TexType
    <3>2. CASE x.svclevel # 0
      BY <1>1, <3>2 DEF TexType
    <3>3. QED
      BY <3>1, <3>2
  <2>2. Evolves(t, x, x1) /\ RecordOK(t, x1) /\ (MaskedOK(x) => MaskedOK(x1))
    BY <1>3, <2>1 DEF Evolves, RecordOK, MaskedOK
  <2>3. y = IF Due(x1, ipmflg') /\ "low" \in x1.texptn /\ ~locked'
            THEN start_routine(x1, "utask", disdsp') ELSE x1
    BY <1>3 DEF ret_service
  <2> HIDE DEF x1, y
  <2>4. Due(x1, ipmflg') => x1.svclevel = 0 /\ x1.texptn # {} /\ x1.texptn \subseteq TexBits
    BY <2>1 DEF Due, TexType
  <2>5. CASE Due(x1, ipmflg') /\ "low" \in x1.texptn /\ ~locked'
    <3>1. y = start_routine(x1, "utask", disdsp')
      BY <2>3, <2>5
    <3>2. /\ Evolves(t, x1, y) /\ ~y.enatex /\ y.waifbd = x1.waifbd
          /\ MaskedOK(x1) => MaskedOK(y)
      BY <1>3, <2>2, <2>4, <2>5, <3>1, StartRoutine
    <3>3. QED
      BY <1>3, <2>1, <2>2, <3>2 DEF Evolves, Due, y
  <2>6. CASE ~(Due(x1, ipmflg') /\ "low" \in x1.texptn /\ ~locked')
    <3>1. y = x1
      BY <2>3, <2>6
    <3>2. TexBits \subseteq {"low"} /\ ~locked' => ~Due(y, ipmflg')
      BY <2>4, <2>6, <3>1
    <3>3. QED
      BY <1>3, <2>1, <2>2, <3>1, <3>2 DEF y
  <2>7. QED
    BY <2>5, <2>6
<1>4. QED
  BY <1>2, <1>3

\* The check at the exit of an interrupt.
LEMMA ReturnsFromInterrupt ==
  ASSUME NEW t \in Task, NEW x, RecordOK(t, x), disdsp' \in BOOLEAN
  PROVE  LET y == ret_int_4(t, x)
         IN  /\ Evolves(t, x, y) /\ y.waifbd = x.waifbd
             /\ MaskedOK(x) => MaskedOK(y)
             /\ ~Due(y, ipmflg')
  BY StartRoutine DEF ret_int_4, Due, Evolves

\* The check of the dispatcher.
LEMMA CheckedInDispatcher ==
  ASSUME NEW t \in Task, NEW x, RecordOK(t, x), disdsp' \in BOOLEAN,
         NEW readsZero \in BOOLEAN
  PROVE  LET y == dispatch_r(t, x, readsZero)
         IN  /\ Evolves(t, x, y) /\ y.waifbd = x.waifbd
             /\ (readsZero => x.svclevel = 0) /\ MaskedOK(x) => MaskedOK(y)
             /\ t \notin UserTask /\ (readsZero <=> x.svclevel = 0) => ~Due(y, ipmflg')
             /\ ~x.enatex => y = x
  BY StartRoutine DEF dispatch_r, InKernelDomain, Due, Evolves

\* The routine that has returned is begun again, or is over.
LEMMA Served ==
  ASSUME NEW t \in Task, NEW x, RecordOK(t, x), x.routines # << >>,
         t \notin UserTask => ~x.enatex
  PROVE  LET y == served(x)
         IN  /\ RecordOK(t, y) /\ y.texptn = {}
             /\ y.svclevel = x.svclevel /\ y.waifbd = x.waifbd /\ y.resume = x.resume
             /\ MaskedOK(x) => MaskedOK(y)
<1> DEFINE n == Len(x.routines)
           y == served(x)
<1>1. /\ x \in TexType /\ x.routines \in Seq(RoutineType) /\ n \in Nat \ {0}
      /\ \A i \in 1 .. n : x.routines[i] \in RoutineType
  BY DEF RecordOK, TexType
<1>2. CASE x.texptn # {}
  <2> DEFINE r2 == [x.routines EXCEPT ![n].enabled = FALSE]
  <2>1. y = [x EXCEPT !.texptn = {}, !.routines = r2]
    BY <1>1, <1>2 DEF served, TexType
  <2>2. [x.routines[n] EXCEPT !.enabled = FALSE] \in RoutineType
    <3>1. ASSUME NEW r \in RoutineType PROVE [r EXCEPT !.enabled = FALSE] \in RoutineType
      BY DEF RoutineType
    <3>2. x.routines[n] \in RoutineType
      BY <1>1
    <3>3. QED
      BY <3>1, <3>2
  <2>3. /\ r2 \in Seq(RoutineType) /\ Len(r2) = n
        /\ \A i \in 1 .. n - 1 : r2[i] = x.routines[i]
        /\ r2[n] = [x.routines[n] EXCEPT !.enabled = FALSE]
    BY <1>1, <2>2
  <2>4. r2[n].mode = x.routines[n].mode /\ r2[n].svclevel = x.routines[n].svclevel
    BY <1>1, <2>3 DEF RoutineType
  <2> HIDE DEF r2
  <2>5. /\ y \in TexType /\ y.routines = r2 /\ y.texptn = {} /\ y.enatex = x.enatex
        /\ y.svclevel = x.svclevel /\ y.waifbd = x.waifbd /\ y.resume = x.resume
    BY <1>1, <2>1, <2>3 DEF TexType
  <2> HIDE DEF y
  <2>6. \A i \in 1 .. n : r2[i].mode = x.routines[i].mode
                          /\ r2[i].svclevel = x.routines[i].svclevel
    <3>1. \A i \in 1 .. n : i \in 1 .. n - 1 \/ i = n
      BY <1>1
    <3>2. QED
      BY <2>3, <2>4, <3>1
  <2>7. t \notin UserTask => NestedOK(y)
    <3>1. SUFFICES ASSUME t \notin UserTask PROVE NestedOK(y)
      OBVIOUS
    <3>2. NestedOK(x) /\ ~x.enatex
      BY <3>1 DEF RecordOK
    <3>3. \A i \in 1 .. n : r2[i].mode = "stask"
      BY <2>6, <3>2 DEF NestedOK
    <3>4. \A i \in 1 .. n - 1 : r2[i].enabled
      BY <2>3, <3>2 DEF NestedOK
    <3>5. QED
      BY <2>3, <2>5, <3>2, <3>3, <3>4 DEF NestedOK
  <2>8. MaskedOK(x) => MaskedOK(y)
    BY <2>3, <2>5, <2>6 DEF MaskedOK
  <2>9. QED
    BY <2>5, <2>7, <2>8 DEF RecordOK, y
<1>3. CASE x.texptn = {}
  <2> DEFINE r2 == Front(x.routines)
  <2>1. y = [x EXCEPT !.enatex = TRUE, !.routines = r2]
    BY <1>1, <1>3 DEF served, TexType
  <2>2. r2 = SubSeq(x.routines, 1, n - 1)
    BY DEF Front
  <2>3. /\ r2 \in Seq(RoutineType) /\ Len(r2) = n - 1
        /\ \A i \in 1 .. n - 1 : r2[i] = x.routines[i]
    BY <1>1, <2>2
  <2> HIDE DEF r2
  <2>4. /\ y \in TexType /\ y.routines = r2 /\ y.texptn = {}
        /\ y.svclevel = x.svclevel /\ y.waifbd = x.waifbd /\ y.resume = x.resume
    BY <1>1, <1>3, <2>1, <2>3 DEF TexType
  <2> HIDE DEF y
  <2>5. t \notin UserTask => NestedOK(y)
    <3>1. SUFFICES ASSUME t \notin UserTask PROVE NestedOK(y)
      OBVIOUS
    <3>2. \A i \in 1 .. n - 1 : r2[i].mode = "stask" /\ r2[i].enabled
      BY <1>1, <2>3, <3>1 DEF RecordOK, NestedOK
    <3>3. r2 # << >> => n - 1 \in 1 .. n - 1
      BY <1>1, <2>3
    <3>4. QED
      BY <1>1, <2>3, <2>4, <3>2, <3>3 DEF NestedOK
  <2>6. MaskedOK(x) => MaskedOK(y)
    BY <1>1, <2>3, <2>4 DEF MaskedOK
  <2>7. QED
    BY <2>4, <2>5, <2>6 DEF RecordOK, y
<1>4. QED
  BY <1>2, <1>3

-----------------------------------------------------------------------------
(***************************************************************************)
(* 3.  Steps, by what they do to the tasks' records.                       *)
(***************************************************************************)
\* What the invariant says of the running task.
LEMMA OfRunning ==
  ASSUME TexInv, pc = "task"
  PROVE  /\ IInv /\ runtsk \in Task /\ DOMAIN tex = Task
         /\ RecordOK(runtsk, tex[runtsk]) /\ tex[runtsk] \in TexType
         /\ tex[runtsk].resume = "none"
         /\ tex[runtsk].waifbd => tex[runtsk].svclevel > 0
         /\ ~misread => MaskedOK(tex[runtsk])
         /\ disdsp \in BOOLEAN
<1>1. IInv /\ runtsk \in Task
  BY InTask DEF TexInv, IInv
<1>2. tex[runtsk].resume = "none" /\ ForbiddenOK(runtsk, tex[runtsk])
  BY <1>1 DEF TexInv, Occupied
<1>3. tex[runtsk].waifbd => tex[runtsk].svclevel > 0
  BY <1>2 DEF ForbiddenOK, InPrivilegedMode
<1>4. QED
  BY <1>1, <1>2, <1>3 DEF TexInv, RecordOK, IInv, KernelInv, ContextInv

\* A step that changes the running task's record, in its own code.
LEMMA RunningStep ==
  ASSUME TInv, pc = "task", IInv', runtsk' = runtsk, pc' \in {"task", "dispatcher"},
         misread' = misread, NEW z, tex' = [tex EXCEPT ![runtsk] = z],
         RecordOK(runtsk, z), ResumeOK(runtsk, z), ForbiddenOK(runtsk, z),
         MaskedOK(tex[runtsk]) => MaskedOK(z),
         z.resume = "none" <=> pc' = "task",
         LowBitsOnly /\ TakenInv /\ ~misread /\ pc' = "task"
           => IF excpt_nest_count' = 0 THEN ~locked' => ~Due(z, ipmflg')
              ELSE Due(z, ipmflg') => reqflg'
  PROVE  TInv'
<1>1. TexInv /\ runtsk \in Task /\ DOMAIN tex = Task /\ z \in TexType
  BY OfRunning DEF TInv, RecordOK
<1>2. /\ tex'[runtsk] = z
      /\ \A t \in Task : t # runtsk => tex'[t] = tex[t]
      /\ tex' \in [Task -> TexType]
  BY <1>1 DEF TexInv
<1>3. ASSUME NEW t \in Task
      PROVE  /\ RecordOK(t, tex'[t]) /\ ResumeOK(t, tex'[t]) /\ ForbiddenOK(t, tex'[t])
             /\ ~misread' => MaskedOK(tex'[t])
             /\ tex'[t].resume = "none" => ~tex'[t].enatex \/ (t = runtsk' /\ Occupied')
  <2>1. CASE t = runtsk
    BY <1>1, <1>2, <2>1 DEF TexInv, Occupied
  <2>2. CASE t # runtsk
    BY <1>1, <1>2, <2>2 DEF TexInv
  <2>3. QED
    BY <2>1, <2>2
<1>4. TexInv'
  BY <1>1, <1>2, <1>3 DEF TexInv, Occupied
<1>5. LowBitsOnly => TakenInv'
  <2>1. SUFFICES ASSUME LowBitsOnly, TakenInv, ~misread, pc' = "task"
                 PROVE  (TakenAtOnce)'
    BY DEF TInv, TakenInv, TakenAtOnce
  <2>2. excpt_nest_count' \in Nat
    BY DispatcherAssumption DEF IInv, KernelInv, ContextInv
  <2>3. CASE excpt_nest_count' = 0
    BY <1>2, <2>1, <2>3 DEF TakenAtOnce
  <2>4. CASE excpt_nest_count' # 0
    BY <1>2, <2>1, <2>4 DEF TakenAtOnce
  <2>5. QED
    BY <2>3, <2>4
<1>6. QED
  BY <1>4, <1>5 DEF TInv, LowBitsOnly

\* A call that leaves its task with the record x ends, or enters the dispatcher.
LEMMA CallExitRecord ==
  ASSUME NEW t \in Task, NEW x, RecordOK(t, x), x.resume = "none", disdsp' \in BOOLEAN,
         x.waifbd /\ t \notin UserTask => x.svclevel > 0,
         NEW resume \in {"call", "chg_ipm"}, pc' \in {"task", "dispatcher"}
  PROVE  LET z == CallExit(t, x, resume)
         IN  /\ RecordOK(t, z) /\ ResumeOK(t, z) /\ ForbiddenOK(t, z)
             /\ MaskedOK(x) => MaskedOK(z)
             /\ z.resume = "none" <=> pc' = "task"
             /\ /\ LowBitsOnly /\ ~locked' /\ pc' = "task"
                /\ t \notin UserTask => ~Due(x, ipmflg')
                => ~Due(z, ipmflg')
<1> DEFINE z == CallExit(t, x, resume)
<1>1. x \in TexType
  BY DEF RecordOK
<1>2. CASE pc' = "task"
  <2>1. z = ret_service(t, x)
    BY <1>2 DEF CallExit
  <2>2. /\ Evolves(t, x, z)
        /\ MaskedOK(x) => MaskedOK(z)
        /\ t \notin UserTask => z = x
        /\ t \in UserTask /\ z.waifbd => x.svclevel > 0
        /\ t \in UserTask /\ TexBits \subseteq {"low"} /\ ~locked' => ~Due(z, ipmflg')
    BY <2>1, ReturnsFromService
  <2> HIDE DEF z
  <2>3. RecordOK(t, z) /\ z.resume = "none" /\ z.svclevel = x.svclevel
    BY <2>2 DEF Evolves
  <2>4. ResumeOK(t, z)
    BY <2>3 DEF ResumeOK
  <2>5. ForbiddenOK(t, z)
    BY <2>2, <2>3 DEF ForbiddenOK, InPrivilegedMode
  <2>6. LowBitsOnly /\ ~locked' /\ (t \notin UserTask => ~Due(x, ipmflg')) => ~Due(z, ipmflg')
    BY <2>2 DEF LowBitsOnly
  <2>7. QED
    BY <1>2, <2>2, <2>3, <2>4, <2>5, <2>6 DEF z
<1>3. CASE pc' = "dispatcher"
  <2>1. z = [x EXCEPT !.resume = resume]
    BY <1>3 DEF CallExit
  <2>2. /\ z.resume = resume /\ z.waifbd = x.waifbd /\ z.svclevel = x.svclevel
        /\ z.routines = x.routines /\ z.enatex = x.enatex /\ z \in TexType
    BY <1>1, <2>1 DEF TexType
  <2> HIDE DEF z
  <2>3. RecordOK(t, z)
    BY <2>2 DEF RecordOK, NestedOK
  <2>4. ResumeOK(t, z) /\ z.resume # "none"
    BY <2>2 DEF ResumeOK
  <2>5. ForbiddenOK(t, z)
    BY <2>2 DEF ForbiddenOK, InPrivilegedMode
  <2>6. MaskedOK(x) => MaskedOK(z)
    BY <2>2 DEF MaskedOK
  <2>7. QED
    BY <1>3, <2>3, <2>4, <2>5, <2>6 DEF z
<1>4. QED
  BY <1>2, <1>3

\* A call of the running task that leaves it with the record x ends, or enters the
\* dispatcher.
LEMMA CallExitKeeps ==
  ASSUME TInv, pc = "task", IInv', runtsk' = runtsk, pc' \in {"task", "dispatcher"},
         locked' = FALSE, excpt_nest_count' = 0, misread' = misread,
         NEW x, NEW resume \in {"call", "chg_ipm"}, CallExitOf(x, resume),
         RecordOK(runtsk, x), x.resume = "none",
         x.waifbd /\ runtsk \notin UserTask => x.svclevel > 0,
         MaskedOK(tex[runtsk]) => MaskedOK(x),
         LowBitsOnly /\ TakenInv /\ ~misread /\ runtsk \notin UserTask /\ pc' = "task"
           => ~Due(x, ipmflg')
  PROVE  TInv'
<1> DEFINE z == CallExit(runtsk, x, resume)
<1>1. /\ runtsk \in Task /\ disdsp' \in BOOLEAN
      /\ tex' = [tex EXCEPT ![runtsk] = z]
  BY OfRunning DEF TInv, CallExitOf, IInv, KernelInv, ContextInv
<1>2. /\ RecordOK(runtsk, z) /\ ResumeOK(runtsk, z) /\ ForbiddenOK(runtsk, z)
      /\ MaskedOK(x) => MaskedOK(z)
      /\ z.resume = "none" <=> pc' = "task"
      /\ /\ LowBitsOnly /\ ~locked' /\ pc' = "task"
         /\ runtsk \notin UserTask => ~Due(x, ipmflg')
         => ~Due(z, ipmflg')
  BY <1>1, CallExitRecord
<1> HIDE DEF z
<1>3. QED
  BY <1>1, <1>2, RunningStep

\* A request to a task that goes on as before: an exception raised for another
\* task or in a handler, or waiting forbidden.
LEMMA RequestStep ==
  ASSUME TInv, IInv', runtsk' = runtsk, pc' = pc, pc \in {"task", "idle"},
         misread' = misread, locked' = locked, excpt_nest_count' = excpt_nest_count,
         ipmflg' = ipmflg, reqflg => reqflg',
         NEW t \in Task, NEW z, tex' = [tex EXCEPT ![t] = z], z \in TexType,
         z.routines = tex[t].routines, z.resume = tex[t].resume,
         z.enatex = tex[t].enatex, ForbiddenOK(t, z),
         \/ Due(z, ipmflg) => Due(tex[t], ipmflg)
         \/ t # runtsk
         \/ /\ excpt_nest_count > 0
            /\ pc = "task" /\ Due(z, ipmflg) => reqflg'
  PROVE  TInv'
<1>1. TexInv /\ DOMAIN tex = Task /\ tex[t] \in TexType
  BY DEF TInv, TexInv
<1>2. /\ tex'[t] = z
      /\ \A u \in Task : u # t => tex'[u] = tex[u]
      /\ tex' \in [Task -> TexType]
  BY <1>1 DEF TexInv
<1>3. /\ RecordOK(t, z) /\ ResumeOK(t, z)
      /\ ~misread => MaskedOK(z)
  BY <1>1 DEF TexInv, RecordOK, NestedOK, ResumeOK, MaskedOK
<1>4. ASSUME NEW u \in Task
      PROVE  /\ RecordOK(u, tex'[u]) /\ ResumeOK(u, tex'[u]) /\ ForbiddenOK(u, tex'[u])
             /\ ~misread' => MaskedOK(tex'[u])
             /\ tex'[u].resume = tex[u].resume /\ tex'[u].enatex = tex[u].enatex
  <2>1. CASE u = t
    BY <1>2, <1>3, <2>1
  <2>2. CASE u # t
    BY <1>1, <1>2, <2>2 DEF TexInv
  <2>3. QED
    BY <2>1, <2>2
<1>5. TexInv'
  BY <1>1, <1>2, <1>4 DEF TexInv, Occupied
<1>6. LowBitsOnly => TakenInv'
  <2>1. SUFFICES ASSUME TakenInv, ~misread PROVE (TakenAtOnce)'
    BY DEF TInv, TakenInv
  <2>2. CASE t # runtsk \/ runtsk \notin Task
    BY <1>2, <2>1, <2>2 DEF TakenInv, TakenAtOnce
  <2>3. CASE t = runtsk
    BY <1>2, <2>1, <2>3 DEF TakenInv, TakenAtOnce
  <2>4. QED
    BY <2>2, <2>3
<1>7. QED
  BY <1>5, <1>6 DEF TInv, LowBitsOnly

\* A step that has nothing to do with exceptions.
LEMMA IdleStep ==
  ASSUME TInv, IInv', tex' = tex, misread' = misread, pc' # "init_wait_queue",
         pc' = "release_all" /\ frame'.exits => frame'.tsk = runtsk',
         \/ runtsk' = runtsk /\ (Occupied' <=> Occupied)
         \/ ~Occupied /\ ~Occupied',
         TakenInv => TakenInv'
  PROVE  TInv'
<1>1. TexInv
  BY DEF TInv
<1>2. tex' \in [Task -> TexType] /\ misread' \in BOOLEAN
  BY <1>1 DEF TexInv
<1>3. ASSUME NEW t \in Task
      PROVE  /\ RecordOK(t, tex'[t]) /\ ResumeOK(t, tex'[t]) /\ ForbiddenOK(t, tex'[t])
             /\ ~misread' => MaskedOK(tex'[t])
             /\ tex'[t].resume = "none" => ~tex'[t].enatex \/ (t = runtsk' /\ Occupied')
  BY <1>1 DEF TexInv
<1>4. Occupied' /\ runtsk' \in Task => tex'[runtsk'].resume = "none"
  BY <1>1 DEF TexInv
<1>5. TexInv'
  BY <1>2, <1>3, <1>4 DEF TexInv
<1>6. QED
  BY <1>5 DEF TInv, LowBitsOnly

-----------------------------------------------------------------------------
(***************************************************************************)
(* 4.  The actions.                                                        *)
(***************************************************************************)
\* What the kernel does without regard to exceptions: the processor's own steps.
LEMMA ProcessorStepKeeps ==
  ASSUME TInv,
         NoTexStep(BootNext \/ EnterIdle \/ LeaveIdle \/ irq_handler \/ ret_int_nested)
  PROVE  TInv'
<1>1. /\ tex' = tex /\ misread' = misread
      /\ BootNext \/ EnterIdle \/ LeaveIdle \/ irq_handler \/ ret_int_nested
  BY DEF NoTexStep
<1>2. IInv' /\ TexInv /\ IInv
  BY <1>1, KernelStepsKeep DEF TexKernelNext, TInv, TexInv
<1>3. excpt_nest_count \in Nat
  BY <1>2, DispatcherAssumption DEF IInv, KernelInv, ContextInv
<1>4. CASE BootNext
  <2>1. runtsk' = runtsk /\ pc = "boot" /\ pc' \in {"boot", "dispatcher"}
    BY <1>4 DEF BootNext, ActivateAtBoot, start_dispatch
  <2>2. TakenInv'
    BY <2>1 DEF TakenInv, TakenAtOnce
  <2>3. QED
    BY <1>1, <1>2, <2>1, <2>2, IdleStep DEF Occupied
<1>5. CASE EnterIdle \/ LeaveIdle
  <2>1. pc \in {"dispatcher", "idle"} /\ pc' \in {"dispatcher", "idle"}
    BY <1>5 DEF EnterIdle, LeaveIdle
  <2>2. TakenInv'
    BY <2>1 DEF TakenInv, TakenAtOnce
  <2>3. QED
    BY <1>1, <1>2, <2>1, <2>2, IdleStep DEF Occupied
<1>6. CASE irq_handler \/ ret_int_nested
  <2>1. /\ runtsk' = runtsk /\ pc' = pc /\ pc \in {"task", "idle"} /\ ipmflg' = ipmflg
        /\ reqflg' = reqflg /\ excpt_nest_count' > 0
        /\ excpt_nest_count = 0 => ~locked
    BY <1>3, <1>6 DEF irq_handler, ret_int_nested, InHandler, flags
  <2>2. TakenInv => TakenInv'
    BY <1>1, <1>3, <2>1 DEF TakenInv, TakenAtOnce
  <2>3. QED
    BY <1>1, <1>2, <2>1, <2>2, IdleStep DEF Occupied
<1>7. QED
  BY <1>1, <1>4, <1>5, <1>6

\* lock_cpu and ext_tsk leave the record of every task alone.
LEMMA LockOrExitKeeps == ASSUME TInv, NoTexStep(lock_cpu) \/ NoTexStep(ext_tsk) PROVE TInv'
<1>1. tex' = tex /\ misread' = misread /\ (lock_cpu \/ ext_tsk)
  BY DEF NoTexStep
<1>2. IInv' /\ TexInv
  BY <1>1, KernelStepsKeep DEF TexKernelNext, TInv, TexInv
<1>3. CASE lock_cpu
  <2>1. /\ runtsk' = runtsk /\ pc' = pc /\ pc \in {"task", "idle"} /\ ipmflg' = ipmflg
        /\ excpt_nest_count' = excpt_nest_count /\ reqflg' = reqflg /\ locked'
    BY <1>3 DEF lock_cpu, TaskContext, IntContext, flags
  <2>2. TakenInv => TakenInv'
    BY <1>1, <2>1 DEF TakenInv, TakenAtOnce
  <2>3. QED
    BY <1>1, <1>2, <2>1, <2>2, IdleStep DEF Occupied
<1>4. CASE ext_tsk
  <2>1. /\ pc = "task" /\ pc' = "release_all" /\ runtsk' = runtsk
        /\ frame'.exits /\ frame'.tsk = runtsk
    BY <1>4 DEF ext_tsk, NoFrame
  <2>2. TakenInv'
    BY <2>1 DEF TakenInv, TakenAtOnce
  <2>3. QED
    BY <1>1, <1>2, <2>1, <2>2, IdleStep DEF Occupied
<1>5. QED
  BY <1>1, <1>3, <1>4

\* So do the calls for another task that a handler makes, and ter_tsk.
LEMMA PlainStepKeeps ==
  ASSUME TInv, NEW t \in Task,
         NoTexStep(iact_tsk(t)) \/ NoTexStep(iwup_tsk(t)) \/ NoTexStep(ter_tsk(t))
  PROVE  TInv'
<1>1. tex' = tex /\ misread' = misread /\ (iact_tsk(t) \/ iwup_tsk(t) \/ ter_tsk(t))
  BY DEF NoTexStep
<1>2. IInv' /\ TexInv /\ IInv
  BY <1>1, KernelStepsKeep DEF TexKernelNext, TInv, TexInv
<1>3. CASE iact_tsk(t) \/ iwup_tsk(t)
  <2>1. /\ runtsk' = runtsk /\ pc' = pc /\ pc \in {"task", "idle"} /\ ipmflg' = ipmflg
        /\ excpt_nest_count' = excpt_nest_count /\ locked' = locked
        /\ reqflg => reqflg'
    BY <1>3 DEF iact_tsk, iwup_tsk, IntContext, IntCall, flags
  <2>2. TakenInv => TakenInv'
    BY <1>1, <2>1 DEF TakenInv, TakenAtOnce
  <2>3. QED
    BY <1>1, <1>2, <2>1, <2>2, IdleStep DEF Occupied
<1>4. CASE ter_tsk(t)
  <2>1. /\ pc = "task" /\ excpt_nest_count = 0 /\ ~locked /\ locked' = locked
        /\ pc' = "release_all" /\ runtsk' = runtsk /\ ipmflg' = ipmflg
        /\ ~frame'.exits
    BY <1>4 DEF ter_tsk, TaskContext, LoopCall, NoFrame, flags
  <2>2. runtsk \in Task
    BY <1>2, <2>1, InTask DEF IInv
  <2>3. TakenInv => TakenInv'
    BY <1>1, <2>1, <2>2 DEF TakenInv, TakenAtOnce
  <2>4. QED
    BY <1>1, <1>2, <2>1, <2>3, IdleStep DEF Occupied
<1>5. QED
  BY <1>1, <1>3, <1>4

\* The service calls of the kernel, which end with the check of ret_service.
TexCalls ==
  \/ TexCall(dis_dsp) \/ TexCall(ena_dsp) \/ TexCall(chg_ipm_mask)
  \/ TexCall(slp_tsk(FALSE)) \/ TexCall(take_wakeup)
  \/ \E t \in Task : TexCall(wup_tsk(t))

\* They keep the invariant: what the check of ret_service takes is taken there.
LEMMA TexCallKeeps == ASSUME TInv, TexCalls PROVE TInv'
<1> DEFINE Calls == \/ dis_dsp \/ ena_dsp \/ chg_ipm_mask \/ slp_tsk(FALSE) \/ take_wakeup
                    \/ \E t \in Task : wup_tsk(t)
<1>1. Calls /\ CallExitOf(tex[runtsk], "call") /\ misread' = misread
  BY DEF TexCalls, TexCall
<1>2. /\ pc = "task" /\ excpt_nest_count = 0 /\ ~locked
      /\ runtsk' = runtsk /\ pc' \in {"task", "dispatcher"}
      /\ locked' = locked /\ excpt_nest_count' = 0
      /\ ipmflg' = ipmflg \/ ~ipmflg'
  <2>1. CASE dis_dsp
    BY <2>1 DEF dis_dsp, TaskContext
  <2>2. CASE ena_dsp
    BY <2>2 DEF ena_dsp, TaskContext
  <2>3. CASE chg_ipm_mask
    BY <2>3 DEF chg_ipm_mask, TaskContext
  <2>4. CASE slp_tsk(FALSE)
    BY <2>4 DEF slp_tsk, MayWait, TaskContext, WaitCall, flags
  <2>5. CASE take_wakeup
    BY <2>5 DEF take_wakeup, MayWait, TaskContext, PlainCall, flags
  <2>6. ASSUME NEW t \in Task, wup_tsk(t)
        PROVE  /\ pc = "task" /\ excpt_nest_count = 0 /\ ~locked
               /\ runtsk' = runtsk /\ pc' \in {"task", "dispatcher"}
               /\ locked' = locked /\ excpt_nest_count' = 0
               /\ ipmflg' = ipmflg \/ ~ipmflg'
    BY <2>6 DEF wup_tsk, TaskContext, TaskCall, flags
  <2>7. QED
    BY <1>1, <2>1, <2>2, <2>3, <2>4, <2>5, <2>6
<1>3. TexInv /\ IInv /\ IInv'
  BY <1>1, KernelStepsKeep DEF TexKernelNext, TInv, TexInv
<1> HIDE DEF Calls
<1>4. /\ runtsk \in Task /\ RecordOK(runtsk, tex[runtsk]) /\ tex[runtsk].resume = "none"
      /\ tex[runtsk].waifbd => tex[runtsk].svclevel > 0
  BY <1>2, <1>3, OfRunning
<1>5. locked' = FALSE
  BY <1>2, <1>3 DEF IInv, KernelInv, ContextInv
<1>6. TakenInv /\ ~misread => ~Due(tex[runtsk], ipmflg')
  BY <1>2, <1>4 DEF TakenInv, TakenAtOnce, Due
<1>7. QED
  BY <1>1, <1>2, <1>3, <1>4, <1>5, <1>6, CallExitKeeps

\* chg_ipm(TIPM_ENAALL), after its dispatch or without one.
LEMMA ChgIpmKeeps == ASSUME TInv, chg_ipm PROVE TInv'
<1> DEFINE x == IF pc' = "task" THEN CheckInCall(runtsk, tex[runtsk]) ELSE tex[runtsk]
<1>1. /\ chg_ipm_enaall /\ misread' = misread /\ CallExitOf(x, "chg_ipm")
  BY DEF chg_ipm
<1>2. /\ pc = "task" /\ excpt_nest_count = 0 /\ ~locked
      /\ runtsk' = runtsk /\ pc' \in {"task", "dispatcher"}
      /\ locked' = locked /\ excpt_nest_count' = 0
  BY <1>1 DEF chg_ipm_enaall, TaskContext
<1>3. TexInv /\ IInv /\ IInv'
  BY <1>1, KernelStepsKeep DEF TexKernelNext, TInv, TexInv
<1>4. /\ runtsk \in Task /\ RecordOK(runtsk, tex[runtsk]) /\ tex[runtsk].resume = "none"
      /\ tex[runtsk].waifbd => tex[runtsk].svclevel > 0
      /\ locked' = FALSE /\ disdsp' \in BOOLEAN
  BY <1>2, <1>3, OfRunning DEF IInv, KernelInv, ContextInv
<1>5. /\ RecordOK(runtsk, x) /\ x.resume = "none"
      /\ x.waifbd => x.svclevel > 0
      /\ MaskedOK(tex[runtsk]) => MaskedOK(x)
      /\ pc' = "task" /\ runtsk \notin UserTask => ~Due(x, ipmflg')
  BY <1>4, CheckedInCall DEF Evolves
<1> HIDE DEF x
<1>6. QED
  BY <1>1, <1>2, <1>3, <1>4, <1>5, CallExitKeeps

\* unl_cpu, and iunl_cpu in a handler.
LEMMA UnlockKeeps == ASSUME TInv, unl_cpu PROVE TInv'
<1>1. /\ unlock_cpu /\ misread' = misread
      /\ locked /\ runtsk' = runtsk /\ pc' = pc /\ pc \in {"task", "idle"}
      /\ excpt_nest_count' = excpt_nest_count /\ reqflg' = reqflg
      /\ ipmflg' = ipmflg /\ locked' = FALSE
  BY DEF unl_cpu, unlock_cpu, InHandler, flags
<1>2. TexInv /\ IInv /\ IInv'
  BY <1>1, KernelStepsKeep DEF TexKernelNext, TInv, TexInv
<1>3. CASE pc = "task" /\ excpt_nest_count = 0
  <2> DEFINE x == CheckInCall(runtsk, tex[runtsk])
  <2>1. CallExitOf(x, "call")
    BY <1>3 DEF unl_cpu
  <2>2. /\ runtsk \in Task /\ RecordOK(runtsk, tex[runtsk]) /\ tex[runtsk].resume = "none"
        /\ tex[runtsk].waifbd => tex[runtsk].svclevel > 0
        /\ disdsp' \in BOOLEAN
    BY <1>2, <1>3, OfRunning DEF IInv, KernelInv, ContextInv
  <2>3. /\ RecordOK(runtsk, x) /\ x.resume = "none"
        /\ x.waifbd => x.svclevel > 0
        /\ MaskedOK(tex[runtsk]) => MaskedOK(x)
        /\ runtsk \notin UserTask => ~Due(x, ipmflg')
    BY <2>2, CheckedInCall DEF Evolves
  <2> HIDE DEF x
  <2>4. QED
    BY <1>1, <1>2, <1>3, <2>1, <2>2, <2>3, CallExitKeeps
<1>4. CASE ~(pc = "task" /\ excpt_nest_count = 0)
  <2>1. tex' = tex
    BY <1>4 DEF unl_cpu
  <2>2. TakenInv => TakenInv'
    BY <1>1, <1>4, <2>1 DEF TakenInv, TakenAtOnce
  <2>3. QED
    BY <1>1, <1>2, <2>1, <2>2, IdleStep DEF Occupied
<1>5. QED
  BY <1>3, <1>4

\* What the calls of task_except.c leave alone.
LEMMA ContextStays ==
  ASSUME TInv, SameContext, reqflg' = reqflg
  PROVE  /\ IInv' /\ runtsk' = runtsk /\ pc' = pc /\ ipmflg' = ipmflg /\ disdsp' = disdsp
         /\ locked' = locked /\ excpt_nest_count' = excpt_nest_count
<1>1. IInv'
  BY SameContextIsStutter, KernelStepsKeep DEF TInv, TexInv
<1>2. QED
  BY <1>1 DEF SameContext, flags

\* ras_tex, dis_wai_tex and ena_tex of the running task, which is left with the
\* record x.
LEMMA ExceptionCallKeeps ==
  ASSUME TInv, TaskContext, SameContext, reqflg' = reqflg, misread' = misread,
         NEW x, CallExitOf(x, "call"), RecordOK(runtsk, x), x.resume = "none",
         x.waifbd /\ runtsk \notin UserTask => x.svclevel > 0,
         MaskedOK(tex[runtsk]) => MaskedOK(x),
         TakenInv /\ ~misread /\ runtsk \notin UserTask => ~Due(x, ipmflg')
  PROVE  TInv'
<1>1. /\ IInv' /\ runtsk' = runtsk /\ pc' = "task" /\ pc = "task"
      /\ locked' = locked /\ excpt_nest_count' = 0 /\ ~locked
  BY ContextStays DEF TaskContext
<1>2. locked' = FALSE
  BY <1>1 DEF IInv, KernelInv, ContextInv
<1>3. QED
  BY <1>1, <1>2, CallExitKeeps

\* ras_tex, for the caller or for another task.
LEMMA RaiseKeeps ==
  ASSUME TInv, NEW t \in Task, NEW ptn \in TexBits, ras_tex(t, ptn) PROVE TInv'
<1> DEFINE x == [tex[t] EXCEPT !.texptn = @ \cup {ptn}]
<1>1. /\ TaskContext /\ SameContext /\ reqflg' = reqflg /\ misread' = misread
      /\ IF t = runtsk THEN CallExitOf(CheckInCall(t, x), "call")
                       ELSE tex' = [tex EXCEPT ![t] = x]
  BY DEF ras_tex
<1>2. /\ IInv' /\ runtsk' = runtsk /\ pc' = pc /\ ipmflg' = ipmflg
      /\ disdsp' = disdsp /\ locked' = locked /\ excpt_nest_count' = excpt_nest_count
      /\ pc = "task"
  BY <1>1, ContextStays DEF TaskContext
<1>3. /\ RecordOK(t, tex[t]) /\ ForbiddenOK(t, tex[t]) /\ tex[t] \in TexType
  BY DEF TInv, TexInv, RecordOK
<1>4. /\ x \in TexType /\ x.routines = tex[t].routines /\ x.resume = tex[t].resume
      /\ x.enatex = tex[t].enatex /\ x.waifbd = tex[t].waifbd
      /\ x.svclevel = tex[t].svclevel
  BY <1>3 DEF TexType
<1> HIDE DEF x
<1>5. RecordOK(t, x) /\ ForbiddenOK(t, x) /\ (MaskedOK(tex[t]) => MaskedOK(x))
  BY <1>3, <1>4 DEF RecordOK, NestedOK, ForbiddenOK, InPrivilegedMode, MaskedOK
<1>6. CASE t = runtsk
  <2> DEFINE y == CheckInCall(t, x)
  <2>1. disdsp' \in BOOLEAN /\ x.resume = "none" /\ (x.waifbd => x.svclevel > 0)
    BY <1>2, <1>4, <1>6, OfRunning DEF TInv
  <2>2. /\ Evolves(t, x, y) /\ y.waifbd = x.waifbd
        /\ MaskedOK(x) => MaskedOK(y)
        /\ t \notin UserTask => ~Due(y, ipmflg')
    BY <1>5, <2>1, CheckedInCall
  <2>3. CallExitOf(y, "call")
    BY <1>1, <1>6
  <2> HIDE DEF y
  <2>4. /\ RecordOK(t, y) /\ y.resume = "none" /\ (y.waifbd => y.svclevel > 0)
    BY <2>1, <2>2 DEF Evolves
  <2>5. QED
    BY <1>1, <1>5, <1>6, <2>2, <2>3, <2>4, ExceptionCallKeeps
<1>7. CASE t # runtsk
  BY <1>1, <1>2, <1>4, <1>5, <1>7, RequestStep
<1>8. QED
  BY <1>6, <1>7

\* iras_tex.
LEMMA RaiseInHandlerKeeps ==
  ASSUME TInv, NEW t \in Task, NEW ptn \in TexBits, iras_tex(t, ptn) PROVE TInv'
<1> DEFINE x == [tex[t] EXCEPT !.texptn = @ \cup {ptn}]
<1>1. /\ IntContext /\ SameContext /\ misread' = misread
      /\ tex' = [tex EXCEPT ![t] = x]
      /\ reqflg' = (reqflg \/ (t = runtsk /\ tex[t].enatex /\ ipmflg))
  BY DEF iras_tex
<1>2. TexInv /\ IInv /\ reqflg \in BOOLEAN /\ excpt_nest_count \in Nat
  BY DispatcherAssumption DEF TInv, TexInv, IInv, KernelInv, ContextInv
<1>3. IInv'
  BY <1>1, <1>2, RequestKeeps
<1>4. /\ runtsk' = runtsk /\ pc' = pc /\ ipmflg' = ipmflg /\ locked' = locked
      /\ excpt_nest_count' = excpt_nest_count /\ excpt_nest_count > 0
      /\ pc \in {"task", "idle"}
  BY <1>1, <1>2 DEF SameContext, IntContext, flags
<1>5. tex[t] \in TexType /\ ForbiddenOK(t, tex[t])
  BY <1>2 DEF TexInv
<1>6. /\ x \in TexType /\ x.routines = tex[t].routines /\ x.resume = tex[t].resume
      /\ x.enatex = tex[t].enatex /\ x.waifbd = tex[t].waifbd
      /\ x.svclevel = tex[t].svclevel
  BY <1>5 DEF TexType
<1> HIDE DEF x
<1>7. ForbiddenOK(t, x)
  BY <1>5, <1>6 DEF ForbiddenOK, InPrivilegedMode
<1>8. (reqflg => reqflg') /\ (t = runtsk /\ Due(x, ipmflg) => reqflg')
  BY <1>1, <1>6 DEF Due
<1>9. QED
  BY <1>1, <1>3, <1>4, <1>6, <1>7, <1>8, RequestStep

\* dis_tex.
LEMMA DisableKeeps == ASSUME TInv, dis_tex PROVE TInv'
<1> DEFINE x == [tex[runtsk] EXCEPT !.enatex = FALSE]
<1>1. /\ TaskContext /\ SameContext /\ reqflg' = reqflg /\ misread' = misread
      /\ tex' = [tex EXCEPT ![runtsk] = x]
  BY DEF dis_tex
<1>2. IInv' /\ runtsk' = runtsk /\ pc' = "task" /\ pc = "task" /\ excpt_nest_count' = 0
  BY <1>1, ContextStays DEF TaskContext
<1>3. /\ runtsk \in Task /\ RecordOK(runtsk, tex[runtsk]) /\ tex[runtsk] \in TexType
      /\ tex[runtsk].resume = "none"
      /\ tex[runtsk].waifbd => tex[runtsk].svclevel > 0
  BY <1>2, OfRunning DEF TInv
<1>4. /\ x \in TexType /\ x.routines = tex[runtsk].routines /\ x.resume = "none"
      /\ ~x.enatex /\ x.waifbd = tex[runtsk].waifbd
      /\ x.svclevel = tex[runtsk].svclevel
  BY <1>3 DEF TexType
<1> HIDE DEF x
<1>5. /\ RecordOK(runtsk, x) /\ ResumeOK(runtsk, x) /\ ForbiddenOK(runtsk, x)
      /\ MaskedOK(tex[runtsk]) => MaskedOK(x)
      /\ ~Due(x, ipmflg')
  BY <1>3, <1>4
     DEF RecordOK, NestedOK, ResumeOK, ForbiddenOK, InPrivilegedMode, MaskedOK, Due
<1>6. QED
  BY <1>1, <1>2, <1>4, <1>5, RunningStep

\* ena_tex, which marks the routine that makes the call.
LEMMA EnableKeeps == ASSUME TInv, ena_tex PROVE TInv'
<1> DEFINE x0 == tex[runtsk]
           n  == Len(x0.routines)
           r2 == IF n = 0 THEN x0.routines ELSE [x0.routines EXCEPT ![n].enabled = TRUE]
           x  == [x0 EXCEPT !.enatex = TRUE, !.routines = r2]
           y  == CheckInCall(runtsk, x)
<1>1. /\ TaskContext /\ SameContext /\ reqflg' = reqflg /\ misread' = misread
      /\ CallExitOf(CheckInCall(runtsk,
           [x0 EXCEPT !.enatex = TRUE,
                      !.routines = IF n = 0 THEN @ ELSE [@ EXCEPT ![n].enabled = TRUE]]),
           "call")
  BY DEF ena_tex
<1>2. /\ pc = "task" /\ disdsp' = disdsp /\ ipmflg' = ipmflg
  BY <1>1, ContextStays DEF TaskContext
<1>3. /\ runtsk \in Task /\ RecordOK(runtsk, x0) /\ x0 \in TexType
      /\ x0.resume = "none" /\ (x0.waifbd => x0.svclevel > 0) /\ disdsp \in BOOLEAN
  BY <1>2, OfRunning DEF TInv
<1>4. CallExitOf(y, "call")
  BY <1>1, <1>3 DEF TexType
<1>5. /\ x0.routines \in Seq(RoutineType) /\ n \in Nat
      /\ \A i \in 1 .. n : x0.routines[i] \in RoutineType
  BY <1>3 DEF TexType
<1> HIDE DEF x0, n
<1>6. /\ r2 \in Seq(RoutineType) /\ Len(r2) = n
      /\ \A i \in 1 .. n : /\ r2[i].mode = x0.routines[i].mode
                           /\ r2[i].svclevel = x0.routines[i].svclevel
      /\ \A i \in 1 .. n - 1 : r2[i].enabled = x0.routines[i].enabled
      /\ n # 0 => r2[n].enabled
  <2>1. CASE n = 0
    BY <1>5, <2>1 DEF n
  <2>2. CASE n # 0
    <3>1. ASSUME NEW r \in RoutineType
          PROVE  LET r1 == [r EXCEPT !.enabled = TRUE]
                 IN  /\ r1 \in RoutineType /\ r1.mode = r.mode /\ r1.enabled
                     /\ r1.svclevel = r.svclevel
      BY DEF RoutineType
    <3>2. x0.routines[n] \in RoutineType /\ n = Len(x0.routines)
      BY <1>5, <2>2 DEF n
    <3> DEFINE top == [x0.routines[n] EXCEPT !.enabled = TRUE]
    <3>3. /\ top \in RoutineType /\ top.mode = x0.routines[n].mode /\ top.enabled
          /\ top.svclevel = x0.routines[n].svclevel
      BY <3>1, <3>2
    <3>4. r2 = [x0.routines EXCEPT ![n] = top]
      BY <2>2
    <3> HIDE DEF top, r2
    <3>5. /\ r2 \in Seq(RoutineType) /\ Len(r2) = n /\ r2[n] = top
          /\ \A i \in 1 .. n - 1 : r2[i] = x0.routines[i]
      BY <1>5, <2>2, <3>2, <3>3, <3>4
    <3>6. \A i \in 1 .. n : i \in 1 .. n - 1 \/ i = n
      BY <1>5
    <3>7. QED
      BY <2>2, <3>3, <3>5, <3>6
  <2>3. QED
    BY <2>1, <2>2
<1> HIDE DEF r2
<1>7. /\ x \in TexType /\ x.routines = r2 /\ x.enatex /\ x.resume = "none"
      /\ x.waifbd = x0.waifbd /\ x.svclevel = x0.svclevel
  BY <1>3, <1>6 DEF TexType
<1> HIDE DEF x
<1>8. RecordOK(runtsk, x)
  <2>1. runtsk \notin UserTask => NestedOK(x0)
    BY <1>3 DEF RecordOK
  <2>2. NestedOK(x0) => NestedOK(x)
    BY <1>5, <1>6, <1>7 DEF NestedOK, n
  <2>3. QED
    BY <1>7, <2>1, <2>2 DEF RecordOK
<1>9. MaskedOK(x0) => MaskedOK(x)
  BY <1>6, <1>7 DEF MaskedOK, n
<1>10. /\ Evolves(runtsk, x, y) /\ y.waifbd = x.waifbd
       /\ MaskedOK(x) => MaskedOK(y)
       /\ runtsk \notin UserTask => ~Due(y, ipmflg')
  BY <1>2, <1>3, <1>8, CheckedInCall
<1> HIDE DEF y
<1>11. RecordOK(runtsk, y) /\ y.resume = "none" /\ (y.waifbd => y.svclevel > 0)
  BY <1>3, <1>7, <1>10 DEF Evolves
<1>12. MaskedOK(tex[runtsk]) => MaskedOK(y)
  BY <1>9, <1>10 DEF x0
<1>13. QED
  BY <1>1, <1>4, <1>10, <1>11, <1>12, ExceptionCallKeeps

\* dis_wai_tex, for the caller or for another task, and idis_wai_tex.
LEMMA ForbidWaitKeeps ==
  ASSUME TInv, NEW t \in Task, dis_wai_tex(t) \/ idis_wai_tex(t) PROVE TInv'
<1> DEFINE x == [tex[t] EXCEPT !.waifbd = TRUE]
<1>1. /\ SameContext /\ reqflg' = reqflg /\ misread' = misread
      /\ \/ /\ TaskContext /\ t_sense_texmask(t)
            /\ IF t = runtsk THEN CallExitOf(x, "call") ELSE tex' = [tex EXCEPT ![t] = x]
         \/ /\ IntContext /\ i_sense_texmask(t)
            /\ tex' = [tex EXCEPT ![t] = x]
  BY DEF dis_wai_tex, idis_wai_tex
<1>2. /\ IInv' /\ runtsk' = runtsk /\ pc' = pc /\ ipmflg' = ipmflg
      /\ locked' = locked /\ excpt_nest_count' = excpt_nest_count
      /\ pc \in {"task", "idle"}
  BY <1>1, ContextStays DEF TaskContext, IntContext
<1>3. RecordOK(t, tex[t]) /\ tex[t] \in TexType
  BY DEF TInv, TexInv, RecordOK
<1>4. /\ x \in TexType /\ x.routines = tex[t].routines /\ x.resume = tex[t].resume
      /\ x.enatex = tex[t].enatex /\ x.texptn = tex[t].texptn
      /\ x.svclevel = tex[t].svclevel
  BY <1>3 DEF TexType
<1> HIDE DEF x
<1>5. /\ RecordOK(t, x) /\ (MaskedOK(tex[t]) => MaskedOK(x))
      /\ Due(x, ipmflg) <=> Due(tex[t], ipmflg)
  BY <1>3, <1>4 DEF RecordOK, NestedOK, MaskedOK, Due
<1>6. CASE TaskContext /\ t = runtsk /\ CallExitOf(x, "call") /\ t_sense_texmask(t)
  <2>1. pc = "task" /\ excpt_nest_count = 0 /\ ~locked
    BY <1>6 DEF TaskContext
  <2>2. x.resume = "none"
    BY <1>4, <1>6, <2>1, OfRunning DEF TInv
  <2>3. runtsk \notin UserTask => x.svclevel > 0
    BY <1>4, <1>6 DEF t_sense_texmask
  <2>4. TakenInv /\ ~misread => ~Due(x, ipmflg')
    BY <1>2, <1>5, <1>6, <2>1 DEF TakenInv, TakenAtOnce
  <2>5. QED
    BY <1>1, <1>5, <1>6, <2>2, <2>3, <2>4, ExceptionCallKeeps
<1>7. CASE /\ tex' = [tex EXCEPT ![t] = x]
           /\ (t # runtsk /\ t_sense_texmask(t)) \/ i_sense_texmask(t)
  <2>1. ForbiddenOK(t, x)
    BY <1>4, <1>7 DEF ForbiddenOK, InPrivilegedMode, t_sense_texmask, i_sense_texmask
  <2>2. QED
    BY <1>1, <1>2, <1>4, <1>5, <1>7, <2>1, RequestStep
<1>8. QED
  BY <1>1, <1>6, <1>7

\* cal_svc of the running task: the exceptions are masked in what it calls.
LEMMA CallServiceKeeps == ASSUME TInv, ex_service_call PROVE TInv'
<1> DEFINE x0 == tex[runtsk]
           x  == [x0 EXCEPT !.svclevel = @ + 1]
<1>1. /\ pc = "task" /\ SameContext /\ reqflg' = reqflg /\ misread' = misread
      /\ excpt_nest_count = 0 /\ tex' = [tex EXCEPT ![runtsk] = x]
  BY DEF ex_service_call
<1>2. IInv' /\ runtsk' = runtsk /\ pc' = pc /\ excpt_nest_count' = 0
  BY <1>1, ContextStays
<1>3. /\ runtsk \in Task /\ RecordOK(runtsk, x0) /\ x0 \in TexType
      /\ x0.resume = "none" /\ (x0.waifbd => x0.svclevel > 0)
  BY <1>1, OfRunning DEF TInv
<1> HIDE DEF x0
<1>4. /\ x \in TexType /\ x.routines = x0.routines /\ x.resume = "none"
      /\ x.enatex = x0.enatex /\ x.waifbd = x0.waifbd /\ x.svclevel > 0
  BY <1>3 DEF TexType
<1> HIDE DEF x
<1>5. /\ RecordOK(runtsk, x) /\ ResumeOK(runtsk, x) /\ ForbiddenOK(runtsk, x)
      /\ MaskedOK(x0) => MaskedOK(x)
      /\ ~Due(x, ipmflg')
  BY <1>3, <1>4
     DEF RecordOK, NestedOK, ResumeOK, ForbiddenOK, InPrivilegedMode, MaskedOK, Due
<1>6. QED
  BY <1>1, <1>2, <1>4, <1>5, RunningStep DEF x0

\* The return of an extended service call, where a routine may be due.
LEMMA LeaveServiceKeeps == ASSUME TInv, ret_extsvc PROVE TInv'
<1> DEFINE x0   == tex[runtsk]
           x1   == [x0 EXCEPT !.svclevel = @ - 1, !.waifbd = @ /\ x0.svclevel > 1]
           mode == IF runtsk \in UserTask THEN "utask" ELSE "stask"
           z    == IF Due(x1, ipmflg) /\ ~locked THEN start_routine(x1, mode, disdsp) ELSE x1
<1>1. /\ pc = "task" /\ SameContext /\ reqflg' = reqflg /\ misread' = misread
      /\ excpt_nest_count = 0 /\ tex' = [tex EXCEPT ![runtsk] = z]
      /\ x0.svclevel > (IF x0.routines = << >> THEN 0 ELSE Last(x0.routines).svclevel)
  BY DEF ret_extsvc
<1>2. /\ IInv' /\ runtsk' = runtsk /\ pc' = pc /\ excpt_nest_count' = 0
      /\ ipmflg' = ipmflg /\ locked' = locked
  BY <1>1, ContextStays
<1>3. /\ runtsk \in Task /\ RecordOK(runtsk, x0) /\ x0 \in TexType
      /\ x0.resume = "none" /\ (x0.waifbd => x0.svclevel > 0) /\ disdsp \in BOOLEAN
  BY <1>1, OfRunning DEF TInv
<1> HIDE DEF x0
<1>4. x0.svclevel \in Nat /\ x0.svclevel > 0
  <2>1. x0.svclevel \in Nat /\ x0.routines \in Seq(RoutineType)
    BY <1>3 DEF TexType
  <2>2. CASE x0.routines = << >>
    BY <1>1, <2>1, <2>2
  <2>3. CASE x0.routines # << >>
    <3>1. x0.routines[Len(x0.routines)] \in RoutineType
      BY <2>1, <2>3
    <3>2. Last(x0.routines).svclevel \in Nat
      BY <3>1 DEF Last, RoutineType
    <3>3. QED
      BY <1>1, <2>1, <2>3, <3>2
  <2>4. QED
    BY <2>2, <2>3
<1>5. /\ x1 \in TexType /\ x1.routines = x0.routines /\ x1.resume = "none"
      /\ x1.enatex = x0.enatex /\ (x1.waifbd => x1.svclevel > 0)
  <2> DEFINE w == x0.waifbd /\ x0.svclevel > 1
             v == x0.svclevel - 1
  <2>1. /\ w \in BOOLEAN /\ v \in Nat /\ (w => v > 0)
        /\ x1 = [x0 EXCEPT !.svclevel = v, !.waifbd = w]
    BY <1>4
  <2> HIDE DEF w, v, x1
  <2>2. QED
    BY <1>3, <2>1 DEF TexType
<1> HIDE DEF x1
<1>6. RecordOK(runtsk, x1) /\ (MaskedOK(x0) => MaskedOK(x1))
  BY <1>3, <1>5 DEF RecordOK, NestedOK, MaskedOK
<1>7. /\ Evolves(runtsk, x1, z) /\ (MaskedOK(x1) => MaskedOK(z))
      /\ ~locked => ~Due(z, ipmflg)
  <2>1. CASE Due(x1, ipmflg) /\ ~locked
    <3>1. z = start_routine(x1, mode, disdsp)
      BY <2>1
    <3>2. x1.enatex /\ x1.svclevel = 0
      BY <2>1 DEF Due
    <3>3. mode \in {"stask", "utask"} /\ (runtsk \notin UserTask => mode = "stask")
      OBVIOUS
    <3> HIDE DEF mode, z
    <3>4. /\ Evolves(runtsk, x1, z) /\ ~z.enatex
          /\ x1.svclevel = 0 /\ MaskedOK(x1) => MaskedOK(z)
      BY <1>3, <1>6, <3>1, <3>2, <3>3, StartRoutine
    <3>5. QED
      BY <3>2, <3>4 DEF Due
  <2>2. CASE ~(Due(x1, ipmflg) /\ ~locked)
    BY <1>6, <2>2 DEF Evolves
  <2>3. QED
    BY <2>1, <2>2
<1> HIDE DEF z
<1>8. /\ RecordOK(runtsk, z) /\ z.resume = "none" /\ (z.waifbd => z.svclevel > 0)
  BY <1>5, <1>7 DEF Evolves
<1>9. ResumeOK(runtsk, z) /\ ForbiddenOK(runtsk, z)
  BY <1>8 DEF ResumeOK, ForbiddenOK, InPrivilegedMode
<1>10. QED
  BY <1>1, <1>2, <1>6, <1>7, <1>8, <1>9, RunningStep DEF x0

\* The routine that returns; a system task's exceptions are disabled again.
LEMMA LeavesRoutine ==
  ASSUME NEW t \in Task, NEW x, RecordOK(t, x), x.routines # << >>
  PROVE  LET y == leave_routine(x)
         IN  /\ RecordOK(t, y) /\ (t \notin UserTask => ~y.enatex)
             /\ y.svclevel = x.svclevel /\ y.waifbd = x.waifbd /\ y.resume = x.resume
             /\ y.routines = x.routines
<1>1. x \in TexType /\ Len(x.routines) \in 1 .. Len(x.routines)
  BY DEF RecordOK, TexType
<1>2. t \notin UserTask => Last(x.routines).mode = "stask"
  BY <1>1 DEF RecordOK, NestedOK, Last
<1>3. CASE Last(x.routines).mode = "stask"
  <2> DEFINE y == [x EXCEPT !.enatex = FALSE]
  <2>1. /\ y \in TexType /\ ~y.enatex /\ y.svclevel = x.svclevel /\ y.waifbd = x.waifbd
        /\ y.resume = x.resume /\ y.routines = x.routines
    BY <1>1 DEF TexType
  <2>2. leave_routine(x) = y
    BY <1>3 DEF leave_routine
  <2> HIDE DEF y
  <2>3. RecordOK(t, y)
    BY <2>1 DEF RecordOK, NestedOK
  <2>4. QED
    BY <2>1, <2>2, <2>3
<1>4. CASE Last(x.routines).mode # "stask"
  BY <1>2, <1>4 DEF leave_routine
<1>5. QED
  BY <1>3, <1>4

\* The return of an exception routine, with the dispatch it makes up for.
LEMMA TexReturnKeeps == ASSUME TInv, TexReturn PROVE TInv'
<1> DEFINE x0  == tex[runtsk]
           top == Last(x0.routines)
           y   == leave_routine(x0)
<1>1. /\ pc = "task" /\ excpt_nest_count = 0 /\ x0.routines # << >>
      /\ ipmflg' = TRUE /\ disdsp' = top.disdsp /\ dspflg' = ~top.disdsp /\ locked' = FALSE
      /\ UNCHANGED << k, runtsk, frame, reqflg, excpt_nest_count >> /\ misread' = misread
      /\ IF dspflg' /\ runtsk # k.rq.schedtsk
         THEN /\ pc' = "dispatcher"
              /\ tex' = [tex EXCEPT ![runtsk] = [y EXCEPT !.resume = "routine"]]
         ELSE pc' = "task" /\ tex' = [tex EXCEPT ![runtsk] = served(y)]
  BY DEF TexReturn
<1>2. /\ IInv /\ runtsk \in Task /\ RecordOK(runtsk, x0) /\ x0 \in TexType
      /\ x0.resume = "none" /\ (x0.waifbd => x0.svclevel > 0)
  BY <1>1, OfRunning DEF TInv
<1>3. top.disdsp \in BOOLEAN
  <2>1. x0.routines[Len(x0.routines)] \in RoutineType
    BY <1>1, <1>2 DEF TexType
  <2>2. QED
    BY <2>1 DEF Last, RoutineType
<1> HIDE DEF x0, top
<1>4. pc' = IF dspflg' /\ runtsk # k.rq.schedtsk THEN "dispatcher" ELSE "task"
  BY <1>1
<1>5. IInv'
  BY <1>1, <1>2, <1>3, <1>4, ReturnKeeps
<1>6. /\ RecordOK(runtsk, y) /\ (runtsk \notin UserTask => ~y.enatex)
      /\ y.svclevel = x0.svclevel /\ y.waifbd = x0.waifbd /\ y.resume = x0.resume
      /\ y.routines = x0.routines
  BY <1>1, <1>2, LeavesRoutine
<1> HIDE DEF y
<1>7. CASE pc' = "dispatcher"
  <2> DEFINE z == [y EXCEPT !.resume = "routine"]
  <2>1. /\ z \in TexType /\ z.resume = "routine" /\ z.enatex = y.enatex
        /\ z.svclevel = x0.svclevel /\ z.waifbd = x0.waifbd /\ z.routines = x0.routines
    BY <1>6 DEF RecordOK, TexType
  <2>2. tex' = [tex EXCEPT ![runtsk] = z]
    BY <1>1, <1>7
  <2> HIDE DEF z
  <2>3. /\ RecordOK(runtsk, z) /\ (MaskedOK(x0) => MaskedOK(z))
        /\ ResumeOK(runtsk, z) /\ ForbiddenOK(runtsk, z)
    BY <1>1, <1>2, <1>6, <2>1
       DEF RecordOK, NestedOK, MaskedOK, ResumeOK, ForbiddenOK, InPrivilegedMode
  <2>4. QED
    BY <1>1, <1>5, <1>7, <2>1, <2>2, <2>3, RunningStep DEF x0
<1>8. CASE pc' = "task"
  <2> DEFINE z == served(y)
  <2>1. /\ RecordOK(runtsk, z) /\ z.texptn = {} /\ z.svclevel = y.svclevel
        /\ z.waifbd = y.waifbd /\ z.resume = y.resume
        /\ MaskedOK(y) => MaskedOK(z)
    BY <1>1, <1>2, <1>6, Served
  <2>2. tex' = [tex EXCEPT ![runtsk] = z]
    BY <1>1, <1>8
  <2> HIDE DEF z
  <2>3. /\ MaskedOK(x0) => MaskedOK(z)
        /\ ResumeOK(runtsk, z) /\ ForbiddenOK(runtsk, z) /\ z.resume = "none"
        /\ ~Due(z, ipmflg')
    BY <1>2, <1>6, <2>1 DEF MaskedOK, ResumeOK, ForbiddenOK, InPrivilegedMode, Due
  <2>4. runtsk' = runtsk /\ excpt_nest_count' = 0
    BY <1>1
  <2>5. QED
    BY <1>1, <1>5, <1>8, <2>1, <2>2, <2>3, <2>4, RunningStep DEF x0
<1>9. QED
  BY <1>1, <1>7, <1>8

\* The exit of an interrupt, which looks for exceptions only when it is asked to.
LEMMA RetIntKeeps == ASSUME TInv, ret_int PROVE TInv'
<1> DEFINE x == tex[runtsk]
           z == IF pc' = "dispatcher" THEN [x EXCEPT !.resume = "interrupt"]
                ELSE IF reqflg THEN ret_int_4(runtsk, x) ELSE x
<1>1. /\ ret_int_task /\ misread' = misread /\ tex' = [tex EXCEPT ![runtsk] = z]
      /\ pc = "task" /\ excpt_nest_count = 1 /\ excpt_nest_count' = 0
      /\ runtsk' = runtsk /\ pc' \in {"task", "dispatcher"} /\ ipmflg' = ipmflg
  <2>1. ret_int_task /\ misread' = misread
    BY DEF ret_int
  <2>2. pc = "task" /\ excpt_nest_count = 1
    BY <2>1 DEF ret_int_task, InHandler
  <2>3. runtsk \in DOMAIN tex
    BY <2>2, OfRunning DEF TInv
  <2>4. tex' = [tex EXCEPT ![runtsk] = z]
    BY <2>3 DEF ret_int
  <2>5. QED
    BY <2>1, <2>2, <2>4 DEF ret_int_task, flags
<1>2. IInv' /\ IInv
  BY <1>1, KernelStepsKeep DEF TexKernelNext, TInv, TexInv
<1>3. /\ runtsk \in Task /\ RecordOK(runtsk, x) /\ x \in TexType
      /\ x.resume = "none" /\ (x.waifbd => x.svclevel > 0) /\ disdsp' \in BOOLEAN
  BY <1>1, <1>2, OfRunning DEF TInv, IInv, KernelInv, ContextInv
<1> HIDE DEF x
<1>4. CASE pc' = "dispatcher"
  <2>1. z = [x EXCEPT !.resume = "interrupt"]
    BY <1>4
  <2> HIDE DEF z
  <2>2. /\ z \in TexType /\ z.resume = "interrupt" /\ z.enatex = x.enatex
        /\ z.svclevel = x.svclevel /\ z.waifbd = x.waifbd /\ z.routines = x.routines
    BY <1>3, <2>1 DEF TexType
  <2>3. /\ RecordOK(runtsk, z) /\ (MaskedOK(x) => MaskedOK(z))
        /\ ResumeOK(runtsk, z) /\ ForbiddenOK(runtsk, z)
    BY <1>3, <2>2
       DEF RecordOK, NestedOK, MaskedOK, ResumeOK, ForbiddenOK, InPrivilegedMode
  <2>4. QED
    BY <1>1, <1>2, <1>4, <2>2, <2>3, RunningStep DEF x
<1>5. CASE pc' = "task" /\ reqflg
  <2>1. z = ret_int_4(runtsk, x)
    BY <1>5
  <2>2. /\ Evolves(runtsk, x, z) /\ z.waifbd = x.waifbd
        /\ MaskedOK(x) => MaskedOK(z)
        /\ ~Due(z, ipmflg')
    BY <1>3, <2>1, ReturnsFromInterrupt
  <2> HIDE DEF z
  <2>3. /\ RecordOK(runtsk, z) /\ z.resume = "none"
        /\ ResumeOK(runtsk, z) /\ ForbiddenOK(runtsk, z)
    BY <1>3, <2>2 DEF Evolves, ResumeOK, ForbiddenOK, InPrivilegedMode
  <2>4. QED
    BY <1>1, <1>2, <1>5, <2>2, <2>3, RunningStep DEF x
<1>6. CASE pc' = "task" /\ ~reqflg
  <2>1. z = x
    BY <1>6
  <2> HIDE DEF z
  <2>2. ResumeOK(runtsk, z) /\ ForbiddenOK(runtsk, z)
    BY <1>3, <2>1 DEF ResumeOK, ForbiddenOK, InPrivilegedMode
  <2>3. TakenInv /\ ~misread => ~Due(z, ipmflg')
    BY <1>1, <1>3, <1>6, <2>1 DEF TakenInv, TakenAtOnce, x
  <2>4. QED
    BY <1>1, <1>2, <1>3, <1>6, <2>1, <2>2, <2>3, RunningStep DEF x
<1>7. QED
  BY <1>1, <1>4, <1>5, <1>6

\* A task ends; another one's ter_tsk returns, or the dispatcher takes over.
LEMMA EndKeeps == ASSUME TInv, EndOfTask PROVE TInv'
<1> DEFINE e == frame.tsk
           x == tex[runtsk]
           z == CallExit(runtsk, x, "call")
<1>1. /\ end_of_task /\ misread' = misread
      /\ tex' = [t \in Task |-> IF t = e THEN NoTex
                                ELSE IF t = runtsk THEN CallExit(t, tex[t], "call")
                                ELSE tex[t]]
  BY DEF EndOfTask
<1>2. /\ pc = "release_all" /\ runtsk' = runtsk /\ pc' \in {"task", "dispatcher"}
      /\ frame.exits => pc' = "dispatcher"
      /\ ipmflg' = ipmflg /\ locked' = locked /\ excpt_nest_count' = excpt_nest_count
  BY <1>1 DEF end_of_task, LoopEnd, flags
<1>3. TexInv /\ IInv /\ IInv'
  BY <1>1, KernelStepsKeep DEF TexKernelNext, TInv, TexInv
<1>4. /\ e \in Task /\ (frame.exits => e = runtsk) /\ excpt_nest_count = 0
      /\ ~frame.exits => runtsk \in Task /\ runtsk # e
      /\ disdsp' \in BOOLEAN
  BY <1>2, <1>3 DEF TexInv, IInv, KernelInv, ContextInv, LoopInv, Looping
<1>5. /\ NoTex \in TexType /\ RecordOK(e, NoTex) /\ ResumeOK(e, NoTex)
      /\ ForbiddenOK(e, NoTex) /\ MaskedOK(NoTex) /\ ~NoTex.enatex
  BY DEF NoTex, TexType, RecordOK, NestedOK, ResumeOK, ForbiddenOK, MaskedOK
<1>6. ~frame.exits =>
        /\ RecordOK(runtsk, z) /\ ResumeOK(runtsk, z) /\ ForbiddenOK(runtsk, z)
        /\ ~misread => MaskedOK(z)
        /\ z.resume = "none" <=> pc' = "task"
        /\ LowBitsOnly /\ TakenInv /\ ~misread /\ pc' = "task" => ~Due(z, ipmflg')
  <2>1. SUFFICES ASSUME ~frame.exits
                 PROVE  /\ RecordOK(runtsk, z) /\ ResumeOK(runtsk, z) /\ ForbiddenOK(runtsk, z)
                        /\ ~misread => MaskedOK(z)
                        /\ z.resume = "none" <=> pc' = "task"
                        /\ LowBitsOnly /\ TakenInv /\ ~misread /\ pc' = "task"
                             => ~Due(z, ipmflg')
    OBVIOUS
  <2>2. /\ runtsk \in Task /\ RecordOK(runtsk, x) /\ x.resume = "none"
        /\ ForbiddenOK(runtsk, x) /\ (~misread => MaskedOK(x))
    BY <1>2, <1>3, <1>4, <2>1 DEF TexInv, Occupied
  <2>3. x.waifbd => x.svclevel > 0
    BY <2>2 DEF ForbiddenOK, InPrivilegedMode
  <2>4. TakenInv /\ ~misread => ~locked' /\ ~Due(x, ipmflg')
    BY <1>2, <2>1 DEF TakenInv
  <2> HIDE DEF x
  <2>5. /\ RecordOK(runtsk, z) /\ ResumeOK(runtsk, z) /\ ForbiddenOK(runtsk, z)
        /\ MaskedOK(x) => MaskedOK(z)
        /\ z.resume = "none" <=> pc' = "task"
        /\ /\ LowBitsOnly /\ ~locked' /\ pc' = "task"
           /\ runtsk \notin UserTask => ~Due(x, ipmflg')
           => ~Due(z, ipmflg')
    BY <1>2, <1>4, <2>2, <2>3, CallExitRecord
  <2> HIDE DEF z
  <2>6. QED
    BY <2>2, <2>4, <2>5
<1>7. /\ tex'[e] = NoTex
      /\ ~frame.exits => tex'[runtsk] = z
      /\ \A t \in Task : t # e /\ t # runtsk => tex'[t] = tex[t]
  BY <1>1, <1>4
<1> HIDE DEF z
<1>8. ASSUME NEW t \in Task
      PROVE  /\ RecordOK(t, tex'[t]) /\ ResumeOK(t, tex'[t]) /\ ForbiddenOK(t, tex'[t])
             /\ ~misread' => MaskedOK(tex'[t])
             /\ tex'[t].resume = "none" => ~tex'[t].enatex \/ (t = runtsk' /\ Occupied')
  <2>1. CASE t = e
    BY <1>5, <1>7, <2>1
  <2>2. CASE t # e /\ t = runtsk
    BY <1>1, <1>2, <1>4, <1>6, <1>7, <2>2 DEF Occupied
  <2>3. CASE t # e /\ t # runtsk
    BY <1>1, <1>3, <1>7, <2>3 DEF TexInv
  <2>4. QED
    BY <2>1, <2>2, <2>3
<1>9. tex' \in [Task -> TexType]
  <2>1. DOMAIN tex' = Task /\ \A t \in Task : tex'[t] \in TexType
    BY <1>1, <1>8 DEF RecordOK
  <2>2. tex' = [t \in Task |-> tex'[t]]
    BY <1>1
  <2>3. QED
    BY <2>1, <2>2
<1>10. TexInv'
  <2>1. Occupied' /\ runtsk' \in Task => tex'[runtsk'].resume = "none"
    BY <1>2, <1>6, <1>7 DEF Occupied
  <2>2. QED
    BY <1>1, <1>2, <1>3, <1>8, <1>9, <2>1 DEF TexInv
<1>11. LowBitsOnly => TakenInv'
  BY <1>1, <1>2, <1>4, <1>6, <1>7 DEF TInv, TakenInv, TakenAtOnce
<1>12. QED
  BY <1>10, <1>11 DEF TInv, LowBitsOnly

\* What a task has been left with where the dispatcher resumes it.
LEMMA ResumedRecord ==
  ASSUME NEW t \in Task, NEW x, RecordOK(t, x), ResumeOK(t, x), ForbiddenOK(t, x),
         disdsp' \in BOOLEAN, locked' = FALSE, NEW readsZero \in BOOLEAN
  PROVE  LET z == [Resumed(t, x, readsZero) EXCEPT !.resume = "none"]
         IN  /\ RecordOK(t, z) /\ z.resume = "none" /\ (z.waifbd => z.svclevel > 0)
             /\ (readsZero => x.svclevel = 0) /\ MaskedOK(x) => MaskedOK(z)
             /\ /\ readsZero <=> x.svclevel = 0
                /\ LowBitsOnly
                /\ x.resume = "none" => ~x.enatex
                => ~Due(z, ipmflg')
<1> DEFINE y == Resumed(t, x, readsZero)
           z == [y EXCEPT !.resume = "none"]
           d == dispatch_r(t, x, readsZero)
           exact == readsZero <=> x.svclevel = 0
<1>1. x \in TexType
  BY DEF RecordOK
<1>2. /\ Evolves(t, x, d) /\ d.waifbd = x.waifbd
      /\ (readsZero => x.svclevel = 0) /\ MaskedOK(x) => MaskedOK(d)
      /\ t \notin UserTask /\ exact => ~Due(d, ipmflg')
      /\ ~x.enatex => d = x
  BY CheckedInDispatcher
<1> HIDE DEF d, exact
<1>3. RecordOK(t, d) /\ d.svclevel = x.svclevel
  BY <1>2 DEF Evolves
<1>4. /\ RecordOK(t, y) /\ (y.waifbd => y.svclevel > 0)
      /\ (readsZero => x.svclevel = 0) /\ MaskedOK(x) => MaskedOK(y)
      /\ exact /\ LowBitsOnly /\ (x.resume = "none" => ~x.enatex) => ~Due(y, ipmflg')
  <2>1. CASE x.resume = "none"
    BY <2>1 DEF Resumed, ForbiddenOK, InPrivilegedMode, Due
  <2>2. CASE x.resume = "interrupt"
    <3>1. y = ret_int_4(t, x)
      BY <2>2 DEF Resumed
    <3>2. /\ Evolves(t, x, y) /\ y.waifbd = x.waifbd
          /\ MaskedOK(x) => MaskedOK(y)
          /\ ~Due(y, ipmflg')
      BY <3>1, ReturnsFromInterrupt
    <3> HIDE DEF y
    <3>3. x.waifbd => x.svclevel > 0
      BY <2>2 DEF ForbiddenOK, InPrivilegedMode
    <3>4. QED
      BY <3>2, <3>3 DEF Evolves
  <2>3. CASE x.resume = "routine"
    <3>1. y = served(d)
      BY <2>3 DEF Resumed, d
    <3>2. d.routines # << >> /\ (t \notin UserTask => ~d.enatex)
      BY <1>2, <2>3 DEF ResumeOK, Evolves
    <3>3. /\ RecordOK(t, y) /\ y.texptn = {}
          /\ y.svclevel = d.svclevel /\ y.waifbd = d.waifbd
          /\ MaskedOK(d) => MaskedOK(y)
      BY <1>3, <3>1, <3>2, Served
    <3> HIDE DEF y
    <3>4. x.waifbd => x.svclevel > 0
      BY <2>3 DEF ForbiddenOK, InPrivilegedMode
    <3>5. QED
      BY <1>2, <1>3, <3>3, <3>4 DEF Due
  <2>4. CASE x.resume \in {"call", "chg_ipm"}
    <3> DEFINE c == IF x.resume = "call" THEN d ELSE CheckInCall(t, d)
    <3>1. y = ret_service(t, c)
      BY <2>4 DEF Resumed, d
    <3>2. /\ RecordOK(t, c) /\ c.svclevel = x.svclevel /\ c.waifbd = x.waifbd
          /\ (readsZero => x.svclevel = 0) /\ MaskedOK(x) => MaskedOK(c)
          /\ t \notin UserTask /\ exact => ~Due(c, ipmflg')
      <4>1. CASE x.resume = "call"
        BY <1>2, <1>3, <4>1
      <4>2. CASE x.resume = "chg_ipm"
        <5>1. c = CheckInCall(t, d)
          BY <4>2
        <5>2. /\ Evolves(t, d, c) /\ c.waifbd = d.waifbd
              /\ MaskedOK(d) => MaskedOK(c)
              /\ t \notin UserTask => ~Due(c, ipmflg')
          BY <1>3, <5>1, CheckedInCall
        <5> HIDE DEF c
        <5>3. QED
          BY <1>2, <1>3, <5>2 DEF Evolves
      <4>3. QED
        BY <2>4, <4>1, <4>2
    <3> HIDE DEF c
    <3>3. /\ Evolves(t, c, y)
          /\ MaskedOK(c) => MaskedOK(y)
          /\ t \notin UserTask => y = c
          /\ t \in UserTask /\ y.waifbd => c.svclevel > 0
          /\ t \in UserTask /\ TexBits \subseteq {"low"} /\ ~locked' => ~Due(y, ipmflg')
      BY <3>1, <3>2, ReturnsFromService
    <3> HIDE DEF y
    <3>4. t \notin UserTask => (x.waifbd => x.svclevel > 0)
      BY DEF ForbiddenOK
    <3>5. QED
      BY <2>4, <3>2, <3>3, <3>4 DEF Evolves, LowBitsOnly
  <2>5. QED
    BY <1>1, <2>1, <2>2, <2>3, <2>4 DEF TexType
<1> HIDE DEF y
<1>5. /\ z \in TexType /\ z.resume = "none" /\ z.enatex = y.enatex /\ z.texptn = y.texptn
      /\ z.svclevel = y.svclevel /\ z.waifbd = y.waifbd /\ z.routines = y.routines
  BY <1>4 DEF RecordOK, TexType
<1> HIDE DEF z
<1>6. /\ RecordOK(t, z) /\ (MaskedOK(y) => MaskedOK(z))
      /\ Due(z, ipmflg') <=> Due(y, ipmflg')
  BY <1>4, <1>5 DEF RecordOK, NestedOK, MaskedOK, Due
<1>7. QED
  BY <1>4, <1>5, <1>6 DEF z, y, exact

\* The dispatcher resumes a task.
LEMMA ResumeKeeps == ASSUME TInv, Resume PROVE TInv'
<1> DEFINE t == k.rq.schedtsk
           x == tex[t]
           isZero == x.svclevel = 0
<1>1. /\ DispatchTask /\ pc = "dispatcher" /\ t # NoTask /\ runtsk' = t /\ pc' = "task"
      /\ locked' = FALSE /\ excpt_nest_count' = excpt_nest_count
  BY DEF Resume, DispatchTask
<1>2. TexInv /\ IInv /\ IInv'
  BY <1>1, KernelStepsKeep DEF TexKernelNext, TInv, TexInv
<1>3. t \in Task /\ excpt_nest_count = 0 /\ disdsp' \in BOOLEAN
  <2>1. DataInv({NoInfo}, [ComObj -> {NoInfo}], k, Task)
    BY <1>1, <1>2, InvData DEF IInv
  <2>2. t \in Task
    BY <1>1, <2>1, Schedtsk
  <2>3. QED
    BY <1>1, <1>2, <2>2 DEF IInv, KernelInv, ContextInv, DispatchInv, DispatchAllowed
<1>4. PICK readsZero \in BOOLEAN :
        /\ tex' = [tex EXCEPT ![t] = [Resumed(t, x, readsZero) EXCEPT !.resume = "none"]]
        /\ misread' = (misread \/ Resumed(t, x, readsZero) # Resumed(t, x, isZero))
  BY DEF Resume
<1>5. /\ RecordOK(t, x) /\ ResumeOK(t, x) /\ ForbiddenOK(t, x) /\ isZero \in BOOLEAN
      /\ ~misread => MaskedOK(x)
      /\ x.resume = "none" => ~x.enatex
  BY <1>1, <1>2, <1>3 DEF TexInv, Occupied
<1> DEFINE z  == [Resumed(t, x, readsZero) EXCEPT !.resume = "none"]
           z0 == [Resumed(t, x, isZero) EXCEPT !.resume = "none"]
<1>6. RecordOK(t, z) /\ z.resume = "none" /\ (z.waifbd => z.svclevel > 0)
  BY <1>1, <1>3, <1>5, ResumedRecord
<1>7. /\ MaskedOK(x) => MaskedOK(z0)
      /\ LowBitsOnly => ~Due(z0, ipmflg')
  BY <1>1, <1>3, <1>5, ResumedRecord
<1>8. ~misread' => z = z0 /\ ~misread
  BY <1>4
<1>9. tex' = [tex EXCEPT ![t] = z] /\ misread' \in BOOLEAN
  BY <1>2, <1>4 DEF TexInv
<1> HIDE DEF z, z0, t, x
<1>10. /\ tex'[t] = z
       /\ \A u \in Task : u # t => tex'[u] = tex[u]
       /\ tex' \in [Task -> TexType]
  BY <1>2, <1>3, <1>6, <1>9 DEF TexInv, RecordOK
<1>11. ASSUME NEW u \in Task
       PROVE  /\ RecordOK(u, tex'[u]) /\ ResumeOK(u, tex'[u]) /\ ForbiddenOK(u, tex'[u])
              /\ ~misread' => MaskedOK(tex'[u])
              /\ tex'[u].resume = "none" => ~tex'[u].enatex \/ (u = runtsk' /\ Occupied')
  <2>1. CASE u = t
    <3>1. ResumeOK(t, z) /\ ForbiddenOK(t, z)
      BY <1>6 DEF ResumeOK, ForbiddenOK, InPrivilegedMode
    <3>2. QED
      BY <1>1, <1>5, <1>6, <1>7, <1>8, <1>10, <2>1, <3>1 DEF Occupied
  <2>2. CASE u # t
    BY <1>1, <1>2, <1>8, <1>10, <2>2 DEF TexInv, Occupied
  <2>3. QED
    BY <2>1, <2>2
<1>12. TexInv'
  BY <1>1, <1>2, <1>6, <1>9, <1>10, <1>11 DEF TexInv
<1>13. LowBitsOnly => TakenInv'
  BY <1>1, <1>3, <1>7, <1>8, <1>10 DEF TakenInv, TakenAtOnce
<1>14. QED
  BY <1>12, <1>13 DEF TInv, LowBitsOnly

-----------------------------------------------------------------------------
(***************************************************************************)
(* 5.  The invariant holds, and what it says.                              *)
(***************************************************************************)
\* The start: no task has run, and none is asked to.
LEMMA InitEstablishesTInv == TexInit => TInv
<1> SUFFICES ASSUME TexInit PROVE TInv
  OBVIOUS
<1>1. Init /\ tex = [t \in Task |-> NoTex] /\ misread = FALSE
  BY DEF TexInit
<1>2. IInv /\ pc = "boot"
  BY <1>1, InitEstablishesIInv DEF Init, InitContext
<1>3. ASSUME NEW t \in Task
      PROVE  /\ NoTex \in TexType /\ RecordOK(t, NoTex) /\ ResumeOK(t, NoTex)
             /\ ForbiddenOK(t, NoTex) /\ MaskedOK(NoTex) /\ ~NoTex.enatex
  BY DEF NoTex, TexType, RecordOK, NestedOK, ResumeOK, ForbiddenOK, MaskedOK
<1>4. TexInv
  BY <1>1, <1>2, <1>3 DEF TexInv, Occupied
<1>5. TakenInv
  BY <1>2 DEF TakenInv, TakenAtOnce
<1>6. QED
  BY <1>4, <1>5 DEF TInv

\* Every action keeps the invariant.
LEMMA NextKeepsTInv == TInv /\ [TexNext]_texvars => TInv'
<1> SUFFICES ASSUME TInv, [TexNext]_texvars PROVE TInv'
  OBVIOUS
<1>1. CASE NoTexStep(BootNext \/ EnterIdle \/ LeaveIdle \/ irq_handler \/ ret_int_nested)
  BY <1>1, ProcessorStepKeeps
<1>2. ASSUME NEW t \in Task,
             NoTexStep(iact_tsk(t)) \/ NoTexStep(iwup_tsk(t)) \/ NoTexStep(ter_tsk(t))
      PROVE  TInv'
  BY <1>2, PlainStepKeeps
<1>3. CASE NoTexStep(lock_cpu) \/ NoTexStep(ext_tsk)
  BY <1>3, LockOrExitKeeps
<1>4. ASSUME NEW t \in Task, TexCall(wup_tsk(t)) PROVE TInv'
  BY <1>4, TexCallKeeps DEF TexCalls
<1>5. CASE \/ TexCall(dis_dsp) \/ TexCall(ena_dsp) \/ TexCall(chg_ipm_mask)
           \/ TexCall(slp_tsk(FALSE)) \/ TexCall(take_wakeup)
  BY <1>5, TexCallKeeps DEF TexCalls
<1>6. ASSUME NEW t \in Task, NEW ptn \in TexBits, ras_tex(t, ptn) \/ iras_tex(t, ptn)
      PROVE  TInv'
  BY <1>6, RaiseKeeps, RaiseInHandlerKeeps
<1>7. ASSUME NEW t \in Task, dis_wai_tex(t) \/ idis_wai_tex(t) PROVE TInv'
  BY <1>7, ForbidWaitKeeps
<1>8. CASE Resume \/ ret_int \/ EndOfTask \/ TexReturn
  BY <1>8, ResumeKeeps, RetIntKeeps, EndKeeps, TexReturnKeeps
<1>9. CASE chg_ipm \/ unl_cpu \/ dis_tex \/ ena_tex \/ ex_service_call \/ ret_extsvc
  BY <1>9, ChgIpmKeeps, UnlockKeeps, DisableKeeps, EnableKeeps, CallServiceKeeps,
     LeaveServiceKeeps
<1>10. CASE UNCHANGED texvars
  <2>1. tex' = tex /\ misread' = misread /\ UNCHANGED vars
    BY <1>10 DEF texvars
  <2>2. IInv'
    BY <2>1, KernelStepsKeep DEF TexKernelNext, TInv, TexInv
  <2>3. /\ runtsk' = runtsk /\ pc' = pc /\ frame' = frame /\ ipmflg' = ipmflg
        /\ reqflg' = reqflg /\ locked' = locked /\ excpt_nest_count' = excpt_nest_count
    BY <2>1 DEF vars
  <2>4. TakenInv => TakenInv'
    BY <2>1, <2>3 DEF TakenInv, TakenAtOnce
  <2>5. QED
    BY <2>1, <2>2, <2>3, <2>4, IdleStep DEF Occupied, TInv, TexInv
<1>11. QED
  BY <1>1, <1>2, <1>3, <1>4, <1>5, <1>6, <1>7, <1>8, <1>9, <1>10 DEF TexNext

\* The invariant of the specification.
LEMMA TInvHolds == TexSpec => []TInv
<1>1. TexInit => TInv
  BY InitEstablishesTInv
<1>2. TInv /\ [TexNext]_texvars => TInv'
  BY NextKeepsTInv
<1>3. QED
  BY <1>1, <1>2, PTL DEF TexSpec

\* A routine begins only outside extended service calls, until dispatch_r has
\* misread svclevel: in none of the five places that start one, and not when one
\* interrupts another, is the exception mask overlooked.
THEOREM TaskException_MaskedInServiceCalls == TexSpec => []MaskedInServiceCalls
<1>1. TInv => MaskedInServiceCalls
  <2>1. SUFFICES ASSUME TInv, ~misread, NEW t \in Task, NEW i \in DOMAIN tex[t].routines
                 PROVE  tex[t].routines[i].svclevel = 0
    BY DEF MaskedInServiceCalls
  <2>2. MaskedOK(tex[t]) /\ tex[t].routines \in Seq(RoutineType)
    BY <2>1 DEF TInv, TexInv, TexType
  <2>3. i \in 1 .. Len(tex[t].routines)
    BY <2>1, <2>2
  <2>4. QED
    BY <2>2, <2>3 DEF MaskedOK
<1>2. QED
  BY <1>1, TInvHolds, PTL

\* Waiting is forbidden only to a task inside a service call: however that call
\* ends, waits, or is interrupted, waifbd does not outlive it.
THEOREM TaskException_WaitingForbiddenInCallsOnly == TexSpec => []WaitingForbiddenInCallsOnly
<1>1. TInv => WaitingForbiddenInCallsOnly
  BY DEF TInv, TexInv, ForbiddenOK, WaitingForbiddenInCallsOnly
<1>2. QED
  BY <1>1, TInvHolds, PTL

\* A system task's routine is interrupted by its next run only after ena_tex, for
\* any depth of routines and whatever the dispatcher misreads.
THEOREM TaskException_NestedOnlyIfEnabled == TexSpec => []NestedOnlyIfEnabled
<1>1. TInv => NestedOnlyIfEnabled
  BY DEF TInv, TexInv, RecordOK, NestedOK, NestedOnlyIfEnabled
<1>2. QED
  BY <1>1, TInvHolds, PTL

\* No exception and no dispatch is forgotten, with dispatch_r taken for right, when
\* the causes of user tasks are in the byte that ret_service loads: for the others
\* the run tex_high_bits shows one forgotten.
THEOREM TaskException_NothingForgotten ==
  ASSUME LowBitsOnly PROVE TexSpec => []NothingForgotten
<1>1. TInv => NothingForgotten
  BY DEF TInv, TexInv, IInv, KernelInv, ContextInv, TakenInv, NothingForgotten
<1>2. QED
  BY <1>1, TInvHolds, PTL
=============================================================================
