--------------------------- MODULE TaskException ---------------------------
(***************************************************************************)
(* Task exceptions (kernel/task_except.c, call_texrtn_stask in task.c) and *)
(* all the places of core_support.S that start the exception routine: the  *)
(* resumption of a service call (dispatch_r), the exit of an interrupt     *)
(* (ret_int_4), the exit of a service call of a user task (ret_service),   *)
(* of an extended service call (ret_extsvc), and the routine's own return  *)
(* (ret_tex), on top of the dispatcher and the calls that can reach them.  *)
(***************************************************************************)
EXTENDS Kernel

CONSTANTS UserTask,   \* the tasks of user domains; the others are system tasks
          TexBits,    \* parts of an exception pattern: "low" is its low byte
          MaxSvc,     \* bound of svclevel, which the code limits to 255
          MaxTex      \* bound of exception routines interrupted by themselves

ASSUME TexAssumption == /\ UserTask \subseteq Task
                        /\ TexBits \subseteq {"low", "high"}
                        /\ MaxSvc \in Nat /\ MaxTex \in Nat \ {0}

VARIABLES
  tex,      \* of each task: enatex, texptn, svclevel, waifbd (here and not in k,
            \* since the exits of calls clear it), the exception routines that
            \* have begun, and the place where the dispatcher resumes it
  misread   \* dispatch_r has decided otherwise than TCB.svclevel says

NoTex == [enatex |-> FALSE, texptn |-> {}, svclevel |-> 0, waifbd |-> FALSE,
          routines |-> << >>, resume |-> "none"]

\* rundom = TACP_KERNEL while t runs.
InKernelDomain(t, x) == t \notin UserTask \/ x.svclevel > 0

\* Conditions on which the routine of the running task is due.
Due(x, ipm) == x.enatex /\ x.texptn # {} /\ ipm /\ x.svclevel = 0

\* enabled is a history: this run of the routine has called ena_tex.
Routine(x, mode, saved_disdsp) ==
  [mode |-> mode, disdsp |-> saved_disdsp, svclevel |-> x.svclevel, enabled |-> FALSE]

\* call_texrtn_stask and prepare_texrtn_utask up to the start of the routine.
start_routine(x, mode, saved_disdsp) ==
  [x EXCEPT !.enatex = FALSE, !.texptn = {},
            !.routines = Append(@, Routine(x, mode, saved_disdsp))]

-----------------------------------------------------------------------------
(***************************************************************************)
(* The checks, in the state (of flags and lock) that the call leaves.      *)
(***************************************************************************)
\* Mutant: the level of extended service calls is not looked at.
CheckInCall_any_level(t, x) ==
  IF t \notin UserTask /\ x.enatex /\ x.texptn # {} /\ ipmflg'
  THEN start_routine(x, "stask", disdsp') ELSE x

\* In ras_tex, ena_tex, chg_ipm and unl_cpu: for system tasks.
CheckInCall(t, x) ==
  IF t \notin UserTask /\ Due(x, ipmflg')
  THEN start_routine(x, "stask", disdsp') ELSE x

\* Mutant: waiting stays forbidden.
ret_service_keeps_waifbd(t, x) ==
  IF t \in UserTask /\ Due(x, ipmflg') /\ "low" \in x.texptn /\ ~locked'
  THEN start_routine(x, "utask", disdsp') ELSE x

\* Of texptn one byte is loaded.
ret_service(t, x) ==
  LET x1 == IF x.svclevel = 0 THEN [x EXCEPT !.waifbd = FALSE] ELSE x
  IN  IF t \notin UserTask THEN x
      ELSE IF Due(x1, ipmflg') /\ "low" \in x1.texptn /\ ~locked'
           THEN start_routine(x1, "utask", disdsp') ELSE x1

\* Every call of the running task ends like this; resume is for one that does
\* not end yet because it has entered the dispatcher.
CallExit(t, x, resume) ==
  IF pc' = "task" THEN ret_service(t, x) ELSE [x EXCEPT !.resume = resume]

CallExitOf(x, resume) == tex' = [tex EXCEPT ![runtsk] = CallExit(runtsk, x, resume)]

ret_int_4(t, x) ==
  IF Due(x, ipmflg')
  THEN start_routine(x, IF t \in UserTask THEN "utask" ELSE "stask", disdsp') ELSE x

\* r1 holds &ipmflg where svclevel is read: the byte found at that offset, in the
\* build that is kept in base-workspace a byte of current_time, is 0 or is not.
dispatch_r(t, x, readsZero) ==
  IF x.enatex /\ x.texptn # {} /\ ipmflg' /\ InKernelDomain(t, x) /\ readsZero
  THEN start_routine(x, "stask", disdsp') ELSE x

-----------------------------------------------------------------------------
(***************************************************************************)
(* The routine's return: the flags are put back, a dispatch that they      *)
(* allow is made up for, and requests that came meanwhile are served.      *)
(***************************************************************************)
served(x) ==
  IF x.texptn # {}
  THEN [x EXCEPT !.texptn = {}, !.routines[Len(x.routines)].enabled = FALSE]
  ELSE [x EXCEPT !.enatex = TRUE, !.routines = Front(x.routines)]

\* Mutant: the exceptions stay enabled in call_texrtn_stask when it dispatches.
leave_routine_enabled(x) == x

\* call_texrtn_stask disables the exceptions again, ret_tex does not.
leave_routine(x) ==
  IF Last(x.routines).mode = "stask" THEN [x EXCEPT !.enatex = FALSE] ELSE x

\* Mutant: the dispatch is not made up for.
TexReturn_no_dispatch ==
  /\ pc = "task" /\ excpt_nest_count = 0
  /\ LET x == tex[runtsk]
     IN  /\ x.routines # << >> /\ x.svclevel = Last(x.routines).svclevel
         /\ ipmflg' = TRUE /\ disdsp' = Last(x.routines).disdsp
         /\ dspflg' = ~Last(x.routines).disdsp
         /\ tex' = [tex EXCEPT ![runtsk] = served(leave_routine(x))]
  /\ locked' = FALSE
  /\ UNCHANGED << k, runtsk, pc, frame, reqflg, excpt_nest_count, misread >>

TexReturn ==
  /\ pc = "task" /\ excpt_nest_count = 0
  /\ LET x   == tex[runtsk]
         top == Last(x.routines)
     IN  /\ x.routines # << >> /\ x.svclevel = top.svclevel
         /\ ipmflg' = TRUE /\ disdsp' = top.disdsp /\ dspflg' = ~top.disdsp
         /\ IF dspflg' /\ runtsk # k.rq.schedtsk
            THEN /\ pc' = "dispatcher"
                 /\ tex' = [tex EXCEPT ![runtsk] =
                              [leave_routine(x) EXCEPT !.resume = "routine"]]
            ELSE /\ pc' = "task"
                 /\ tex' = [tex EXCEPT ![runtsk] = served(leave_routine(x))]
  /\ locked' = FALSE
  /\ UNCHANGED << k, runtsk, frame, reqflg, excpt_nest_count, misread >>

-----------------------------------------------------------------------------
(***************************************************************************)
(* Service calls of task_except.c.                                         *)
(***************************************************************************)
SameContext == UNCHANGED << k, runtsk, pc, frame, flags, excpt_nest_count, locked >>

ras_tex(t, ptn) ==
  /\ TaskContext /\ ~IsDormant(k, t)
  /\ SameContext /\ UNCHANGED << reqflg, misread >>
  /\ LET x == [tex[t] EXCEPT !.texptn = @ \cup {ptn}]
     IN  IF t = runtsk THEN CallExitOf(CheckInCall(t, x), "call")
                       ELSE tex' = [tex EXCEPT ![t] = x]

\* The start is left to the exit of the interrupt.
iras_tex(t, ptn) ==
  /\ IntContext /\ ~IsDormant(k, t)
  /\ tex' = [tex EXCEPT ![t].texptn = @ \cup {ptn}]
  /\ reqflg' = (reqflg \/ (t = runtsk /\ tex[t].enatex /\ ipmflg))
  /\ SameContext /\ UNCHANGED misread

dis_tex ==
  /\ TaskContext
  /\ tex' = [tex EXCEPT ![runtsk].enatex = FALSE]
  /\ SameContext /\ UNCHANGED << reqflg, misread >>

\* In a routine, it allows the next one to interrupt it: MaxTex bounds that.
ena_tex ==
  /\ TaskContext
  /\ Len(tex[runtsk].routines) < MaxTex
  /\ SameContext /\ UNCHANGED << reqflg, misread >>
  /\ LET x == tex[runtsk]
         n == Len(x.routines)
     IN  CallExitOf(CheckInCall(runtsk,
           [x EXCEPT !.enatex = TRUE,
                     !.routines = IF n = 0 THEN @ ELSE [@ EXCEPT ![n].enabled = TRUE]]),
           "call")

-----------------------------------------------------------------------------
(***************************************************************************)
(* Extended service calls: cal_svc of the running task and its return.     *)
(***************************************************************************)
ex_service_call ==
  /\ pc = "task" /\ excpt_nest_count = 0
  /\ tex[runtsk].svclevel < MaxSvc
  /\ tex' = [tex EXCEPT ![runtsk].svclevel = @ + 1]
  /\ SameContext /\ UNCHANGED << reqflg, misread >>

\* Waiting is allowed again, and the exceptions that were held back are taken,
\* unless the extended service call returns with the CPU locked.
ret_extsvc ==
  /\ pc = "task" /\ excpt_nest_count = 0
  /\ LET x  == tex[runtsk]
         x1 == [x EXCEPT !.svclevel = @ - 1, !.waifbd = @ /\ x.svclevel > 1]
     IN  /\ x.svclevel > (IF x.routines = << >> THEN 0 ELSE Last(x.routines).svclevel)
         /\ tex' = [tex EXCEPT ![runtsk] =
                      IF Due(x1, ipmflg) /\ ~locked
                      THEN start_routine(x1, IF runtsk \in UserTask THEN "utask" ELSE "stask",
                                         disdsp)
                      ELSE x1]
  /\ SameContext /\ UNCHANGED << reqflg, misread >>

-----------------------------------------------------------------------------
(***************************************************************************)
(* Waiting can be forbidden only to a task whose exceptions are masked.    *)
(* TCB.priv says so of a user task: set by a service call, not by ret_tex. *)
(***************************************************************************)
InPrivilegedMode(x) == x.svclevel > 0 \/ x.resume \in {"call", "chg_ipm"}

t_sense_texmask(t) ==
  IF t \in UserTask THEN t = runtsk \/ InPrivilegedMode(tex[t]) ELSE tex[t].svclevel > 0

i_sense_texmask(t) ==
  IF t \in UserTask THEN InPrivilegedMode(tex[t]) ELSE tex[t].svclevel > 0

dis_wai_tex(t) ==
  /\ TaskContext /\ ~IsDormant(k, t) /\ ~tex[t].waifbd /\ t_sense_texmask(t)
  /\ SameContext /\ UNCHANGED << reqflg, misread >>
  /\ LET x == [tex[t] EXCEPT !.waifbd = TRUE]
     IN  IF t = runtsk THEN CallExitOf(x, "call") ELSE tex' = [tex EXCEPT ![t] = x]

idis_wai_tex(t) ==
  /\ IntContext /\ ~IsDormant(k, t) /\ ~tex[t].waifbd /\ i_sense_texmask(t)
  /\ tex' = [tex EXCEPT ![t].waifbd = TRUE]
  /\ SameContext /\ UNCHANGED << reqflg, misread >>

-----------------------------------------------------------------------------
(***************************************************************************)
(* The steps of the kernel, with what they do to exceptions.               *)
(***************************************************************************)
\* A call of the running task, in its context.
TexCall(A) == A /\ CallExitOf(tex[runtsk], "call") /\ UNCHANGED misread

\* A step that has nothing to do with exceptions.
NoTexStep(A) == A /\ UNCHANGED << tex, misread >>

\* After its dispatch, chg_ipm makes the check itself.
chg_ipm ==
  /\ chg_ipm_enaall
  /\ CallExitOf(IF pc' = "task" THEN CheckInCall(runtsk, tex[runtsk]) ELSE tex[runtsk],
                "chg_ipm")
  /\ UNCHANGED misread

\* Mutant: unl_cpu does not look for exceptions, as in the ASP kernel.
unl_cpu_as_in_ASP == unlock_cpu /\ UNCHANGED << tex, misread >>

unl_cpu ==
  /\ unlock_cpu
  /\ IF pc = "task" /\ excpt_nest_count = 0
     THEN CallExitOf(CheckInCall(runtsk, tex[runtsk]), "call")
     ELSE UNCHANGED tex
  /\ UNCHANGED misread

\* make_dormant clears svclevel, enatex and texptn; its routines are gone.
EndOfTask ==
  /\ end_of_task
  /\ tex' = [t \in Task |-> IF t = frame.tsk THEN NoTex
                            ELSE IF t = runtsk THEN CallExit(t, tex[t], "call")
                            ELSE tex[t]]
  /\ UNCHANGED misread

ret_int ==
  /\ ret_int_task
  /\ tex' = [tex EXCEPT ![runtsk] =
               IF pc' = "dispatcher" THEN [@ EXCEPT !.resume = "interrupt"]
               ELSE IF reqflg THEN ret_int_4(runtsk, @)
               ELSE @]
  /\ UNCHANGED misread

\* What the task that is resumed does before the CPU is unlocked.
Resumed(t, x, readsZero) ==
  CASE x.resume = "none"      -> x
    [] x.resume = "interrupt" -> ret_int_4(t, x)
    [] x.resume = "routine"   -> served(dispatch_r(t, x, readsZero))
    [] x.resume = "call"      -> ret_service(t, dispatch_r(t, x, readsZero))
    [] x.resume = "chg_ipm"   -> ret_service(t, CheckInCall(t, dispatch_r(t, x, readsZero)))

Resume ==
  /\ DispatchTask
  /\ \E readsZero \in BOOLEAN :
       LET t == k.rq.schedtsk
           x == tex[t]
           isZero == x.svclevel = 0
       IN  /\ tex' = [tex EXCEPT ![t] = [Resumed(t, x, readsZero) EXCEPT !.resume = "none"]]
           /\ misread' = (misread \/ Resumed(t, x, readsZero) # Resumed(t, x, isZero))

TexInit == Init /\ tex = [t \in Task |-> NoTex] /\ misread = FALSE

TexNext ==
  \/ NoTexStep(BootNext \/ EnterIdle \/ LeaveIdle \/ irq_handler \/ ret_int_nested)
  \/ Resume \/ ret_int \/ EndOfTask
  \/ TexCall(dis_dsp) \/ TexCall(ena_dsp) \/ TexCall(chg_ipm_mask)
  \/ chg_ipm \/ unl_cpu \/ NoTexStep(lock_cpu) \/ NoTexStep(ext_tsk)
  \/ MayWait /\ ~tex[runtsk].waifbd /\ TexCall(slp_tsk(FALSE))
  \/ TexCall(take_wakeup)
  \/ \E t \in Task : \/ TexCall(wup_tsk(t))
                     \/ NoTexStep(iact_tsk(t)) \/ NoTexStep(iwup_tsk(t))
                     \/ NoTexStep(ter_tsk(t))
                     \/ \E ptn \in TexBits : ras_tex(t, ptn) \/ iras_tex(t, ptn)
                     \/ dis_wai_tex(t) \/ idis_wai_tex(t)
  \/ dis_tex \/ ena_tex \/ TexReturn
  \/ ex_service_call \/ ret_extsvc

texvars == << vars, tex, misread >>
TexSpec == TexInit /\ [][TexNext]_texvars

-----------------------------------------------------------------------------
\* The running task goes on without its exception routine although the routine is
\* due: never outside handlers, and in a handler only with reqflg set.
TakenAtOnce ==
  /\ runtsk \in Task /\ pc = "task" /\ excpt_nest_count = 0 /\ ~locked
       => ~Due(tex[runtsk], ipmflg)
  /\ runtsk \in Task /\ pc = "task" /\ excpt_nest_count > 0 /\ Due(tex[runtsk], ipmflg)
       => reqflg

\* The same, unless dispatch_r has misread svclevel before: all other places
\* that start exception routines forget none, and the routine's return, which
\* puts the flags back, forgets no dispatch.
NothingForgotten == DispatchInv /\ (~misread => TakenAtOnce)

\* A routine is never begun inside an extended service call (the exception mask),
\* unless dispatch_r has misread svclevel.
MaskedInServiceCalls ==
  ~misread => \A t \in Task : \A i \in DOMAIN tex[t].routines :
                 tex[t].routines[i].svclevel = 0

\* Waiting stays forbidden to no task that has returned to its own code.
WaitingForbiddenInCallsOnly ==
  \A t \in Task : tex[t].waifbd =>
     IF t \in UserTask THEN InPrivilegedMode(tex[t]) ELSE tex[t].svclevel > 0

\* The exception routine of a system task is interrupted by its own next run
\* only after it has called ena_tex in this run.  A user task's is not as safe:
\* ret_tex starts the next run with the exceptions enabled if this one had
\* enabled them.
NestedOnlyIfEnabled ==
  \A t \in Task \ UserTask :
     \A i \in 1 .. Len(tex[t].routines) - 1 : tex[t].routines[i].enabled
=============================================================================
