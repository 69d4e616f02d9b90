------------------------------ MODULE MCKernel ------------------------------
(***************************************************************************)
(* Three instances of the kernel in one run, chosen at the start:          *)
(*   all       two tasks, a semaphore, a ceiling mutex, two interrupt      *)
(*             levels: everything together, but for the forbidding of waits*)
(*   dispatch  three tasks, three interrupt levels: every way to disable   *)
(*             and enable dispatching, with activation, end, change of     *)
(*             priority, rotation, sleep and wakeup                        *)
(*   waits     two tasks and no objects: sleep and wakeup, delays,         *)
(*             timeouts, forced release, suspension and forbidden waiting  *)
(***************************************************************************)
EXTENDS Kernel
CONSTANTS t1, t2, t3, s1, m1
VARIABLE part

MCipriority == [t \in Task |-> IF t = t1 THEN 1 ELSE 0]
MCceilpri == [m \in CeilMtx |-> 0]
MCisemcnt == [s \in Sem |-> 0]
MCmaxsem == [s \in Sem |-> 1]

\* The instances of two tasks leave t3 dormant.
TwoTasks == IsDormant(k', t3) /\ excpt_nest_count' <= 2

AllNext == \/ FlagNext \/ RotateNext
           \/ TaskManageNext
           \/ SleepNext \/ ReleaseNext \/ SuspendNext
           \/ TimeoutNext
           \/ SemaphoreNext
           \/ MutexNext

DispatchingNext == \/ FlagNext
                   \/ RotateNext
                   \/ TaskManageNext
                   \/ \E t \in Task : slp_tsk(FALSE) \/ wup_tsk(t) \/ iwup_tsk(t)

WaitsNext == \/ TaskManageNext
             \/ SleepNext \/ ReleaseNext \/ SuspendNext \/ ForbidNext
             \/ TimeoutNext

MCInit == Init /\ part \in {"all", "dispatch", "waits"}

MCNext == /\ part' = part
          /\ \/ ProcessorNext
             \/ part = "all" /\ AllNext
             \/ part = "dispatch" /\ DispatchingNext
             \/ part = "waits" /\ WaitsNext
          /\ part # "dispatch" => TwoTasks

MCSpec == MCInit /\ [][MCNext]_<< vars, part >>
=============================================================================
