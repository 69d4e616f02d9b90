------------------------------- MODULE MCSync -------------------------------
(***************************************************************************)
(* Three instances of waiting for semaphores and mutexes, chosen at the    *)
(* start.  Dispatching is always on and no task sleeps but in "ceiling".   *)
(*   sem      three tasks, a semaphore that queues by arrival and one that *)
(*            queues by priority: timeouts, releases, ends, ini_sem        *)
(*   mutex    three tasks, a mutex with a ceiling and one without: task    *)
(*            management, locking with timeouts, releases, ini_mtx         *)
(*   ceiling  two tasks, three priorities, two mutexes with different      *)
(*            ceilings: every order of locking and unlocking, with changes *)
(*            of the base priority of running, waiting and owning tasks    *)
(***************************************************************************)
EXTENDS Kernel
CONSTANTS t1, t2, t3, s1, s2, m1, m2, m3
VARIABLE part

MCipriority == [t \in Task |-> IF t = t1 THEN 0 ELSE 1]
MCceilpri == [m \in CeilMtx |-> IF m = m1 THEN 0 ELSE 1]
MCisemcnt == [s \in Sem |-> IF s = s1 THEN 1 ELSE 0]
MCmaxsem == [s \in Sem |-> 1]

SemNext == \/ \E s \in Sem : \/ sig_sem(s) \/ isig_sem(s) \/ take_unit(s)
                             \/ wai_sem(s, TRUE) \/ ini_sem(s)
           \/ init_wait_queue \/ ini_sem_end
           \/ TimeoutNext
           \/ mutex_release_all \/ end_of_task
           \/ \E t \in Task : \/ act_tsk(t) \/ ter_tsk(t) \/ irel_wai(t)
                              \/ \E pri \in {0, 1} : chg_pri(t, pri)

Locking(m, timed) == \/ lock_free_mtx(m) \/ wait_mtx(m, timed)
                     \/ unl_mtx(m) \/ ini_mtx(m)

LockingNext == \/ init_wait_queue \/ ini_mtx_end
               \/ mutex_release_all \/ end_of_task

MtxNext == \/ Locking(m1, TRUE) \/ Locking(m2, TRUE) \/ LockingNext
           \/ \E t \in Task : \/ act_tsk(t) \/ ter_tsk(t) \/ irel_wai(t)
                              \/ \E pri \in {0, 1} : chg_pri(t, pri)
           \/ ext_tsk
           \/ TimeoutNext

CeilNext == \/ Locking(m1, FALSE) \/ Locking(m3, FALSE) \/ LockingNext
            \/ \E t \in {t2, t3} : \/ act_tsk(t) \/ iact_tsk(t) \/ ter_tsk(t)
                                   \/ wup_tsk(t) \/ irel_wai(t)
                                   \/ \E pri \in Pri : chg_pri(t, pri)
            \/ ext_tsk \/ slp_tsk(FALSE)
            \/ RotateNext

MCInit == Init /\ part \in {"sem", "mutex", "ceiling"}

MCNext == /\ part' = part
          /\ \/ ProcessorNext
             \/ part = "sem" /\ SemNext
             \/ part = "mutex" /\ MtxNext
             \/ part = "ceiling" /\ CeilNext

MCSpec == MCInit /\ [][MCNext]_<< vars, part >>

=============================================================================
