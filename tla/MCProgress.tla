----------------------------- MODULE MCProgress -----------------------------
(***************************************************************************)
(* Two tasks, a semaphore and a mutex: waits with and without timeouts,    *)
(* ends of tasks, reinitialization and nested interrupts, under fairness.  *)
(* The CPU lock is left out: a task may keep it for ever.                  *)
(***************************************************************************)
EXTENDS Kernel
CONSTANTS t1, t2, s1, m1
MCipriority == [t \in Task |-> IF t = t1 THEN 1 ELSE 0]
MCceilpri == [m \in CeilMtx |-> 0]
MCisemcnt == [s \in Sem |-> 0]
MCmaxsem == [s \in Sem |-> 1]

MCNext == \/ ProcessorNext
          \/ dis_dsp \/ ena_dsp
          \/ TimeoutNext
          \/ ext_tsk \/ mutex_release_all \/ end_of_task
          \/ \E t \in Task : act_tsk(t) \/ ter_tsk(t) \/ iact_tsk(t)
          \/ \E s \in Sem : \/ sig_sem(s) \/ take_unit(s) \/ wai_sem(s, TRUE)
                           \/ ini_sem(s)
          \/ \E m \in Mtx : \/ lock_free_mtx(m) \/ wait_mtx(m, TRUE) \/ unl_mtx(m)
                           \/ ini_mtx(m)
          \/ init_wait_queue \/ ini_sem_end \/ ini_mtx_end
MCSpec == Init /\ [][MCNext]_vars /\ Fairness
=============================================================================
