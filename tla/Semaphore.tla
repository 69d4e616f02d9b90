------------------------------ MODULE Semaphore ------------------------------
(***************************************************************************)
(* Counting semaphores (kernel/semaphore.c).  A unit that is returned goes *)
(* to the first waiter, and to the count only when nobody waits.           *)
(***************************************************************************)
EXTENDS Dispatcher

CONSTANTS isemcnt,   \* initial count of each semaphore
          maxsem     \* maximal count of each semaphore

ASSUME SemaphoreAssumption ==
  /\ isemcnt \in [Sem -> Nat] /\ maxsem \in [Sem -> Nat]
  /\ \A s \in Sem : isemcnt[s] <= maxsem[s]

\* Mutant: one more than the maximum.
CanSignal_off_by_one(s) == k.wait_queue[s] # << >> \/ k.semcnt[s] <= maxsem[s]

\* sig_sem and isig_sem succeed when somebody waits or the count may grow.
CanSignal(s) == k.wait_queue[s] # << >> \/ k.semcnt[s] < maxsem[s]

\* Mutant: the unit is counted even when a waiter is woken for it.
signal_counts_always(k1, s) ==
  LET k2 == [k1 EXCEPT !.semcnt[s] = @ + 1]
  IN  IF k1.wait_queue[s] # << >>
      THEN wait_complete(queue_delete_next(k2, s), Head(k1.wait_queue[s])) ELSE k2

signal(k1, s) ==
  IF k1.wait_queue[s] # << >>
  THEN wait_complete(queue_delete_next(k1, s), Head(k1.wait_queue[s]))
  ELSE [k1 EXCEPT !.semcnt[s] = @ + 1]

sig_sem(s)  == TaskContext /\ CanSignal(s) /\ TaskCall(signal(k, s))

isig_sem(s) == IntContext /\ CanSignal(s) /\ IntCall(signal(k, s))

\* wai_sem, pol_sem and twai_sem when the count is not zero.  wai_sem and
\* twai_sem also need a context that may wait; pol_sem does not.
take_unit(s) ==
  /\ TaskContext
  /\ k.semcnt[s] >= 1
  /\ PlainCall([k EXCEPT !.semcnt[s] = @ - 1])

\* wai_sem and twai_sem when it is.
wai_sem(s, timed) ==
  /\ MayWait
  /\ k.semcnt[s] = 0
  /\ ~k.waifbd[runtsk]
  /\ WaitCall(wobj_make_wait(k, runtsk, s, timed))

ini_sem(s) ==
  /\ TaskContext
  /\ LoopCall(k, "init_wait_queue", [NoFrame EXCEPT !.obj = s])

ini_sem_end ==
  /\ pc = "init_wait_queue" /\ frame.obj \in Sem
  /\ k.wait_queue[frame.obj] = << >>
  /\ LoopEnd([k EXCEPT !.semcnt[frame.obj] = isemcnt[frame.obj]])

SemaphoreNext ==
  \/ \E s \in Sem : \/ sig_sem(s) \/ isig_sem(s)
                    \/ take_unit(s)
                    \/ \E timed \in BOOLEAN : wai_sem(s, timed)
                    \/ ini_sem(s)
  \/ init_wait_queue
  \/ ini_sem_end
=============================================================================
