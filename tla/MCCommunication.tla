--------------------------- MODULE MCCommunication ---------------------------
(***************************************************************************)
(* Three tasks that communicate through the objects of one kind, chosen at *)
(* the start; dispatching is always on and every wait has a timeout.       *)
(*   flag   three event flags: with TA_CLR and TA_WMUL, with TA_WMUL, with *)
(*          neither; two bits                                              *)
(*   dtq    a data queue of two places that queues senders by priority,    *)
(*          and one without any place; sends of two data; changes of the   *)
(*          priority of a sender                                           *)
(*   pdq    a priority data queue of two places, two data priorities       *)
(*   pool   a pool of three blocks; tasks end with blocks in their hands   *)
(***************************************************************************)
EXTENDS Communication
CONSTANTS t1, t2, t3, f1, f2, f3, b1, b2, d1, d2, r1, r2, p1, r3, x1, x2, mp1
VARIABLE part

MCipriority == [t \in Task |-> IF t = t1 THEN 0 ELSE 1]
NoMutex == [m \in {} |-> 0]
NoSemaphore == [s \in {} |-> 0]
MCiflgptn == [f \in Flg |-> {}]
MCrwait == [d \in Dtq |-> IF d = d1 THEN r1 ELSE r2]
MCdtqcnt == [d \in Dtq |-> IF d = d1 THEN 2 ELSE 0]
MCpdqrwait == [p \in Pdq |-> r3]
MCpdqcnt == [p \in Pdq |-> 2]
MCmaxdpri == [p \in Pdq |-> 2]
MCblkcnt == [p \in Mpf |-> 3]
Symmetric == Permutations({t2, t3}) \cup Permutations({x1, x2})

MCSet(f) == IF f = f3 THEN {{b1}} ELSE {{b1}, {b2}}

MCWait(f) == {[waiptn |-> {b1}, wfmode |-> "ORW"]} \cup
             IF f = f3 THEN {} ELSE [waiptn : {{b1, b2}}, wfmode : {"ORW", "ANDW"}]

ReleaseByTask == \E t \in Task : rel_wai(t)
EndAndRestart == \/ mutex_release_all \/ end_of_task
                 \/ \E t \in Task : act_tsk(t) \/ ter_tsk(t)

FlagPart ==
  \/ \E f \in Flg : \/ \E p \in MCSet(f) : set_flg(f, p) \/ iset_flg(f, p)
                    \/ clr_flg(f, {b1})
                    \/ \E w \in MCWait(f) : take_pattern(f, w) \/ wai_flg(f, w, TRUE)
                    \/ ini_flg(f)
  \/ ini_flg_end
  \/ ReleaseByTask

DtqPart ==
  \/ \E d \in Dtq :
       \/ \E x \in Data : \/ psnd_dtq(d, x) \/ ipsnd_dtq(d, x)
                          \/ fsnd_dtq(d, x) \/ ifsnd_dtq(d, x)
                          \/ snd_dtq(d, x, TRUE)
                          \/ \E y \in Data : \/ psnd_dtq_ndata(d, << x, y >>)
                                             \/ ipsnd_dtq_ndata(d, << x, y >>)
       \/ prcv_dtq(d) \/ rcv_dtq(d, TRUE) \/ ini_dtq(d)
  \/ ini_dtq_rwait \/ ini_dtq_end
  \/ ReleaseByTask
  \/ \E pri \in Pri : chg_pri(t1, pri)

PdqPart ==
  \/ \E p \in Pdq :
       \/ \E x \in PriData(p) : psnd_pdq(p, x) \/ ipsnd_pdq(p, x) \/ snd_pdq(p, x, TRUE)
       \/ prcv_pdq(p) \/ rcv_pdq(p, TRUE) \/ ini_pdq(p)
  \/ ini_pdq_rwait \/ ini_pdq_end
  \/ ReleaseByTask

PoolPart ==
  \/ \E p \in Mpf : get_mpf(p, TRUE) \/ ini_mpf(p)
  \/ EndAndRestart

MCInit == /\ ComInit
          /\ part \in {"flag", "dtq", "pdq", "pool"}

MCNext == /\ part' = part
          /\ \/ part = "pool" /\ ClientNext
             \/ /\ \/ ProcessorNext \/ init_wait_queue \/ TimeoutNext
                   \/ part = "flag" /\ FlagPart
                   \/ part = "dtq" /\ DtqPart
                   \/ part = "pdq" /\ PdqPart
                   \/ part = "pool" /\ PoolPart
                /\ UNCHANGED has

MCSpec == MCInit /\ [][MCNext]_<< vars, has, part >>

=============================================================================
