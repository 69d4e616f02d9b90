---------------------------- MODULE Communication ----------------------------
(***************************************************************************)
(* The kernel with event flags, data queues, priority data queues and      *)
(* fixed-sized memory pools.  Each of these has its wait queues and its    *)
(* control block; all are among the data that the CPU lock protects.       *)
(***************************************************************************)
EXTENDS MemPoolUse, EventFlag, DataQueue, PriDataQueue

\* A wait queue and a control block belong to one object.
ASSUME CommunicationAssumption ==
  /\ Flg \cap (Dtq \cup Range(rwait) \cup Pdq \cup Range(pdqrwait) \cup Mpf) = {}
  /\ Dtq \cap (Pdq \cup Range(pdqrwait) \cup Mpf) = {}
  /\ Range(rwait) \cap (Pdq \cup Range(pdqrwait) \cup Mpf) = {}
  /\ Mpf \cap (Pdq \cup Range(pdqrwait)) = {}

icb == [o \in ComObj |-> IF o \in Flg THEN iflgptn[o] ELSE
                         IF o \in Dtq THEN idtq[o] ELSE
                         IF o \in Pdq THEN ipdq[o] ELSE impf[o]]

ComInit == /\ k = InitKernel(isemcnt, icb) /\ InitContext
           /\ has = [t \in Task |-> {}]

\* The calls for memory pools that give no block to anybody.
PoolNext == \E p \in Mpf : \/ \E timed \in BOOLEAN : get_mpf(p, timed)
                           \/ ini_mpf(p)

ComNext ==
  \/ ClientNext
  \/ /\ Next \/ EventFlagNext \/ DataQueueNext \/ PriDataQueueNext \/ PoolNext
     /\ UNCHANGED has

ComSpec == ComInit /\ [][ComNext]_<< vars, has >>

-----------------------------------------------------------------------------
\* No call, release, timeout, end of a task or reinitialization leaves a task
\* waiting for what it could have: a condition that holds, a datum or a place
\* for one, a free block.
NobodyWaitsInVain ==
  NoSatisfiedWaiter /\ NoNeedlessWait /\ NoNeedlessPriWait /\ NoWaitForFreeBlock

\* What describes the buffers agrees with what they hold: counts and indices
\* of rings, the two lists of priority data, the lists of pools.
BuffersOK == RingOK /\ PriBlocksOK /\ PoolOK
=============================================================================
