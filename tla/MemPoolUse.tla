------------------------------ MODULE MemPoolUse ------------------------------
(***************************************************************************)
(* Tasks that use memory pools as they should: a task gives back only      *)
(* blocks that it was given.  has is what the pointers that get_mpf,       *)
(* pget_mpf and tget_mpf store in *p_blk tell the tasks.                   *)
(***************************************************************************)
EXTENDS Kernel, MemPool

VARIABLE has   \* the blocks that each task was given and has not given back

UseInit == /\ k = InitKernel(isemcnt, impf) /\ InitContext
           /\ has = [t \in Task |-> {}]

Get(p) ==
  pget_mpf(p) /\ has' = [has EXCEPT ![runtsk] = @ \cup {<< p, new_block(k.cb[p]) >>}]

\* A block that is given back goes to the first waiter, if there is one.
Release(p, blk) ==
  /\ rel_mpf(p, blk)
  /\ << p, blk >> \in has[runtsk]
  /\ has' = [t \in Task |->
               IF Granted(t, p) THEN has[t] \cup {<< p, k'.winfo[t] >>}
               ELSE IF t = runtsk THEN has[t] \ {<< p, blk >>} ELSE has[t]]

\* All blocks become free, whoever had them.
Reinitialize ==
  ini_mpf_end /\ has' = [t \in Task |-> {h \in has[t] : h[1] # frame.obj}]

ClientNext == \/ \E p \in Mpf : Get(p) \/ \E blk \in Blk(p) : Release(p, blk)
              \/ Reinitialize

\* No block is in the hands of two tasks, none of those is free, and every
\* block that a task has can be given back.
OneHolder ==
  /\ \A t, u \in Task : t # u => has[t] \cap has[u] = {}
  /\ \A t \in Task : \A h \in has[t] : IsAllocated(h[1], h[2])
=============================================================================
