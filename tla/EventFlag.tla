------------------------------ MODULE EventFlag ------------------------------
(***************************************************************************)
(* Event flags (kernel/eventflag.c).  k.cb[f] is the bit pattern flgptn.   *)
(* winfo holds what a task waits for, then the pattern that released it.   *)
(***************************************************************************)
EXTENDS Dispatcher

CONSTANTS Flg,       \* the event flags
          Bit,       \* the bits of a pattern that are used
          iflgptn,   \* initial pattern of each flag
          ClrFlg,    \* the flags with the attribute TA_CLR
          WMulFlg    \* the flags with the attribute TA_WMUL

Ptn == SUBSET Bit

ASSUME EventFlagAssumption ==
  /\ Flg \subseteq ComObj
  /\ iflgptn \in [Flg -> Ptn]
  /\ ClrFlg \subseteq Flg /\ WMulFlg \subseteq Flg

WaitPtn == [waiptn : Ptn \ {{}}, wfmode : {"ORW", "ANDW"}]

\* The condition of check_flg_cond.
Satisfies(flgptn, w) ==
  IF w.wfmode = "ORW" THEN flgptn \cap w.waiptn # {} ELSE w.waiptn \subseteq flgptn

\* Mutant: only the bits that were waited for are cleared.
clear_by_attribute_partial(k1, f, w) ==
  IF f \in ClrFlg THEN [k1 EXCEPT !.cb[f] = @ \ w.waiptn] ELSE k1

\* The effect of check_flg_cond when the condition w holds.
clear_by_attribute(k1, f, w) == IF f \in ClrFlg THEN [k1 EXCEPT !.cb[f] = {}] ELSE k1

\* One turn of the loop of set_flg: t is released when its condition holds.
release_if_satisfied(k1, t, f) ==
  LET w == k1.winfo[t]
  IN  IF Satisfies(k1.cb[f], w)
      THEN clear_by_attribute(
             wait_complete_with([k1 EXCEPT !.wait_queue[f] = queue_delete(@, t)],
                                t, [flgptn |-> k1.cb[f]]), f, w)
      ELSE k1

\* Mutant: the loop ends with the first waiter that is released.
scan_waiters_one(k1, f) ==
  LET turn(k2, t) == IF Len(k2.wait_queue[f]) < Len(k1.wait_queue[f])
                     THEN k2 ELSE release_if_satisfied(k2, t, f)
  IN  FoldLeft(turn, k1, k1.wait_queue[f])

\* Mutant: the queue is read from its end.
scan_waiters_backwards(k1, f) ==
  LET released(k2) == Len(k2.wait_queue[f]) < Len(k1.wait_queue[f])
      turn(k2, t)  == IF f \in ClrFlg /\ released(k2) THEN k2
                      ELSE release_if_satisfied(k2, t, f)
  IN  FoldLeft(turn, k1, Reverse(k1.wait_queue[f]))

\* The loop of set_flg; with TA_CLR it ends when a waiter has been released.
scan_waiters(k1, f) ==
  LET q            == k1.wait_queue[f]
      released(k2) == Len(k2.wait_queue[f]) < Len(q)
      turn(k2, t)  == IF f \in ClrFlg /\ released(k2) THEN k2
                      ELSE release_if_satisfied(k2, t, f)
      after[n \in 0 .. Len(q)] == IF n = 0 THEN k1 ELSE turn(after[n - 1], q[n])
  IN  after[Len(q)]

set_bits(f, setptn) == scan_waiters([k EXCEPT !.cb[f] = @ \cup setptn], f)

set_flg(f, setptn)  == TaskContext /\ TaskCall(set_bits(f, setptn))

iset_flg(f, setptn) == IntContext /\ IntCall(set_bits(f, setptn))

clr_flg(f, clrptn) ==
  TaskContext /\ PlainCall([k EXCEPT !.cb[f] = @ \cap clrptn])

\* E_ILUSE unless TA_WMUL when somebody waits already.
MayWaitFor(f) == f \in WMulFlg \/ k.wait_queue[f] = << >>

\* wai_flg, pol_flg and twai_flg when the condition holds.  wai_flg and
\* twai_flg also need a context that may wait; pol_flg does not.
take_pattern(f, w) ==
  /\ TaskContext
  /\ MayWaitFor(f)
  /\ Satisfies(k.cb[f], w)
  /\ PlainCall(clear_by_attribute(k, f, w))

\* wai_flg and twai_flg when it does not.
wai_flg(f, w, timed) ==
  /\ MayWait
  /\ MayWaitFor(f)
  /\ ~Satisfies(k.cb[f], w)
  /\ ~k.waifbd[runtsk]
  /\ WaitCall(wobj_make_wait_with(k, runtsk, f, timed, w))

ini_flg(f) ==
  /\ TaskContext
  /\ LoopCall(k, "init_wait_queue", [NoFrame EXCEPT !.obj = f])

ini_flg_end ==
  /\ pc = "init_wait_queue" /\ frame.obj \in Flg
  /\ k.wait_queue[frame.obj] = << >>
  /\ LoopEnd([k EXCEPT !.cb[frame.obj] = iflgptn[frame.obj]])

EventFlagNext ==
  \/ \E f \in Flg :
       \/ \E p \in Ptn : set_flg(f, p) \/ iset_flg(f, p) \/ clr_flg(f, p)
       \/ \E w \in WaitPtn : \/ take_pattern(f, w)
                             \/ \E timed \in BOOLEAN : wai_flg(f, w, timed)
       \/ ini_flg(f)
  \/ init_wait_queue
  \/ ini_flg_end

-----------------------------------------------------------------------------
\* No task waits for a condition that holds: set_flg has found all of those it
\* must release, and no take, timeout, release or ini_flg leaves one behind.
NoSatisfiedWaiter ==
  \A f \in Flg, t \in Live : k.wobj[t] = f => ~Satisfies(k.cb[f], k.winfo[t])

\* The pattern that a released task is told satisfies its condition, and an
\* event of a TA_CLR flag releases one task and is gone with it.
ReleasedByItsCondition ==
  [][\A f \in Flg, t \in Task : Granted(t, f) =>
       /\ Satisfies(k'.winfo[t].flgptn, k.winfo[t])
       /\ f \in ClrFlg => /\ k'.cb[f] = {}
                          /\ \A u \in Task : Granted(u, f) => u = t]_vars

\* With TA_CLR the event goes to the first task of the queue that waits for it.
FirstSatisfiedServed ==
  [][\A f \in ClrFlg, t \in Task : Granted(t, f) =>
       \A u \in Live : k.wobj[u] = f /\ Precedes(u, t, f)
                         => ~Satisfies(k'.winfo[t].flgptn, k.winfo[u])]_vars
=============================================================================
