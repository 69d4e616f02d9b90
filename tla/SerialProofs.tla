---------------------------- MODULE SerialProofs ----------------------------
(***************************************************************************)
(* The serial driver keeps the units of its semaphores and tells the other *)
(* side exactly when to stop, for any number of tasks and any sizes of the *)
(* buffers and of the UART's FIFO.                                         *)
(*                                                                         *)
(* UnitsOK counts units.  What is inductive says more: where each call is, *)
(* what it has left to do and which unit it has (CallOK), that only one    *)
(* task has a unit and that it is with the semaphore when neither a task   *)
(* nor the state of the buffer accounts for it (UnitWith), and that a      *)
(* START or STOP waits for the UART only while that has no place.          *)
(***************************************************************************)
EXTENDS Serial, FiniteSetTheorems, TLAPS

Settings == {"ECHO", "FCSND", "FCRCV", "FCANY"}

PortType == [openflag : BOOLEAN, errorflag : BOOLEAN, ioctl : SUBSET Settings,
             rcv_count : 0 .. rcv_bufsz, rcv_fc_chr : {"none", "START", "STOP"},
             rcv_stopped : BOOLEAN, snd_count : 0 .. snd_bufsz, snd_stopped : BOOLEAN]

CallType == [call : {"none", "wri", "rea"}, at : {"none", "wai", "slp", "chr", "sig"},
             sem : {"none", "snd", "rcv"}, left : Nat, echo : 0 .. 2, empty : BOOLEAN]

TypeInv == /\ p \in PortType
           /\ sem \in [{"snd", "rcv"} -> {0, 1}]
           /\ uart \in [snd_cbflg : BOOLEAN, tx_fifo_sem : Nat]
           /\ task \in [Task -> CallType]
           /\ line \in {"START", "STOP"}

\* Where a call stands.
CallOK(r) ==
  \/ r = NoCall
  \/ /\ r.call = "wri" /\ r.sem = "snd" /\ r.at # "none"
     /\ r.at # "sig" => r.left > 0
  \/ /\ r.call = "rea" /\ r.sem = "rcv" /\ r.at # "none"
     /\ IF r.at = "sig" THEN ~r.empty ELSE r.left > 0
  \/ /\ r.call = "rea" /\ r.sem = "snd" /\ r.at # "none"
     /\ r.at # "sig" => r.echo > 0

\* The record r has the unit of snd, of rcv.
HoldsSnd(r) == r.sem = "snd" /\ r.at \in {"chr", "sig"}
HoldsRcv(r) == r.call = "rea" /\ IF r.sem = "rcv" THEN r.at \in {"chr", "sig"} ELSE ~r.empty

\* One unit is with the semaphore (count is 1), or with one task, or gone.
UnitWith(count, holders, gone) ==
  /\ count = 1 => holders = {} /\ ~gone
  /\ gone => holders = {}
  /\ \A t, u \in holders : t = u
  /\ count = 1 \/ holders # {} \/ gone

CallsInv == \A t \in Task : CallOK(task[t])

ClosedInv == ~p.openflag => sem = ini_sems /\ \A t \in Task : task[t] = NoCall

UnitInv ==
  p.openflag => /\ UnitWith(sem["snd"], HasSnd, p.snd_count = snd_bufsz)
                /\ UnitWith(sem["rcv"], HasRcv, p.rcv_count = 0)

PendingInv == p.rcv_fc_chr # "none" => uart.tx_fifo_sem = 0

IInv == /\ TypeInv /\ CallsInv /\ ClosedInv /\ UnitInv
        /\ ~p.errorflag
        /\ FlowExact /\ PendingInv

-----------------------------------------------------------------------------
(***************************************************************************)
(* Calls and units.                                                        *)
(***************************************************************************)
SndHolders(f) == {t \in Task : HoldsSnd(f[t])}
RcvHolders(f) == {t \in Task : HoldsRcv(f[t])}

\* The holders of a unit are tasks.
LEMMA HoldersAreTasks ==
  /\ HasSnd = SndHolders(task) /\ HasRcv = RcvHolders(task)
  /\ HasSnd' = SndHolders(task') /\ HasRcv' = RcvHolders(task')
  BY DEF HasSnd, HasRcv, SndHolders, RcvHolders, HoldsSnd, HoldsRcv

\* The fields of the records.
LEMMA Types ==
  ASSUME TypeInv
  PROVE  /\ p.openflag \in BOOLEAN /\ p.errorflag \in BOOLEAN /\ p.ioctl \in SUBSET Settings
         /\ p.rcv_count \in 0 .. rcv_bufsz /\ p.rcv_fc_chr \in {"none", "START", "STOP"}
         /\ p.rcv_stopped \in BOOLEAN /\ p.snd_count \in 0 .. snd_bufsz
         /\ p.snd_stopped \in BOOLEAN
         /\ sem["snd"] \in {0, 1} /\ sem["rcv"] \in {0, 1}
         /\ uart.snd_cbflg \in BOOLEAN /\ uart.tx_fifo_sem \in Nat
         /\ snd_bufsz \in Nat \ {0} /\ rcv_bufsz \in Nat \ {0} /\ TxFifo \in Nat \ {0}
  BY SerialAssumption DEF TypeInv, PortType

\* One call goes on: what that means for the holders of the units.
LEMMA CallChanges ==
  ASSUME NEW f \in [Task -> CallType], NEW t \in Task, NEW r \in CallType,
         \A u \in Task : CallOK(f[u]), CallOK(r)
  PROVE  LET g == [f EXCEPT ![t] = r]
         IN  /\ g \in [Task -> CallType]
             /\ \A u \in Task : CallOK(g[u])
             /\ SndHolders(g) = IF HoldsSnd(r) THEN SndHolders(f) \cup {t}
                                               ELSE SndHolders(f) \ {t}
             /\ RcvHolders(g) = IF HoldsRcv(r) THEN RcvHolders(f) \cup {t}
                                               ELSE RcvHolders(f) \ {t}
<1> DEFINE g == [f EXCEPT ![t] = r]
<1>1. g \in [Task -> CallType] /\ \A u \in Task : g[u] = IF u = t THEN r ELSE f[u]
  OBVIOUS
<1> HIDE DEF g
<1>2. SndHolders(g) = IF HoldsSnd(r) THEN SndHolders(f) \cup {t} ELSE SndHolders(f) \ {t}
  BY <1>1 DEF SndHolders
<1>3. RcvHolders(g) = IF HoldsRcv(r) THEN RcvHolders(f) \cup {t} ELSE RcvHolders(f) \ {t}
  BY <1>1 DEF RcvHolders
<1>4. \A u \in Task : CallOK(g[u])
  BY <1>1
<1>5. QED
  BY <1>1, <1>2, <1>3, <1>4 DEF g

\* sig_sem by a caller that leaves the port p1 and the calls task1, in which the
\* sleepers sleep on: somebody who sleeps gets the unit, or the semaphore.
LEMMA SignalPassesUnit ==
  ASSUME TypeInv, CallsInv,
         NEW s \in {"snd", "rcv"}, sem[s] = 0,
         NEW p1 \in PortType, ~p1.errorflag,
         NEW task1 \in [Task -> CallType], \A u \in Task : CallOK(task1[u]),
         \A u \in Sleepers(s) : task1[u] = task[u],
         Signal(s, p1, task1)
  PROVE  /\ p' = p1
         /\ task' \in [Task -> CallType]
         /\ \A u \in Task : CallOK(task'[u])
         /\ sem' \in [{"snd", "rcv"} -> {0, 1}]
         /\ \/ /\ sem' = sem
               /\ \E u \in Task :
                    IF s = "snd"
                    THEN /\ SndHolders(task') = SndHolders(task1) \cup {u}
                         /\ RcvHolders(task') = RcvHolders(task1)
                    ELSE /\ RcvHolders(task') = RcvHolders(task1) \cup {u}
                         /\ SndHolders(task') = SndHolders(task1)
            \/ task' = task1 /\ sem' = [sem EXCEPT ![s] = 1]
<1>1. CASE Sleepers(s) # {}
  <2>1. PICK u \in Sleepers(s) : task' = [task1 EXCEPT ![u].at = "chr"]
    BY <1>1 DEF Signal
  <2>2. p' = p1 /\ sem' = sem
    BY <1>1 DEF Signal
  <2>3. u \in Task /\ task1[u].at = "slp" /\ task1[u].sem = s /\ task1[u] \in CallType
        /\ CallOK(task1[u])
    BY DEF Sleepers
  <2> DEFINE r == [task1[u] EXCEPT !.at = "chr"]
  <2>4. /\ r \in CallType /\ r.at = "chr" /\ r.sem = s /\ r.call = task1[u].call
        /\ r.left = task1[u].left /\ r.echo = task1[u].echo /\ r.empty = task1[u].empty
    BY <2>3 DEF CallType
  <2>5. CallOK(r)
    BY <2>3, <2>4 DEF CallOK, NoCall
  <2>6. task' = [task1 EXCEPT ![u] = r]
    BY <2>1
  <2>7. IF s = "snd" THEN HoldsSnd(r) /\ (HoldsRcv(r) <=> HoldsRcv(task1[u]))
                     ELSE HoldsRcv(r) /\ ~HoldsSnd(r) /\ ~HoldsSnd(task1[u])
    BY <2>3, <2>4 DEF HoldsSnd, HoldsRcv, CallOK, NoCall
  <2> HIDE DEF r
  <2>8. /\ task' \in [Task -> CallType] /\ \A v \in Task : CallOK(task'[v])
        /\ SndHolders(task') = IF HoldsSnd(r) THEN SndHolders(task1) \cup {u}
                                              ELSE SndHolders(task1) \ {u}
        /\ RcvHolders(task') = IF HoldsRcv(r) THEN RcvHolders(task1) \cup {u}
                                              ELSE RcvHolders(task1) \ {u}
    BY <2>3, <2>4, <2>5, <2>6, CallChanges
  <2>9. IF s = "snd" THEN /\ SndHolders(task') = SndHolders(task1) \cup {u}
                          /\ RcvHolders(task') = RcvHolders(task1)
                     ELSE /\ RcvHolders(task') = RcvHolders(task1) \cup {u}
                          /\ SndHolders(task') = SndHolders(task1)
    <3>1. u \in RcvHolders(task1) <=> HoldsRcv(task1[u])
      BY <2>3 DEF RcvHolders
    <3>2. u \in SndHolders(task1) <=> HoldsSnd(task1[u])
      BY <2>3 DEF SndHolders
    <3>3. QED
      BY <2>7, <2>8, <3>1, <3>2
  <2>10. QED
    BY <2>2, <2>3, <2>8, <2>9 DEF TypeInv
<1>2. CASE Sleepers(s) = {}
  <2>1. task' = task1 /\ sem' = [sem EXCEPT ![s] = 1]
    BY <1>2 DEF Signal
  <2>2. p' = [p1 EXCEPT !.errorflag = @ \/ sem[s] = 1]
    BY <1>2 DEF Signal
  <2>3. p' = p1
    BY <2>2 DEF PortType
  <2>4. QED
    BY <2>1, <2>3 DEF TypeInv
<1>3. QED
  BY <1>1, <1>2

-----------------------------------------------------------------------------
(***************************************************************************)
(* The steps.                                                              *)
(***************************************************************************)
LEMMA InitEstablishes == Init => IInv
<1> SUFFICES ASSUME Init PROVE IInv
  OBVIOUS
<1>1. NoCall \in CallType /\ CallOK(NoCall)
  BY DEF NoCall, CallType, CallOK
<1>2. Closed \in PortType
  BY SerialAssumption DEF Closed, PortType
<1>3. TypeInv
  BY <1>1, <1>2 DEF Init, TypeInv, ini_sems
<1>4. QED
  BY <1>1, <1>3 DEF Init, IInv, CallsInv, ClosedInv, UnitInv, FlowExact, PendingInv, Closed

\* A call under way keeps the port open.
LEMMA InCallIsOpen ==
  ASSUME ClosedInv, NEW t \in Task, task[t] # NoCall
  PROVE  p.openflag
  BY DEF ClosedInv

\* serial_opn_por makes both semaphores and empties the buffers.
LEMMA OpenPreserves == ASSUME IInv, serial_opn_por PROVE IInv'
<1>1. /\ p' = [Closed EXCEPT !.openflag = TRUE, !.ioctl = Default]
      /\ sem' = ini_sems /\ \A t \in Task : task'[t] = NoCall
      /\ uart' = [snd_cbflg |-> FALSE, tx_fifo_sem |-> 0] /\ line' = "START"
      /\ task' = task /\ sem' = sem
  BY DEF serial_opn_por, IInv, ClosedInv
<1>2. p' = [openflag |-> TRUE, errorflag |-> FALSE, ioctl |-> Default,
            rcv_count |-> 0, rcv_fc_chr |-> "none", rcv_stopped |-> FALSE,
            snd_count |-> 0, snd_stopped |-> FALSE]
  BY <1>1 DEF Closed
<1>3. /\ p' \in PortType /\ p'.openflag /\ ~p'.errorflag /\ p'.rcv_count = 0
      /\ p'.snd_count = 0 /\ p'.rcv_fc_chr = "none" /\ ~p'.rcv_stopped
  BY <1>2, SerialAssumption DEF PortType, Default, Settings
<1>4. TypeInv' /\ CallsInv'
  BY <1>1, <1>3 DEF IInv, TypeInv, CallsInv
<1>5. HasSnd' = {} /\ HasRcv' = {}
  BY <1>1 DEF HasSnd, HasRcv, NoCall
<1>6. UnitInv'
  BY <1>1, <1>3, <1>5, SerialAssumption DEF UnitInv, UnitWith, ini_sems
<1>7. QED
  BY <1>1, <1>3, <1>4, <1>6 DEF IInv, ClosedInv, FlowExact, PendingInv

\* serial_cls_por of a port that nobody uses.
LEMMA ClosePreserves == ASSUME IInv, Quiet, serial_cls_por PROVE IInv'
<1>1. /\ p' = [p EXCEPT !.openflag = FALSE] /\ sem' = ini_sems
      /\ uart' = uart /\ line' = line
      /\ task' = [t \in Task |-> IF task[t].at = "slp" THEN NoCall ELSE task[t]]
  BY DEF serial_cls_por
<1>2. \A t \in Task : task'[t] = NoCall
  BY <1>1 DEF Quiet, IInv, CallsInv, CallOK
<1>3. p' \in PortType /\ ~p'.openflag /\ ~p'.errorflag /\ p'.rcv_fc_chr = p.rcv_fc_chr
  BY <1>1 DEF IInv, TypeInv, PortType
<1>4. NoCall \in CallType /\ CallOK(NoCall)
  BY DEF NoCall, CallType, CallOK
<1>5. TypeInv'
  BY <1>1, <1>2, <1>3, <1>4 DEF IInv, TypeInv, ini_sems
<1>6. QED
  BY <1>1, <1>2, <1>3, <1>4, <1>5 DEF IInv, CallsInv, ClosedInv, UnitInv, FlowExact, PendingInv

\* serial_ctl_por changes no unit.
LEMMA ControlPreserves ==
  ASSUME IInv, NEW ioctl \in Ioctl, serial_ctl_por(ioctl) PROVE IInv'
<1>1. /\ p' = [p EXCEPT !.ioctl = ioctl] /\ UNCHANGED << sem, uart, task, line >>
  BY DEF serial_ctl_por
<1>2. /\ p' \in PortType /\ p'.openflag = p.openflag /\ p'.errorflag = p.errorflag
      /\ p'.rcv_fc_chr = p.rcv_fc_chr /\ p'.rcv_count = p.rcv_count
      /\ p'.rcv_stopped = p.rcv_stopped /\ p'.snd_count = p.snd_count
  BY <1>1, SerialAssumption DEF IInv, TypeInv, PortType, Settings
<1>3. HasSnd' = HasSnd /\ HasRcv' = HasRcv
  BY <1>1 DEF HasSnd, HasRcv
<1>4. QED
  BY <1>1, <1>2, <1>3 DEF IInv, TypeInv, CallsInv, ClosedInv, UnitInv, FlowExact, PendingInv

\* The begin of serial_wri_dat and serial_rea_dat, or their next character.
LEMMA BeginsPreserves ==
  ASSUME IInv, NEW t \in Task, NEW n \in 1 .. MaxLen,
         serial_wri_dat(t, n) \/ serial_rea_dat(t, n)
  PROVE  IInv'
<1>1. PICK call \in {"wri", "rea"}, s \in {"snd", "rcv"} :
         Begins(t, call, s, n) /\ (call = "wri" <=> s = "snd")
  BY DEF serial_wri_dat, serial_rea_dat
<1> DEFINE r == [NoCall EXCEPT !.call = call, !.at = "wai", !.sem = s, !.left = n]
<1>2. /\ task[t] = NoCall /\ p.openflag /\ task' = [task EXCEPT ![t] = r]
      /\ UNCHANGED << p, sem, uart, line >>
  BY <1>1 DEF Begins, Usable
<1>3. n \in Nat /\ n > 0
  BY SerialAssumption
<1>4. /\ r \in CallType /\ CallOK(r) /\ ~HoldsSnd(r) /\ ~HoldsRcv(r)
  <2>1. NoCall \in CallType
    BY DEF NoCall, CallType
  <2>2. r \in CallType /\ r.call = call /\ r.at = "wai" /\ r.sem = s /\ r.left = n
    BY <1>1, <1>3, <2>1 DEF CallType
  <2> HIDE DEF r
  <2>3. QED
    BY <1>1, <1>3, <2>2 DEF CallOK, HoldsSnd, HoldsRcv
<1>5. t \notin SndHolders(task) /\ t \notin RcvHolders(task)
  BY <1>2 DEF SndHolders, RcvHolders, HoldsSnd, HoldsRcv, NoCall
<1> HIDE DEF r
<1>6. /\ task' \in [Task -> CallType] /\ \A u \in Task : CallOK(task'[u])
      /\ SndHolders(task') = SndHolders(task) /\ RcvHolders(task') = RcvHolders(task)
  <2>1. task \in [Task -> CallType] /\ \A u \in Task : CallOK(task[u])
    BY DEF IInv, TypeInv, CallsInv
  <2>2. /\ task' \in [Task -> CallType] /\ \A u \in Task : CallOK(task'[u])
        /\ SndHolders(task') = SndHolders(task) \ {t}
        /\ RcvHolders(task') = RcvHolders(task) \ {t}
    BY <1>2, <1>4, <2>1, CallChanges
  <2>3. QED
    BY <1>5, <2>2
<1>7. HasSnd' = HasSnd /\ HasRcv' = HasRcv
  BY <1>6, HoldersAreTasks
<1>8. QED
  BY <1>2, <1>6, <1>7 DEF IInv, TypeInv, CallsInv, ClosedInv, UnitInv, FlowExact, PendingInv

\* wai_sem takes the unit, or the caller sleeps.
LEMMA WaitPreserves == ASSUME IInv, NEW t \in Task, wai_sem(t) PROVE IInv'
<1> DEFINE s == task[t].sem
           r == [task[t] EXCEPT !.at = IF sem[s] > 0 THEN "chr" ELSE "slp"]
<1>1. /\ task[t].at = "wai" /\ task' = [task EXCEPT ![t] = r]
      /\ sem' = [sem EXCEPT ![s] = 0] /\ UNCHANGED << p, uart, line >>
  BY DEF wai_sem
<1>2. task[t] \in CallType /\ CallOK(task[t])
  BY DEF IInv, TypeInv, CallsInv
<1>3. p.openflag /\ s \in {"snd", "rcv"} /\ (s = "rcv" => task[t].call = "rea")
  BY <1>1, <1>2, InCallIsOpen DEF IInv, CallOK, NoCall
<1>4. sem[s] \in {0, 1} /\ sem["snd"] \in {0, 1} /\ sem["rcv"] \in {0, 1}
  BY <1>3 DEF IInv, TypeInv
<1>5. /\ r \in CallType /\ r.call = task[t].call /\ r.sem = s
      /\ r.at = (IF sem[s] > 0 THEN "chr" ELSE "slp")
      /\ r.left = task[t].left /\ r.echo = task[t].echo /\ r.empty = task[t].empty
  BY <1>2 DEF CallType
<1> HIDE DEF r, s
<1>6. CallOK(r)
  BY <1>1, <1>2, <1>5 DEF CallOK, NoCall, s
<1>7. /\ HoldsSnd(r) <=> s = "snd" /\ sem[s] = 1
      /\ HoldsRcv(r) <=> IF s = "rcv" THEN sem[s] = 1 ELSE HoldsRcv(task[t])
  BY <1>3, <1>4, <1>5 DEF HoldsSnd, HoldsRcv, s
<1>8. t \notin SndHolders(task) /\ (s = "rcv" => t \notin RcvHolders(task))
  BY <1>1 DEF SndHolders, RcvHolders, HoldsSnd, HoldsRcv, s
<1>9. t \in RcvHolders(task) <=> HoldsRcv(task[t])
  BY DEF RcvHolders
<1>10. /\ task' \in [Task -> CallType] /\ \A u \in Task : CallOK(task'[u])
       /\ SndHolders(task') = IF HoldsSnd(r) THEN SndHolders(task) \cup {t}
                                             ELSE SndHolders(task) \ {t}
       /\ RcvHolders(task') = IF HoldsRcv(r) THEN RcvHolders(task) \cup {t}
                                             ELSE RcvHolders(task) \ {t}
  <2>1. task \in [Task -> CallType] /\ \A u \in Task : CallOK(task[u])
    BY DEF IInv, TypeInv, CallsInv
  <2>2. QED
    BY <1>1, <1>5, <1>6, <2>1, CallChanges
<1>11. CASE s = "snd"
  <2>1. sem'["snd"] = 0 /\ sem'["rcv"] = sem["rcv"]
    BY <1>1, <1>11 DEF IInv, TypeInv
  <2>2. RcvHolders(task') = RcvHolders(task)
    BY <1>7, <1>9, <1>10, <1>11
  <2>3. SndHolders(task') = IF sem["snd"] = 1 THEN SndHolders(task) \cup {t}
                                              ELSE SndHolders(task)
    BY <1>4, <1>7, <1>8, <1>10, <1>11
  <2>4. UnitInv'
    BY <1>1, <1>3, <1>4, <2>1, <2>2, <2>3, HoldersAreTasks DEF IInv, UnitInv, UnitWith
  <2>5. QED
    BY <1>1, <1>3, <1>10, <2>4 DEF IInv, TypeInv, CallsInv, ClosedInv, FlowExact, PendingInv
<1>12. CASE s = "rcv"
  <2>1. sem'["rcv"] = 0 /\ sem'["snd"] = sem["snd"]
    BY <1>1, <1>12 DEF IInv, TypeInv
  <2>2. SndHolders(task') = SndHolders(task)
    BY <1>7, <1>8, <1>10, <1>12
  <2>3. RcvHolders(task') = IF sem["rcv"] = 1 THEN RcvHolders(task) \cup {t}
                                              ELSE RcvHolders(task)
    BY <1>4, <1>7, <1>8, <1>10, <1>12
  <2>4. UnitInv'
    BY <1>1, <1>3, <1>4, <2>1, <2>2, <2>3, HoldersAreTasks DEF IInv, UnitInv, UnitWith
  <2>5. QED
    BY <1>1, <1>3, <1>10, <2>4 DEF IInv, TypeInv, CallsInv, ClosedInv, FlowExact, PendingInv
<1>13. QED
  BY <1>3, <1>11, <1>12

\* A release of the wait for a semaphore.
LEMMA ReleasePreserves ==
  ASSUME IInv, NEW t \in Task, ~EchoWithUnit(t), rel_wai(t) PROVE IInv'
<1>1. /\ task[t].at = "slp" /\ task' = [task EXCEPT ![t] = NoCall]
      /\ UNCHANGED << p, sem, uart, line >>
  BY DEF rel_wai
<1>2. task[t] \in CallType /\ CallOK(task[t])
  BY DEF IInv, TypeInv, CallsInv
<1>3. t \notin SndHolders(task) /\ t \notin RcvHolders(task)
  BY <1>1, <1>2 DEF EchoWithUnit, SndHolders, RcvHolders, HoldsSnd, HoldsRcv, CallOK, NoCall
<1>4. NoCall \in CallType /\ CallOK(NoCall) /\ ~HoldsSnd(NoCall) /\ ~HoldsRcv(NoCall)
  BY DEF NoCall, CallType, CallOK, HoldsSnd, HoldsRcv
<1>5. /\ task' \in [Task -> CallType] /\ \A u \in Task : CallOK(task'[u])
      /\ SndHolders(task') = SndHolders(task) \ {t}
      /\ RcvHolders(task') = RcvHolders(task) \ {t}
  <2>1. task \in [Task -> CallType] /\ \A u \in Task : CallOK(task[u])
    BY DEF IInv, TypeInv, CallsInv
  <2>2. QED
    BY <1>1, <1>4, <2>1, CallChanges
<1>6. HasSnd' = HasSnd /\ HasRcv' = HasRcv
  BY <1>3, <1>5, HoldersAreTasks
<1>7. p.openflag
  BY <1>1, InCallIsOpen DEF IInv, NoCall
<1>8. QED
  BY <1>1, <1>5, <1>6, <1>7 DEF IInv, TypeInv, CallsInv, ClosedInv, UnitInv, FlowExact, PendingInv

\* A reader that has done with a character goes on with the unit of rcv exactly
\* if it has not emptied the buffer.
LEMMA ReadOnKeepsUnit ==
  ASSUME NEW r \in CallType, r.call = "rea", r.at # "none"
  PROVE  /\ ReadOn(r) \in CallType /\ CallOK(ReadOn(r))
         /\ ~HoldsSnd(ReadOn(r))
         /\ HoldsRcv(ReadOn(r)) <=> ~r.empty
<1>1. NoCall \in CallType /\ CallOK(NoCall) /\ ~HoldsSnd(NoCall) /\ ~HoldsRcv(NoCall)
  BY DEF NoCall, CallType, CallOK, HoldsSnd, HoldsRcv
<1>2. CASE r.left > 0
  <2> DEFINE r2 == [r EXCEPT !.sem = "rcv", !.at = IF r.empty THEN "wai" ELSE "chr"]
  <2>1. /\ r2 \in CallType /\ r2.call = "rea" /\ r2.sem = "rcv" /\ r2.left = r.left
        /\ r2.at = IF r.empty THEN "wai" ELSE "chr"
    BY DEF CallType
  <2>2. ReadOn(r) = r2
    BY <1>2 DEF ReadOn
  <2> HIDE DEF r2
  <2>3. QED
    BY <1>2, <2>1, <2>2 DEF CallOK, HoldsSnd, HoldsRcv
<1>3. CASE ~(r.left > 0) /\ r.empty
  BY <1>1, <1>3 DEF ReadOn
<1>4. CASE ~(r.left > 0) /\ ~r.empty
  <2> DEFINE r2 == [r EXCEPT !.sem = "rcv", !.at = "sig"]
  <2>1. /\ r2 \in CallType /\ r2.call = "rea" /\ r2.sem = "rcv" /\ r2.at = "sig"
        /\ r2.empty = r.empty
    BY DEF CallType
  <2>2. ReadOn(r) = r2
    BY <1>4 DEF ReadOn
  <2> HIDE DEF r2
  <2>3. QED
    BY <1>4, <2>1, <2>2 DEF CallOK, HoldsSnd, HoldsRcv
<1>5. QED
  BY <1>2, <1>3, <1>4

\* Who has written a character keeps the unit of snd exactly if the buffer is not
\* full, and that of rcv in any case.
LEMMA AfterWriteKeepsUnit ==
  ASSUME NEW r \in CallType, CallOK(r), r.at = "chr", r.sem = "snd", NEW full \in BOOLEAN
  PROVE  /\ AfterWrite(r, full) \in CallType /\ CallOK(AfterWrite(r, full))
         /\ HoldsSnd(AfterWrite(r, full)) <=> ~full
         /\ HoldsRcv(AfterWrite(r, full)) <=> HoldsRcv(r)
<1> DEFINE r1   == IF r.call = "wri" THEN [r EXCEPT !.left = @ - 1]
                                     ELSE [r EXCEPT !.echo = @ - 1]
           more == IF r.call = "wri" THEN r1.left > 0 ELSE r1.echo > 0
           r2   == [r1 EXCEPT !.at = IF full THEN "wai" ELSE "chr"]
           r3   == [r1 EXCEPT !.at = "sig"]
<1>1. \/ r.call = "wri" /\ r.left > 0 /\ r.left \in Nat
      \/ r.call = "rea" /\ r.echo > 0 /\ r.echo \in 0 .. 2
  <2>1. NoCall.at = "none"
    BY DEF NoCall
  <2>2. r.left \in Nat /\ r.echo \in 0 .. 2
    BY DEF CallType
  <2>3. QED
    BY <2>1, <2>2 DEF CallOK
<1>2. /\ r1 \in CallType /\ r1.call = r.call /\ r1.at = "chr" /\ r1.sem = "snd"
      /\ r1.empty = r.empty
  BY <1>1 DEF CallType
<1>3. /\ r2 \in CallType /\ r2.call = r.call /\ r2.at = (IF full THEN "wai" ELSE "chr")
      /\ r2.sem = "snd" /\ r2.empty = r.empty /\ r2.left = r1.left /\ r2.echo = r1.echo
  BY <1>2 DEF CallType
<1>4. /\ r3 \in CallType /\ r3.call = r.call /\ r3.at = "sig"
      /\ r3.sem = "snd" /\ r3.empty = r.empty
  BY <1>2 DEF CallType
<1>5. AfterWrite(r, full) = IF more THEN r2
                            ELSE IF ~full THEN r3
                            ELSE IF r.call = "wri" THEN NoCall ELSE ReadOn(r1)
  BY DEF AfterWrite
<1> HIDE DEF r1, r2, r3
<1>6. CASE more
  BY <1>1, <1>3, <1>5, <1>6 DEF CallOK, HoldsSnd, HoldsRcv
<1>7. CASE ~more /\ ~full
  BY <1>1, <1>4, <1>5, <1>7 DEF CallOK, HoldsSnd, HoldsRcv
<1>8. CASE ~more /\ full /\ r.call = "wri"
  <2>1. NoCall \in CallType /\ CallOK(NoCall) /\ ~HoldsSnd(NoCall) /\ ~HoldsRcv(NoCall)
    BY DEF NoCall, CallType, CallOK, HoldsSnd, HoldsRcv
  <2>2. AfterWrite(r, full) = NoCall
    BY <1>5, <1>8
  <2>3. ~HoldsRcv(r)
    BY <1>8 DEF HoldsRcv
  <2>4. QED
    BY <1>8, <2>1, <2>2, <2>3
<1>9. CASE ~more /\ full /\ r.call # "wri"
  <2>1. r1.call = "rea" /\ r1.at # "none" /\ r1 \in CallType
    BY <1>1, <1>2, <1>9
  <2>2. AfterWrite(r, full) = ReadOn(r1)
    BY <1>5, <1>9
  <2>3. HoldsRcv(r) <=> ~r1.empty
    BY <1>1, <1>2, <1>9 DEF HoldsRcv
  <2>4. QED
    BY <1>9, <2>1, <2>2, <2>3, ReadOnKeepsUnit
<1>10. QED
  BY <1>6, <1>7, <1>8, <1>9

\* serial_wri_chr, to the UART or to the buffer.
LEMMA WriteCharPreserves == ASSUME IInv, NEW t \in Task, serial_wri_chr(t) PROVE IInv'
<1> DEFINE direct == p.snd_count = 0 /\ ~p.snd_stopped
           sent   == direct /\ CanSend
           full   == ~sent /\ p.snd_count + 1 = snd_bufsz
           r      == AfterWrite(task[t], full)
<1>1. task[t].at = "chr" /\ task[t].sem = "snd" /\ sem' = sem /\ line' = line
  BY DEF serial_wri_chr
<1>2. task[t] \in CallType /\ CallOK(task[t])
  BY DEF IInv, TypeInv, CallsInv
<1>3. p.openflag
  BY <1>1, InCallIsOpen DEF IInv, NoCall
<1>4. t \in SndHolders(task) /\ (t \in RcvHolders(task) <=> HoldsRcv(task[t]))
  BY <1>1 DEF SndHolders, RcvHolders, HoldsSnd
<1>5. sem["snd"] = 0 /\ SndHolders(task) = {t} /\ p.snd_count # snd_bufsz
  BY <1>3, <1>4, Types, HoldersAreTasks DEF IInv, UnitInv, UnitWith
<1>6. IF sent THEN p' = p ELSE p' = [p EXCEPT !.snd_count = @ + 1]
  BY DEF serial_wri_chr
<1>7. /\ p' \in PortType /\ p'.openflag /\ ~p'.errorflag
      /\ p'.rcv_fc_chr = p.rcv_fc_chr /\ p'.rcv_stopped = p.rcv_stopped
      /\ p'.rcv_count = p.rcv_count
      /\ p'.snd_count = IF sent THEN p.snd_count ELSE p.snd_count + 1
  <2>1. p \in PortType /\ ~p.errorflag
    BY DEF IInv, TypeInv
  <2>2. p.snd_count + 1 \in 0 .. snd_bufsz
    BY <1>5, Types DEF IInv
  <2>3. QED
    BY <1>3, <1>6, <2>1, <2>2 DEF PortType
<1>8. full <=> p'.snd_count = snd_bufsz
  BY <1>5, <1>7
<1>9. task' = [task EXCEPT ![t] = r]
  <2>1. CASE sent
    BY <2>1 DEF serial_wri_chr
  <2>2. CASE ~sent
    BY <1>8, <2>2 DEF serial_wri_chr
  <2>3. QED
    BY <2>1, <2>2
<1>10. /\ uart' \in [snd_cbflg : BOOLEAN, tx_fifo_sem : Nat]
       /\ p.rcv_fc_chr # "none" => uart'.tx_fifo_sem = 0
  <2>1. uart \in [snd_cbflg : BOOLEAN, tx_fifo_sem : Nat]
    BY DEF IInv, TypeInv
  <2>2. CASE sent
    BY <2>1, <2>2 DEF serial_wri_chr, Sent, CanSend, IInv, PendingInv
  <2>3. CASE ~sent
    BY <2>1, <2>3 DEF serial_wri_chr, EnableSend, IInv, PendingInv
  <2>4. QED
    BY <2>2, <2>3
<1>11. r \in CallType /\ CallOK(r) /\ (HoldsSnd(r) <=> ~full)
       /\ (HoldsRcv(r) <=> HoldsRcv(task[t]))
  BY <1>1, <1>2, AfterWriteKeepsUnit
<1> HIDE DEF r, full, sent
<1>12. /\ task' \in [Task -> CallType] /\ \A u \in Task : CallOK(task'[u])
       /\ SndHolders(task') = IF HoldsSnd(r) THEN SndHolders(task) \cup {t}
                                             ELSE SndHolders(task) \ {t}
       /\ RcvHolders(task') = IF HoldsRcv(r) THEN RcvHolders(task) \cup {t}
                                             ELSE RcvHolders(task) \ {t}
  <2>1. task \in [Task -> CallType] /\ \A u \in Task : CallOK(task[u])
    BY DEF IInv, TypeInv, CallsInv
  <2>2. QED
    BY <1>9, <1>11, <2>1, CallChanges
<1>13. RcvHolders(task') = RcvHolders(task)
  BY <1>4, <1>11, <1>12
<1>14. SndHolders(task') = IF full THEN {} ELSE {t}
  BY <1>5, <1>11, <1>12
<1>15. UnitInv'
  <2>1. UnitWith(sem'["snd"], HasSnd', (p.snd_count = snd_bufsz)')
    BY <1>1, <1>5, <1>8, <1>14, HoldersAreTasks DEF UnitWith
  <2>2. UnitWith(sem'["rcv"], HasRcv', (p.rcv_count = 0)')
    BY <1>1, <1>3, <1>7, <1>13, HoldersAreTasks DEF IInv, UnitInv
  <2>3. QED
    BY <2>1, <2>2 DEF UnitInv
<1>16. QED
  BY <1>1, <1>3, <1>7, <1>10, <1>12, <1>15
     DEF IInv, TypeInv, CallsInv, ClosedInv, FlowExact, PendingInv

\* START or STOP is sent, or left to the callback while the UART has no place.
LEMMA FlowControlIsSentOrPending ==
  ASSUME IInv, NEW c \in {"START", "STOP"}, SendFlowControl(c)
  PROVE  /\ uart' \in [snd_cbflg : BOOLEAN, tx_fifo_sem : Nat]
         /\ line' \in {"START", "STOP"}
         /\ Pending(c) \in {"none", "START", "STOP"}
         /\ Pending(c) # "none" => uart'.tx_fifo_sem = 0
         /\ (IF Pending(c) # "none" THEN Pending(c) ELSE line') = c
<1>1. uart \in [snd_cbflg : BOOLEAN, tx_fifo_sem : Nat] /\ line \in {"START", "STOP"}
  BY DEF IInv, TypeInv
<1>2. CASE CanSend
  BY <1>1, <1>2 DEF SendFlowControl, Pending, Sent, CanSend, IInv, PendingInv
<1>3. CASE ~CanSend
  <2>1. uart.tx_fifo_sem = 0
    BY <1>1, <1>3 DEF CanSend
  <2>2. uart' = [uart EXCEPT !.snd_cbflg = TRUE] /\ line' = line /\ Pending(c) = c
    BY <1>3 DEF SendFlowControl, Pending, EnableSend
  <2>3. uart' \in [snd_cbflg : BOOLEAN, tx_fifo_sem : Nat] /\ uart'.tx_fifo_sem = 0
    BY <1>1, <2>1, <2>2
  <2>4. QED
    BY <1>1, <2>2, <2>3
<1>4. QED
  BY <1>2, <1>3

\* serial_rea_chr, with START when the buffer has room again.
LEMMA ReadCharPreserves == ASSUME IInv, NEW t \in Task, serial_rea_chr(t) PROVE IInv'
<1> DEFINE count  == p.rcv_count - 1
           r      == [task[t] EXCEPT !.left = @ - 1, !.empty = count = 0]
           starts == p.rcv_stopped /\ count <= BUFCNT_START
<1>1. task[t].at = "chr" /\ task[t].sem = "rcv" /\ sem' = sem
  BY DEF serial_rea_chr
<1>2. task[t] \in CallType /\ CallOK(task[t]) /\ task[t] # NoCall
  BY <1>1 DEF IInv, TypeInv, CallsInv, NoCall
<1>3. p.openflag
  BY <1>2, InCallIsOpen DEF IInv
<1>4. task[t].call = "rea" /\ task[t].left > 0 /\ task[t].left \in Nat
  BY <1>1, <1>2 DEF CallOK, CallType
<1>5. t \in RcvHolders(task) /\ t \notin SndHolders(task)
  BY <1>1, <1>4 DEF SndHolders, RcvHolders, HoldsSnd, HoldsRcv
<1>6. sem["rcv"] = 0 /\ RcvHolders(task) = {t} /\ p.rcv_count # 0
  BY <1>3, <1>5, Types, HoldersAreTasks DEF IInv, UnitInv, UnitWith
<1>7. count \in 0 .. rcv_bufsz
  BY <1>6, Types DEF IInv
<1>8. /\ r \in CallType /\ r.call = "rea" /\ r.at = "chr" /\ r.sem = "rcv"
      /\ r.empty <=> count = 0
  <2>1. task[t].left - 1 \in Nat /\ (count = 0) \in BOOLEAN
    BY <1>4
  <2>2. QED
    BY <1>1, <1>2, <1>4, <2>1 DEF CallType
<1> HIDE DEF r
<1>9. PICK n \in 1 .. 2 :
        task' = [task EXCEPT ![t] = IF "ECHO" \in p.ioctl
                                    THEN [r EXCEPT !.sem = "snd", !.at = "wai", !.echo = n]
                                    ELSE ReadOn(r)]
  BY DEF serial_rea_chr, r
<1> DEFINE e == [r EXCEPT !.sem = "snd", !.at = "wai", !.echo = n]
           q == IF "ECHO" \in p.ioctl THEN e ELSE ReadOn(r)
<1>10. q \in CallType /\ CallOK(q) /\ ~HoldsSnd(q) /\ (HoldsRcv(q) <=> count # 0)
  <2>1. CASE "ECHO" \in p.ioctl
    <3>1. /\ e \in CallType /\ e.call = "rea" /\ e.sem = "snd" /\ e.at = "wai"
          /\ e.echo = n /\ (e.empty <=> count = 0)
      <4>1. n \in 0 .. 2
        OBVIOUS
      <4>2. QED
        BY <1>8, <4>1 DEF CallType
    <3> HIDE DEF e
    <3>2. n > 0
      OBVIOUS
    <3>3. QED
      BY <2>1, <3>1, <3>2 DEF CallOK, HoldsSnd, HoldsRcv
  <2>2. CASE "ECHO" \notin p.ioctl
    <3>1. q = ReadOn(r)
      BY <2>2
    <3>2. /\ ReadOn(r) \in CallType /\ CallOK(ReadOn(r)) /\ ~HoldsSnd(ReadOn(r))
          /\ HoldsRcv(ReadOn(r)) <=> ~r.empty
      BY <1>8, ReadOnKeepsUnit
    <3>3. QED
      BY <1>8, <3>1, <3>2
  <2>3. QED
    BY <2>1, <2>2
<1>11. task' = [task EXCEPT ![t] = q]
  BY <1>9
<1> HIDE DEF q
<1>12. /\ task' \in [Task -> CallType] /\ \A u \in Task : CallOK(task'[u])
       /\ SndHolders(task') = IF HoldsSnd(q) THEN SndHolders(task) \cup {t}
                                             ELSE SndHolders(task) \ {t}
       /\ RcvHolders(task') = IF HoldsRcv(q) THEN RcvHolders(task) \cup {t}
                                             ELSE RcvHolders(task) \ {t}
  <2>1. task \in [Task -> CallType] /\ \A u \in Task : CallOK(task[u])
    BY DEF IInv, TypeInv, CallsInv
  <2>2. QED
    BY <1>10, <1>11, <2>1, CallChanges
<1>13. /\ SndHolders(task') = SndHolders(task)
       /\ RcvHolders(task') = IF count = 0 THEN {} ELSE {t}
  BY <1>5, <1>6, <1>10, <1>12
<1>14. /\ p' \in PortType /\ p'.openflag /\ ~p'.errorflag
       /\ p'.rcv_count = count /\ p'.snd_count = p.snd_count
       /\ uart' \in [snd_cbflg : BOOLEAN, tx_fifo_sem : Nat] /\ line' \in {"START", "STOP"}
       /\ FlowExact' /\ PendingInv'
  <2>1. p \in PortType /\ ~p.errorflag
    BY DEF IInv, TypeInv
  <2>2. CASE starts
    <3>1. /\ SendFlowControl("START")
          /\ p' = [p EXCEPT !.rcv_count = count, !.rcv_stopped = FALSE,
                            !.rcv_fc_chr = Pending("START")]
      BY <2>2 DEF serial_rea_chr
    <3>2. /\ uart' \in [snd_cbflg : BOOLEAN, tx_fifo_sem : Nat]
          /\ line' \in {"START", "STOP"}
          /\ Pending("START") \in {"none", "START", "STOP"}
          /\ Pending("START") # "none" => uart'.tx_fifo_sem = 0
          /\ (IF Pending("START") # "none" THEN Pending("START") ELSE line') = "START"
      BY <3>1, FlowControlIsSentOrPending
    <3>3. /\ p' \in PortType /\ p'.openflag /\ ~p'.errorflag
          /\ p'.rcv_count = count /\ p'.snd_count = p.snd_count
          /\ p'.rcv_stopped = FALSE /\ p'.rcv_fc_chr = Pending("START")
      BY <1>3, <1>7, <2>1, <3>1, <3>2 DEF PortType
    <3>4. QED
      BY <3>2, <3>3 DEF FlowExact, PendingInv
  <2>3. CASE ~starts
    <3>1. p' = [p EXCEPT !.rcv_count = count] /\ UNCHANGED << uart, line >>
      BY <2>3 DEF serial_rea_chr
    <3>2. /\ p' \in PortType /\ p'.openflag /\ ~p'.errorflag
          /\ p'.rcv_count = count /\ p'.snd_count = p.snd_count
          /\ p'.rcv_stopped = p.rcv_stopped /\ p'.rcv_fc_chr = p.rcv_fc_chr
      BY <1>3, <1>7, <2>1, <3>1 DEF PortType
    <3>3. QED
      BY <1>3, <3>1, <3>2 DEF IInv, TypeInv, FlowExact, PendingInv
  <2>4. QED
    BY <2>2, <2>3
<1>15. UnitInv'
  <2>1. UnitWith(sem'["snd"], HasSnd', (p.snd_count = snd_bufsz)')
    BY <1>1, <1>3, <1>13, <1>14, HoldersAreTasks DEF IInv, UnitInv
  <2>2. UnitWith(sem'["rcv"], HasRcv', (p.rcv_count = 0)')
    BY <1>1, <1>6, <1>13, <1>14, HoldersAreTasks DEF UnitWith
  <2>3. QED
    BY <2>1, <2>2 DEF UnitInv
<1>16. QED
  BY <1>1, <1>12, <1>14, <1>15 DEF IInv, TypeInv, CallsInv, ClosedInv

\* sig_sem returns the unit, or hands it to a sleeper.
LEMMA SignalPreserves == ASSUME IInv, NEW t \in Task, sig_sem(t) PROVE IInv'
<1> DEFINE r     == task[t]
           s     == r.sem
           q     == IF r.call = "rea" /\ r.sem = "snd" THEN ReadOn(r) ELSE NoCall
           task1 == [task EXCEPT ![t] = q]
<1>1. r.at = "sig" /\ Signal(s, p, task1) /\ uart' = uart /\ line' = line
  BY DEF sig_sem
<1>2. r \in CallType /\ CallOK(r) /\ r # NoCall
  BY <1>1 DEF IInv, TypeInv, CallsInv, NoCall
<1>3. p.openflag
  BY <1>2, InCallIsOpen DEF IInv
<1>4. s \in {"snd", "rcv"} /\ (s = "rcv" => r.call = "rea" /\ ~r.empty)
  BY <1>1, <1>2 DEF CallOK
<1>5. /\ t \in SndHolders(task) <=> s = "snd"
      /\ t \in RcvHolders(task) <=> HoldsRcv(r)
      /\ s = "rcv" => HoldsRcv(r)
  BY <1>1, <1>4 DEF SndHolders, RcvHolders, HoldsSnd, HoldsRcv
<1>6. /\ sem[s] = 0
      /\ s = "snd" => SndHolders(task) = {t} /\ p.snd_count # snd_bufsz
      /\ s = "rcv" => RcvHolders(task) = {t} /\ p.rcv_count # 0
  BY <1>3, <1>4, <1>5, Types, HoldersAreTasks DEF IInv, UnitInv, UnitWith
<1>7. /\ q \in CallType /\ CallOK(q) /\ ~HoldsSnd(q)
      /\ HoldsRcv(q) <=> s = "snd" /\ HoldsRcv(r)
  <2>1. NoCall \in CallType /\ CallOK(NoCall) /\ ~HoldsSnd(NoCall) /\ ~HoldsRcv(NoCall)
    BY DEF NoCall, CallType, CallOK, HoldsSnd, HoldsRcv
  <2>2. CASE r.call = "rea" /\ r.sem = "snd"
    <3>1. /\ ReadOn(r) \in CallType /\ CallOK(ReadOn(r)) /\ ~HoldsSnd(ReadOn(r))
          /\ HoldsRcv(ReadOn(r)) <=> ~r.empty
      BY <1>1, <1>2, <2>2, ReadOnKeepsUnit
    <3>2. q = ReadOn(r) /\ (HoldsRcv(r) <=> ~r.empty)
      BY <2>2 DEF HoldsRcv
    <3>3. QED
      BY <2>2, <3>1, <3>2
  <2>3. CASE ~(r.call = "rea" /\ r.sem = "snd")
    <3>1. q = NoCall /\ ~(s = "snd" /\ HoldsRcv(r))
      BY <2>3 DEF HoldsRcv
    <3>2. QED
      BY <2>1, <3>1
  <2>4. QED
    BY <2>2, <2>3
<1> HIDE DEF q
<1>8. task \in [Task -> CallType] /\ \A u \in Task : CallOK(task[u])
  BY DEF IInv, TypeInv, CallsInv
<1>9. /\ task1 \in [Task -> CallType] /\ \A u \in Task : CallOK(task1[u])
      /\ SndHolders(task1) = IF HoldsSnd(q) THEN SndHolders(task) \cup {t}
                                            ELSE SndHolders(task) \ {t}
      /\ RcvHolders(task1) = IF HoldsRcv(q) THEN RcvHolders(task) \cup {t}
                                            ELSE RcvHolders(task) \ {t}
  BY <1>7, <1>8, CallChanges
<1>10. /\ SndHolders(task1) = IF s = "snd" THEN {} ELSE SndHolders(task)
       /\ RcvHolders(task1) = IF s = "rcv" THEN {} ELSE RcvHolders(task)
  BY <1>4, <1>5, <1>6, <1>7, <1>9
<1>11. \A u \in Sleepers(s) : task1[u] = task[u]
  BY <1>1, <1>8 DEF Sleepers
<1> HIDE DEF task1
<1>12. /\ p' = p /\ task' \in [Task -> CallType] /\ \A u \in Task : CallOK(task'[u])
       /\ sem' \in [{"snd", "rcv"} -> {0, 1}]
       /\ \/ /\ sem' = sem
             /\ \E u \in Task :
                  IF s = "snd" THEN /\ SndHolders(task') = SndHolders(task1) \cup {u}
                                    /\ RcvHolders(task') = RcvHolders(task1)
                               ELSE /\ RcvHolders(task') = RcvHolders(task1) \cup {u}
                                    /\ SndHolders(task') = SndHolders(task1)
          \/ task' = task1 /\ sem' = [sem EXCEPT ![s] = 1]
  <2>1. p \in PortType /\ ~p.errorflag /\ TypeInv /\ CallsInv
    BY DEF IInv, TypeInv
  <2> HIDE DEF s
  <2>2. QED
    BY <1>1, <1>4, <1>6, <1>9, <1>11, <2>1, SignalPassesUnit
<1>13. UnitInv'
  <2>1. /\ UnitWith(sem["snd"], SndHolders(task), p.snd_count = snd_bufsz)
        /\ UnitWith(sem["rcv"], RcvHolders(task), p.rcv_count = 0)
    BY <1>3, HoldersAreTasks DEF IInv, UnitInv
  <2>2. sem \in [{"snd", "rcv"} -> {0, 1}]
    BY DEF IInv, TypeInv
  <2>3. CASE s = "snd"
    <3>1. UnitWith(sem'["snd"], SndHolders(task'), p.snd_count = snd_bufsz)
      BY <1>6, <1>10, <1>12, <2>2, <2>3 DEF UnitWith
    <3>2. sem'["rcv"] = sem["rcv"] /\ RcvHolders(task') = RcvHolders(task)
      BY <1>10, <1>12, <2>2, <2>3
    <3>3. QED
      BY <1>12, <2>1, <3>1, <3>2, HoldersAreTasks DEF UnitInv
  <2>4. CASE s = "rcv"
    <3>1. UnitWith(sem'["rcv"], RcvHolders(task'), p.rcv_count = 0)
      BY <1>6, <1>10, <1>12, <2>2, <2>4 DEF UnitWith
    <3>2. sem'["snd"] = sem["snd"] /\ SndHolders(task') = SndHolders(task)
      BY <1>10, <1>12, <2>2, <2>4
    <3>3. QED
      BY <1>12, <2>1, <3>1, <3>2, HoldersAreTasks DEF UnitInv
  <2>5. QED
    BY <1>4, <2>3, <2>4
<1>14. QED
  BY <1>1, <1>3, <1>12, <1>13 DEF IInv, TypeInv, CallsInv, ClosedInv, FlowExact, PendingInv

\* A character leaves the send buffer of a port that becomes p1: who sleeps for
\* the unit of a full buffer gets it.
LEMMA TakeKeepsUnits ==
  ASSUME IInv, p.openflag, p.snd_count > 0,
         NEW p1 \in PortType, ~p1.errorflag, p1.snd_count = p.snd_count - 1,
         p1.rcv_count = p.rcv_count,
         IF p.snd_count = snd_bufsz THEN Signal("snd", p1, task)
                                    ELSE p' = p1 /\ UNCHANGED << sem, task >>
  PROVE  /\ p' = p1 /\ task' \in [Task -> CallType] /\ CallsInv'
         /\ sem' \in [{"snd", "rcv"} -> {0, 1}] /\ UnitInv'
<1>1. /\ UnitWith(sem["snd"], SndHolders(task), p.snd_count = snd_bufsz)
      /\ UnitWith(sem["rcv"], RcvHolders(task), p.rcv_count = 0)
  BY HoldersAreTasks DEF IInv, UnitInv
<1>2. sem \in [{"snd", "rcv"} -> {0, 1}] /\ p.snd_count \in Nat /\ snd_bufsz \in Nat
      /\ p.snd_count <= snd_bufsz
  BY Types DEF IInv, TypeInv
<1>3. TypeInv /\ CallsInv /\ task \in [Task -> CallType]
  BY DEF IInv, TypeInv
<1>4. p1.snd_count # snd_bufsz
  BY <1>2
<1>5. CASE p.snd_count = snd_bufsz
  <2>1. sem["snd"] = 0 /\ SndHolders(task) = {}
    BY <1>1, <1>2, <1>5 DEF UnitWith
  <2>2. /\ p' = p1 /\ task' \in [Task -> CallType] /\ \A u \in Task : CallOK(task'[u])
        /\ sem' \in [{"snd", "rcv"} -> {0, 1}]
        /\ \/ /\ sem' = sem
              /\ \E u \in Task : /\ SndHolders(task') = SndHolders(task) \cup {u}
                               /\ RcvHolders(task') = RcvHolders(task)
           \/ task' = task /\ sem' = [sem EXCEPT !["snd"] = 1]
    <3>1. \A u \in Task : CallOK(task[u])
      BY <1>3 DEF CallsInv
    <3>2. Signal("snd", p1, task)
      BY <1>5
    <3>3. QED
      BY <1>3, <2>1, <3>1, <3>2, SignalPassesUnit
  <2>3. UnitWith(sem'["snd"], SndHolders(task'), p1.snd_count = snd_bufsz)
    <3>1. CASE sem' = [sem EXCEPT !["snd"] = 1] /\ task' = task
      <4>1. sem'["snd"] = 1
        BY <1>2, <3>1
      <4>2. QED
        BY <1>4, <2>1, <3>1, <4>1 DEF UnitWith
    <3>2. CASE sem' = sem /\ \E u \in Task : SndHolders(task') = SndHolders(task) \cup {u}
      BY <1>4, <2>1, <3>2 DEF UnitWith
    <3>3. QED
      BY <2>2, <3>1, <3>2
  <2>4. sem'["rcv"] = sem["rcv"] /\ RcvHolders(task') = RcvHolders(task)
    BY <1>2, <2>2
  <2>5. QED
    BY <1>1, <2>2, <2>3, <2>4, HoldersAreTasks DEF UnitInv, CallsInv
<1>6. CASE p.snd_count # snd_bufsz
  <2>1. p' = p1 /\ sem' = sem /\ task' = task
    BY <1>6
  <2>2. QED
    BY <1>1, <1>2, <1>3, <1>4, <1>6, <2>1, HoldersAreTasks DEF UnitInv, UnitWith, CallsInv
<1>7. QED
  BY <1>5, <1>6

\* sio_irdy_snd sends a pending START or STOP, or a character of the buffer.
LEMMA SendReadyPreserves == ASSUME IInv, sio_irdy_snd PROVE IInv'
<1>1. p.openflag /\ p \in PortType /\ ~p.errorflag /\ TxFifo - 1 \in Nat
  BY SerialAssumption DEF sio_irdy_snd, IInv, TypeInv
<1>2. CASE p.rcv_fc_chr # "none"
  <2>1. /\ uart' = [uart EXCEPT !.tx_fifo_sem = TxFifo - 1] /\ line' = p.rcv_fc_chr
        /\ p' = [p EXCEPT !.rcv_fc_chr = "none"] /\ UNCHANGED << sem, task >>
    BY <1>2 DEF sio_irdy_snd
  <2>2. /\ p' \in PortType /\ p'.openflag /\ ~p'.errorflag
        /\ p'.rcv_fc_chr = "none" /\ p'.rcv_count = p.rcv_count
        /\ p'.rcv_stopped = p.rcv_stopped /\ p'.snd_count = p.snd_count
    BY <1>1, <2>1 DEF PortType
  <2>3. line' \in {"START", "STOP"}
    BY <1>1, <1>2, <2>1 DEF PortType
  <2>4. HasSnd' = HasSnd /\ HasRcv' = HasRcv
    BY <2>1 DEF HasSnd, HasRcv
  <2>5. uart' \in [snd_cbflg : BOOLEAN, tx_fifo_sem : Nat]
    BY <1>1, <2>1 DEF IInv, TypeInv
  <2>6. QED
    BY <1>1, <1>2, <2>1, <2>2, <2>3, <2>4, <2>5
       DEF IInv, TypeInv, CallsInv, ClosedInv, UnitInv, FlowExact, PendingInv
<1>3. CASE p.rcv_fc_chr = "none" /\ ~p.snd_stopped /\ p.snd_count > 0
  <2> DEFINE p1 == [p EXCEPT !.snd_count = @ - 1]
  <2>1. /\ uart' = [uart EXCEPT !.tx_fifo_sem = TxFifo - 1] /\ line' = line
        /\ take_from_buffer
    BY <1>3 DEF sio_irdy_snd
  <2>2. p.snd_count - 1 \in 0 .. snd_bufsz
    BY <1>3, Types DEF IInv
  <2>3. /\ p1 \in PortType /\ p1.openflag /\ ~p1.errorflag
        /\ p1.rcv_fc_chr = "none" /\ p1.rcv_count = p.rcv_count
        /\ p1.rcv_stopped = p.rcv_stopped /\ p1.snd_count = p.snd_count - 1
    BY <1>1, <1>3, <2>2 DEF PortType
  <2>4. IF p.snd_count = snd_bufsz THEN Signal("snd", p1, task)
                                   ELSE p' = p1 /\ UNCHANGED << sem, task >>
    BY <2>1 DEF take_from_buffer
  <2> HIDE DEF p1
  <2>5. /\ p' = p1 /\ task' \in [Task -> CallType] /\ CallsInv'
        /\ sem' \in [{"snd", "rcv"} -> {0, 1}] /\ UnitInv'
    BY <1>1, <1>3, <2>3, <2>4, TakeKeepsUnits
  <2>6. uart' \in [snd_cbflg : BOOLEAN, tx_fifo_sem : Nat]
    BY <1>1, <2>1 DEF IInv, TypeInv
  <2>7. QED
    BY <1>1, <1>3, <2>1, <2>3, <2>5, <2>6
       DEF IInv, TypeInv, ClosedInv, FlowExact, PendingInv
<1>4. CASE p.rcv_fc_chr = "none" /\ ~(~p.snd_stopped /\ p.snd_count > 0)
  <2>1. /\ uart' = [snd_cbflg |-> FALSE, tx_fifo_sem |-> TxFifo]
        /\ UNCHANGED << p, sem, task, line >>
    BY <1>4 DEF sio_irdy_snd
  <2>2. HasSnd' = HasSnd /\ HasRcv' = HasRcv
    BY <2>1 DEF HasSnd, HasRcv
  <2>3. QED
    BY <1>1, <1>4, <2>1, <2>2, SerialAssumption
       DEF IInv, TypeInv, CallsInv, ClosedInv, UnitInv, FlowExact, PendingInv
<1>5. QED
  BY <1>2, <1>3, <1>4

\* A STOP from the other side.
LEMMA StopPreserves ==
  ASSUME IInv, NEW c \in {"STOP", "START", "other"}, rcv_stop(c) PROVE IInv'
<1>1. p' = [p EXCEPT !.snd_stopped = TRUE] /\ UNCHANGED << sem, uart, task, line >>
  BY DEF rcv_stop
<1>2. /\ p' \in PortType /\ p'.openflag = p.openflag /\ p'.errorflag = p.errorflag
      /\ p'.rcv_fc_chr = p.rcv_fc_chr /\ p'.rcv_count = p.rcv_count
      /\ p'.rcv_stopped = p.rcv_stopped /\ p'.snd_count = p.snd_count
  BY <1>1 DEF IInv, TypeInv, PortType
<1>3. HasSnd' = HasSnd /\ HasRcv' = HasRcv
  BY <1>1 DEF HasSnd, HasRcv
<1>4. QED
  BY <1>1, <1>2, <1>3 DEF IInv, TypeInv, CallsInv, ClosedInv, UnitInv, FlowExact, PendingInv

\* A START from the other side.
LEMMA ResumePreserves ==
  ASSUME IInv, NEW c \in {"STOP", "START", "other"}, rcv_resume(c) PROVE IInv'
<1> DEFINE p1 == [p EXCEPT !.snd_stopped = FALSE]
           p2 == [p1 EXCEPT !.snd_count = @ - 1]
<1>1. p.openflag /\ p \in PortType /\ ~p.errorflag /\ line' = line
  BY DEF rcv_resume, IInv, TypeInv
<1>2. /\ p1 \in PortType /\ p1.openflag /\ ~p1.errorflag
      /\ p1.rcv_fc_chr = p.rcv_fc_chr /\ p1.rcv_count = p.rcv_count
      /\ p1.rcv_stopped = p.rcv_stopped /\ p1.snd_count = p.snd_count
  BY <1>1 DEF PortType
<1>3. uart \in [snd_cbflg : BOOLEAN, tx_fifo_sem : Nat]
  BY DEF IInv, TypeInv
<1> HIDE DEF p1
<1>4. CASE p.snd_count > 0 /\ CanSend
  <2>1. /\ Sent
        /\ IF p.snd_count = snd_bufsz THEN Signal("snd", p2, task)
                                      ELSE p' = p2 /\ UNCHANGED << sem, task >>
    BY <1>4 DEF rcv_resume, p1
  <2>2. p.snd_count - 1 \in 0 .. snd_bufsz
    BY <1>4, Types DEF IInv
  <2>3. /\ p2 \in PortType /\ p2.openflag /\ ~p2.errorflag
        /\ p2.rcv_fc_chr = p.rcv_fc_chr /\ p2.rcv_count = p.rcv_count
        /\ p2.rcv_stopped = p.rcv_stopped /\ p2.snd_count = p.snd_count - 1
    BY <1>2, <2>2 DEF PortType
  <2> HIDE DEF p2
  <2>4. /\ p' = p2 /\ task' \in [Task -> CallType] /\ CallsInv'
        /\ sem' \in [{"snd", "rcv"} -> {0, 1}] /\ UnitInv'
    BY <1>1, <1>4, <2>1, <2>3, TakeKeepsUnits
  <2>5. uart' \in [snd_cbflg : BOOLEAN, tx_fifo_sem : Nat] /\ p.rcv_fc_chr = "none"
    BY <1>3, <1>4, <2>1 DEF Sent, CanSend, IInv, PendingInv
  <2>6. QED
    BY <1>1, <2>3, <2>4, <2>5 DEF IInv, TypeInv, ClosedInv, FlowExact, PendingInv
<1>5. CASE ~(p.snd_count > 0 /\ CanSend)
  <2>1. p' = p1 /\ sem' = sem /\ task' = task /\ (EnableSend \/ uart' = uart)
    BY <1>5 DEF rcv_resume, p1
  <2>2. uart' \in [snd_cbflg : BOOLEAN, tx_fifo_sem : Nat]
        /\ uart'.tx_fifo_sem = uart.tx_fifo_sem
    BY <1>3, <2>1 DEF EnableSend
  <2>3. HasSnd' = HasSnd /\ HasRcv' = HasRcv
    BY <2>1 DEF HasSnd, HasRcv
  <2>4. QED
    BY <1>1, <1>2, <2>1, <2>2, <2>3
       DEF IInv, TypeInv, CallsInv, ClosedInv, UnitInv, FlowExact, PendingInv
<1>6. QED
  BY <1>4, <1>5

\* A character that arrives, with STOP when the buffer gets full.
LEMMA StorePreserves ==
  ASSUME IInv, NEW c \in {"STOP", "START", "other"}, rcv_store(c) PROVE IInv'
<1> DEFINE count == p.rcv_count + 1
           stop  == "FCRCV" \in p.ioctl /\ ~p.rcv_stopped /\ count >= BUFCNT_STOP
           p1    == [p EXCEPT !.rcv_count = count, !.rcv_stopped = @ \/ stop,
                              !.rcv_fc_chr = IF stop THEN Pending("STOP") ELSE @]
<1>1. p.openflag /\ p \in PortType /\ ~p.errorflag /\ p.rcv_count # rcv_bufsz
  BY DEF rcv_store, Stored, IInv, TypeInv
<1>2. count \in 0 .. rcv_bufsz /\ count # 0
  BY <1>1, Types DEF IInv
<1>3. /\ IF stop THEN SendFlowControl("STOP") ELSE UNCHANGED << uart, line >>
      /\ IF p.rcv_count = 0 THEN Signal("rcv", p1, task)
                            ELSE p' = p1 /\ UNCHANGED << sem, task >>
  BY DEF rcv_store
<1>4. /\ p1 \in PortType /\ p1.openflag /\ ~p1.errorflag
      /\ p1.rcv_count = count /\ p1.snd_count = p.snd_count
      /\ uart' \in [snd_cbflg : BOOLEAN, tx_fifo_sem : Nat] /\ line' \in {"START", "STOP"}
      /\ p1.rcv_stopped <=> (IF p1.rcv_fc_chr # "none" THEN p1.rcv_fc_chr ELSE line') = "STOP"
      /\ p1.rcv_fc_chr # "none" => uart'.tx_fifo_sem = 0
  <2>1. CASE stop
    <3>1. /\ uart' \in [snd_cbflg : BOOLEAN, tx_fifo_sem : Nat]
          /\ line' \in {"START", "STOP"}
          /\ Pending("STOP") \in {"none", "START", "STOP"}
          /\ Pending("STOP") # "none" => uart'.tx_fifo_sem = 0
          /\ (IF Pending("STOP") # "none" THEN Pending("STOP") ELSE line') = "STOP"
      BY <1>3, <2>1, FlowControlIsSentOrPending
    <3>2. p1 = [p EXCEPT !.rcv_count = count, !.rcv_stopped = TRUE,
                         !.rcv_fc_chr = Pending("STOP")]
      BY <2>1
    <3>3. /\ p1 \in PortType /\ p1.openflag /\ ~p1.errorflag
          /\ p1.rcv_count = count /\ p1.snd_count = p.snd_count
          /\ p1.rcv_stopped = TRUE /\ p1.rcv_fc_chr = Pending("STOP")
      BY <1>1, <1>2, <3>1, <3>2 DEF PortType
    <3>4. QED
      BY <3>1, <3>3
  <2>2. CASE ~stop
    <3>1. p1 = [p EXCEPT !.rcv_count = count]
      BY <1>1, <2>2 DEF PortType
    <3>2. /\ p1 \in PortType /\ p1.openflag /\ ~p1.errorflag
          /\ p1.rcv_count = count /\ p1.snd_count = p.snd_count
          /\ p1.rcv_stopped = p.rcv_stopped /\ p1.rcv_fc_chr = p.rcv_fc_chr
      BY <1>1, <1>2, <3>1 DEF PortType
    <3>3. uart' = uart /\ line' = line
      BY <1>3, <2>2
    <3>4. QED
      BY <1>1, <3>2, <3>3 DEF IInv, TypeInv, FlowExact, PendingInv
  <2>3. QED
    BY <2>1, <2>2
<1> HIDE DEF p1, stop
<1>5. /\ UnitWith(sem["snd"], SndHolders(task), p.snd_count = snd_bufsz)
      /\ UnitWith(sem["rcv"], RcvHolders(task), p.rcv_count = 0)
  BY <1>1, HoldersAreTasks DEF IInv, UnitInv
<1>6. sem \in [{"snd", "rcv"} -> {0, 1}] /\ task \in [Task -> CallType]
      /\ \A u \in Task : CallOK(task[u])
  BY DEF IInv, TypeInv, CallsInv
<1>7. CASE p.rcv_count = 0
  <2>1. sem["rcv"] = 0 /\ RcvHolders(task) = {}
    BY <1>5, <1>6, <1>7 DEF UnitWith
  <2>2. /\ p' = p1 /\ task' \in [Task -> CallType] /\ \A u \in Task : CallOK(task'[u])
        /\ sem' \in [{"snd", "rcv"} -> {0, 1}]
        /\ \/ /\ sem' = sem
              /\ \E u \in Task : /\ RcvHolders(task') = RcvHolders(task) \cup {u}
                               /\ SndHolders(task') = SndHolders(task)
           \/ task' = task /\ sem' = [sem EXCEPT !["rcv"] = 1]
    <3>1. Signal("rcv", p1, task) /\ TypeInv /\ CallsInv
      BY <1>3, <1>7 DEF IInv
    <3>2. QED
      BY <1>4, <1>6, <2>1, <3>1, SignalPassesUnit
  <2>3. UnitWith(sem'["rcv"], RcvHolders(task'), p1.rcv_count = 0)
    BY <1>2, <1>4, <1>6, <2>1, <2>2 DEF UnitWith
  <2>4. sem'["snd"] = sem["snd"] /\ SndHolders(task') = SndHolders(task)
    BY <1>6, <2>2
  <2>5. UnitInv'
    BY <1>4, <1>5, <2>2, <2>3, <2>4, HoldersAreTasks DEF UnitInv
  <2>6. QED
    BY <1>4, <2>2, <2>5 DEF IInv, TypeInv, CallsInv, ClosedInv, FlowExact, PendingInv
<1>8. CASE p.rcv_count # 0
  <2>1. p' = p1 /\ sem' = sem /\ task' = task
    BY <1>3, <1>8
  <2>2. UnitInv'
    BY <1>2, <1>4, <1>5, <1>6, <1>8, <2>1, HoldersAreTasks DEF UnitInv, UnitWith
  <2>3. QED
    BY <1>4, <1>6, <2>1, <2>2 DEF IInv, TypeInv, CallsInv, ClosedInv, FlowExact, PendingInv
<1>9. QED
  BY <1>7, <1>8

\* Every step keeps the invariant.
LEMMA NextPreserves == IInv /\ [Next]_svars => IInv'
<1> SUFFICES ASSUME IInv, [Next]_svars PROVE IInv'
  OBVIOUS
<1>1. CASE serial_opn_por
  BY <1>1, OpenPreserves
<1>2. CASE Quiet /\ serial_cls_por
  BY <1>2, ClosePreserves
<1>3. CASE \E ioctl \in Ioctl : serial_ctl_por(ioctl)
  BY <1>3, ControlPreserves
<1>4. ASSUME NEW t \in Task, CallNext(t) PROVE IInv'
  BY <1>4, BeginsPreserves, WaitPreserves, WriteCharPreserves, ReadCharPreserves,
     SignalPreserves DEF CallNext
<1>5. CASE \E t \in Task : ~EchoWithUnit(t) /\ rel_wai(t)
  BY <1>5, ReleasePreserves
<1>6. CASE sio_irdy_snd
  BY <1>6, SendReadyPreserves
<1>7. CASE sio_irdy_rcv
  BY <1>7, StopPreserves, ResumePreserves, StorePreserves DEF sio_irdy_rcv
<1>8. CASE UNCHANGED svars
  <2>1. UNCHANGED << p, sem, uart, task, line >>
    BY <1>8 DEF svars
  <2>2. HasSnd' = HasSnd /\ HasRcv' = HasRcv
    BY <2>1 DEF HasSnd, HasRcv
  <2>3. QED
    BY <2>1, <2>2 DEF IInv, TypeInv, CallsInv, ClosedInv, UnitInv, FlowExact, PendingInv
<1>9. QED
  BY <1>1, <1>2, <1>3, <1>4, <1>5, <1>6, <1>7, <1>8 DEF Next

-----------------------------------------------------------------------------
\* Where the unit is, counted.
LEMMA UnitWithCounts ==
  ASSUME NEW count \in {0, 1}, NEW holders, NEW gone \in BOOLEAN,
         UnitWith(count, holders, gone)
  PROVE  count + Cardinality(holders) + One(gone) = 1
<1>1. CASE holders = {}
  BY <1>1, FS_EmptySet DEF UnitWith, One
<1>2. CASE holders # {}
  <2>1. PICK t \in holders : holders = {t}
    BY <1>2 DEF UnitWith
  <2>2. Cardinality(holders) = 1
    BY <2>1, FS_Singleton
  <2>3. count = 0 /\ ~gone
    BY <1>2 DEF UnitWith
  <2>4. QED
    BY <2>2, <2>3 DEF One
<1>3. QED
  BY <1>1, <1>2

\* It holds from the start on.
LEMMA IInvIsInvariant == Spec => []IInv
  BY InitEstablishes, NextPreserves, PTL DEF Spec

\* The one unit of each semaphore is always with the semaphore, with one task, or
\* accounted for by a full send buffer or an empty receive buffer, and no signal
\* is refused: serial_wri_chr, serial_rea_chr and the two callbacks hand it on.
THEOREM Serial_UnitsOK == Spec => []UnitsOK
<1>1. IInv => UnitsOK
  <2> SUFFICES ASSUME IInv PROVE UnitsOK
    OBVIOUS
  <2>1. CASE p.openflag
    <3>1. /\ UnitWith(sem["snd"], HasSnd, p.snd_count = snd_bufsz)
          /\ UnitWith(sem["rcv"], HasRcv, p.rcv_count = 0)
      BY <2>1 DEF IInv, UnitInv
    <3>2. sem["snd"] \in {0, 1} /\ sem["rcv"] \in {0, 1}
      BY Types DEF IInv
    <3>3. (p.snd_count = snd_bufsz) \in BOOLEAN /\ (p.rcv_count = 0) \in BOOLEAN
      OBVIOUS
    <3>4. SndUnitKept
      BY <3>1, <3>2, <3>3, UnitWithCounts DEF SndUnitKept
    <3>5. RcvUnitKept
      BY <3>1, <3>2, <3>3, UnitWithCounts DEF RcvUnitKept
    <3>6. QED
      BY <3>4, <3>5 DEF UnitsOK, IInv
  <2>2. CASE ~p.openflag
    BY <2>2 DEF UnitsOK, RcvUnitKept, IInv
  <2>3. QED
    BY <2>1, <2>2
<1>2. QED
  BY <1>1, IInvIsInvariant, PTL

\* rcv_stopped always says what the other side was told last, or is about to be
\* told when the UART has a place.
THEOREM Serial_FlowExact == Spec => []FlowExact
<1>1. IInv => FlowExact
  BY DEF IInv
<1>2. QED
  BY <1>1, IInvIsInvariant, PTL
=============================================================================
