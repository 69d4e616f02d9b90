-------------------------------- MODULE Serial --------------------------------
(***************************************************************************)
(* The serial interface driver (syssvc/serial.c) over the UART of the      *)
(* target (target/ev3_gcc/target_serial.c), for one port.                  *)
(*                                                                         *)
(* Tasks write and read character by character; the callbacks run in the   *)
(* UART's interrupt.  Two semaphores of one unit, as module Semaphore      *)
(* shows them to behave, keep the buffers: the unit of snd is with the     *)
(* semaphore, with the task that writes, or, while the send buffer is      *)
(* full, with nobody; that of rcv likewise while the receive buffer is     *)
(* empty.  A step is what happens under one CPU lock, one call of a        *)
(* semaphore or one callback.  Of characters in the buffers only their     *)
(* number is kept; a newline is two characters to send (CR and LF).        *)
(***************************************************************************)
EXTENDS Naturals, FiniteSets

CONSTANTS Task,
          snd_bufsz, rcv_bufsz,   \* sizes of the buffers
          TxFifo,                 \* places of the UART's FIFO
          MaxLen,                 \* bound of what one call writes or reads
          Ioctl                   \* settings: sets of "ECHO", "FCSND", "FCRCV", "FCANY"

ASSUME SerialAssumption ==
  /\ snd_bufsz \in Nat \ {0} /\ rcv_bufsz \in Nat \ {0}
  /\ TxFifo \in Nat \ {0} /\ MaxLen \in Nat \ {0}
  /\ Ioctl \subseteq SUBSET {"ECHO", "FCSND", "FCRCV", "FCANY"}

VARIABLES
  p,       \* the SPCB: openflag, errorflag, ioctl, rcv_count, rcv_fc_chr,
           \* rcv_stopped, snd_count, snd_stopped
  sem,     \* the counts of the semaphores "snd" and "rcv"
  uart,    \* snd_cbflg and tx_fifo_sem of the UART driver
  task,    \* where each task is in its call
  line     \* history: the last of START and STOP sent since the port was opened

svars == << p, sem, uart, task, line >>

BUFCNT_STOP  == (rcv_bufsz * 3) \div 4
BUFCNT_START == rcv_bufsz \div 2

(***************************************************************************)
(* call is "wri" (serial_wri_dat) or "rea" (serial_rea_dat), sem is the    *)
(* semaphore it works with ("snd" in "rea" is the echo), and at says what  *)
(* it does next: "wai" wai_sem, "slp" nothing, it waits, "chr" write or    *)
(* read a character, "sig" sig_sem.  left and echo count the characters    *)
(* that are left; empty is the local variable buffer_empty.                *)
(***************************************************************************)
NoCall == [call |-> "none", at |-> "none", sem |-> "none",
           left |-> 0, echo |-> 0, empty |-> FALSE]

Closed == [openflag |-> FALSE, errorflag |-> FALSE, ioctl |-> {},
           rcv_count |-> 0, rcv_fc_chr |-> "none", rcv_stopped |-> FALSE,
           snd_count |-> 0, snd_stopped |-> FALSE]

ini_sems == [s \in {"snd", "rcv"} |-> IF s = "snd" THEN 1 ELSE 0]

Init == /\ p = Closed
        /\ sem = ini_sems
        /\ uart = [snd_cbflg |-> FALSE, tx_fifo_sem |-> 0]
        /\ task = [t \in Task |-> NoCall]
        /\ line = "START"

Usable == p.openflag /\ ~p.errorflag

-----------------------------------------------------------------------------
\* serial_snd_chr succeeds when the UART has a place; otherwise it enables the
\* callback for the time when it has.
CanSend == uart.tx_fifo_sem > 0

Sent       == uart' = [uart EXCEPT !.tx_fifo_sem = @ - 1]
EnableSend == uart' = [uart EXCEPT !.snd_cbflg = TRUE]

Sleepers(s) == {t \in Task : task[t].at = "slp" /\ task[t].sem = s}

\* sig_sem and isig_sem: a waiter gets the unit, or the semaphore; E_QOVR sets
\* the error flag.  p1 and task1 are the state that the caller leaves.
Signal(s, p1, task1) ==
  IF Sleepers(s) # {}
  THEN /\ \E t \in Sleepers(s) : task' = [task1 EXCEPT ![t].at = "chr"]
       /\ p' = p1 /\ UNCHANGED sem
  ELSE /\ task' = task1
       /\ p' = [p1 EXCEPT !.errorflag = @ \/ sem[s] = 1]
       /\ sem' = [sem EXCEPT ![s] = 1]

-----------------------------------------------------------------------------
\* The settings of a port that has been opened.
Default == {"ECHO", "FCSND", "FCRCV"}

serial_opn_por ==
  /\ ~p.openflag
  /\ p' = [Closed EXCEPT !.openflag = TRUE, !.ioctl = Default]
  /\ uart' = [snd_cbflg |-> FALSE, tx_fifo_sem |-> 0]
  /\ line' = "START"
  /\ UNCHANGED << sem, task >>

\* Who waits is told E_DLT.
serial_cls_por ==
  /\ p.openflag
  /\ p' = [p EXCEPT !.openflag = FALSE]
  /\ sem' = ini_sems
  /\ task' = [t \in Task |-> IF task[t].at = "slp" THEN NoCall ELSE task[t]]
  /\ UNCHANGED << uart, line >>

serial_ctl_por(ioctl) ==
  /\ Usable
  /\ p' = [p EXCEPT !.ioctl = ioctl]
  /\ UNCHANGED << sem, uart, task, line >>

Begins(t, call, s, n) ==
  /\ task[t] = NoCall /\ Usable
  /\ task' = [task EXCEPT ![t] = [NoCall EXCEPT !.call = call, !.at = "wai",
                                                !.sem = s, !.left = n]]
  /\ UNCHANGED << p, sem, uart, line >>

serial_wri_dat(t, n) == Begins(t, "wri", "snd", n)
serial_rea_dat(t, n) == Begins(t, "rea", "rcv", n)

wai_sem(t) ==
  /\ task[t].at = "wai"
  /\ LET s == task[t].sem
     IN  /\ task' = [task EXCEPT ![t].at = IF sem[s] > 0 THEN "chr" ELSE "slp"]
         /\ sem' = [sem EXCEPT ![s] = 0]
  /\ UNCHANGED << p, uart, line >>

\* The wait is released by another task: every caller returns at once.
rel_wai(t) ==
  /\ task[t].at = "slp"
  /\ task' = [task EXCEPT ![t] = NoCall]
  /\ UNCHANGED << p, sem, uart, line >>

-----------------------------------------------------------------------------
\* The loop of serial_rea_dat after a character and its echo.
ReadOn(r) ==
  IF r.left > 0 THEN [r EXCEPT !.sem = "rcv", !.at = IF r.empty THEN "wai" ELSE "chr"]
  ELSE IF r.empty THEN NoCall ELSE [r EXCEPT !.sem = "rcv", !.at = "sig"]

\* Mutant: the semaphore is returned although the buffer is full.
AfterWrite_signals_full(r, buffer_full) ==
  LET r1   == IF r.call = "wri" THEN [r EXCEPT !.left = @ - 1] ELSE [r EXCEPT !.echo = @ - 1]
      more == IF r.call = "wri" THEN r1.left > 0 ELSE r1.echo > 0
  IN  IF more THEN [r1 EXCEPT !.at = IF buffer_full THEN "wai" ELSE "chr"]
      ELSE [r1 EXCEPT !.at = "sig"]

\* The loops of serial_wri_dat and of the echo after a character: whoever made
\* the buffer full has no unit any more.
AfterWrite(r, buffer_full) ==
  LET r1   == IF r.call = "wri" THEN [r EXCEPT !.left = @ - 1] ELSE [r EXCEPT !.echo = @ - 1]
      more == IF r.call = "wri" THEN r1.left > 0 ELSE r1.echo > 0
  IN  IF more THEN [r1 EXCEPT !.at = IF buffer_full THEN "wai" ELSE "chr"]
      ELSE IF ~buffer_full THEN [r1 EXCEPT !.at = "sig"]
      ELSE IF r.call = "wri" THEN NoCall ELSE ReadOn(r1)

serial_wri_chr(t) ==
  /\ task[t].at = "chr" /\ task[t].sem = "snd"
  /\ LET direct == p.snd_count = 0 /\ ~p.snd_stopped
     IN  IF direct /\ CanSend
         THEN /\ Sent
              /\ task' = [task EXCEPT ![t] = AfterWrite(@, FALSE)]
              /\ UNCHANGED p
         ELSE /\ IF direct THEN EnableSend ELSE UNCHANGED uart
              /\ p' = [p EXCEPT !.snd_count = @ + 1]
              /\ task' = [task EXCEPT ![t] = AfterWrite(@, p'.snd_count = snd_bufsz)]
  /\ UNCHANGED << sem, line >>

\* START or STOP goes to the UART, or is left to the callback.
SendFlowControl(c) ==
  IF CanSend THEN Sent /\ line' = c ELSE EnableSend /\ UNCHANGED line

\* Mutant: a STOP that could not be sent is forgotten, but not taken back.
Pending_keeps(c) == IF CanSend \/ p.rcv_fc_chr # "none" THEN p.rcv_fc_chr ELSE c

\* The new value of rcv_fc_chr.
Pending(c) == IF CanSend THEN p.rcv_fc_chr ELSE c

\* A newline is echoed as two characters.
serial_rea_chr(t) ==
  /\ task[t].at = "chr" /\ task[t].sem = "rcv"
  /\ LET count == p.rcv_count - 1
         r     == [task[t] EXCEPT !.left = @ - 1, !.empty = count = 0]
     IN  /\ IF p.rcv_stopped /\ count <= BUFCNT_START
            THEN /\ SendFlowControl("START")
                 /\ p' = [p EXCEPT !.rcv_count = count, !.rcv_stopped = FALSE,
                                   !.rcv_fc_chr = Pending("START")]
            ELSE /\ p' = [p EXCEPT !.rcv_count = count]
                 /\ UNCHANGED << uart, line >>
         /\ \E n \in 1 .. 2 :
              task' = [task EXCEPT ![t] =
                         IF "ECHO" \in p.ioctl
                         THEN [r EXCEPT !.sem = "snd", !.at = "wai", !.echo = n]
                         ELSE ReadOn(r)]
  /\ UNCHANGED sem

sig_sem(t) ==
  /\ task[t].at = "sig"
  /\ LET r == task[t]
     IN  Signal(r.sem, p, [task EXCEPT ![t] = IF r.call = "rea" /\ r.sem = "snd"
                                              THEN ReadOn(r) ELSE NoCall])
  /\ UNCHANGED << uart, line >>

-----------------------------------------------------------------------------
\* Mutant: the count is tested after it has been decremented.
take_from_buffer_late ==
  LET p1 == [p EXCEPT !.snd_count = @ - 1]
  IN  IF p1.snd_count = snd_bufsz THEN Signal("snd", p1, task)
      ELSE p' = p1 /\ UNCHANGED << sem, task >>

\* A character leaves the send buffer; if that was full, a writer may go on.
take_from_buffer ==
  LET p1 == [p EXCEPT !.snd_count = @ - 1]
  IN  IF p.snd_count = snd_bufsz THEN Signal("snd", p1, task)
      ELSE p' = p1 /\ UNCHANGED << sem, task >>

\* uart_sio_isr calls it when the FIFO is empty and the callback enabled.
sio_irdy_snd ==
  /\ p.openflag /\ uart.snd_cbflg
  /\ IF p.rcv_fc_chr # "none"
     THEN /\ uart' = [uart EXCEPT !.tx_fifo_sem = TxFifo - 1]
          /\ line' = p.rcv_fc_chr
          /\ p' = [p EXCEPT !.rcv_fc_chr = "none"]
          /\ UNCHANGED << sem, task >>
     ELSE IF ~p.snd_stopped /\ p.snd_count > 0
     THEN /\ uart' = [uart EXCEPT !.tx_fifo_sem = TxFifo - 1]
          /\ take_from_buffer
          /\ UNCHANGED line
     ELSE /\ uart' = [snd_cbflg |-> FALSE, tx_fifo_sem |-> TxFifo]
          /\ UNCHANGED << p, sem, task, line >>

\* sio_irdy_rcv: the branches of the chain of conditions, for a character c
\* that is "STOP", "START" or "other".
Stops(c)   == "FCSND" \in p.ioctl /\ c = "STOP"
Resumes(c) == ~Stops(c) /\ p.snd_stopped /\ (c = "START" \/ "FCANY" \in p.ioctl)
Stored(c)  == /\ ~Stops(c) /\ ~Resumes(c)
              /\ ~("FCSND" \in p.ioctl /\ c = "START")
              /\ p.rcv_count # rcv_bufsz

rcv_stop(c) ==
  /\ p.openflag /\ Stops(c)
  /\ p' = [p EXCEPT !.snd_stopped = TRUE]
  /\ UNCHANGED << sem, uart, task, line >>

rcv_resume(c) ==
  /\ p.openflag /\ Resumes(c)
  /\ LET p1 == [p EXCEPT !.snd_stopped = FALSE]
     IN  IF p.snd_count > 0 /\ CanSend
         THEN /\ Sent
              /\ IF p.snd_count = snd_bufsz
                 THEN Signal("snd", [p1 EXCEPT !.snd_count = @ - 1], task)
                 ELSE p' = [p1 EXCEPT !.snd_count = @ - 1] /\ UNCHANGED << sem, task >>
         ELSE /\ IF p.snd_count > 0 THEN EnableSend ELSE UNCHANGED uart
              /\ p' = p1 /\ UNCHANGED << sem, task >>
  /\ UNCHANGED line

rcv_store(c) ==
  /\ p.openflag /\ Stored(c)
  /\ LET count == p.rcv_count + 1
         stop  == "FCRCV" \in p.ioctl /\ ~p.rcv_stopped /\ count >= BUFCNT_STOP
         p1    == [p EXCEPT !.rcv_count = count, !.rcv_stopped = @ \/ stop,
                            !.rcv_fc_chr = IF stop THEN Pending("STOP") ELSE @]
     IN  /\ IF stop THEN SendFlowControl("STOP") ELSE UNCHANGED << uart, line >>
         /\ IF p.rcv_count = 0 THEN Signal("rcv", p1, task)
            ELSE p' = p1 /\ UNCHANGED << sem, task >>

sio_irdy_rcv == \E c \in {"STOP", "START", "other"} :
                  rcv_stop(c) \/ rcv_resume(c) \/ rcv_store(c)

CallNext(t) ==
  \/ \E n \in 1 .. MaxLen : serial_wri_dat(t, n) \/ serial_rea_dat(t, n)
  \/ wai_sem(t) \/ serial_wri_chr(t) \/ serial_rea_chr(t) \/ sig_sem(t)

-----------------------------------------------------------------------------
(***************************************************************************)
(* How the port is used: it is closed only when no task is in a call, but  *)
(* for those that wait, and no reader is released that has the unit of rcv *)
(* while it waits to echo (serial_rea_dat would return with it).           *)
(***************************************************************************)
Quiet == \A t \in Task : task[t].at \in {"none", "slp"}

EchoWithUnit(t) == task[t].call = "rea" /\ task[t].sem = "snd" /\ ~task[t].empty

Next == \/ serial_opn_por
        \/ Quiet /\ serial_cls_por
        \/ \E ioctl \in Ioctl : serial_ctl_por(ioctl)
        \/ \E t \in Task : CallNext(t)
        \/ \E t \in Task : ~EchoWithUnit(t) /\ rel_wai(t)
        \/ sio_irdy_snd \/ sio_irdy_rcv

Spec == Init /\ [][Next]_svars

-----------------------------------------------------------------------------
\* The tasks that have the unit of a semaphore.
HasSnd == {t \in Task : task[t].sem = "snd" /\ task[t].at \in {"chr", "sig"}}
HasRcv == {t \in Task : task[t].call = "rea" /\
                        IF task[t].sem = "rcv" THEN task[t].at \in {"chr", "sig"}
                        ELSE ~task[t].empty}

One(b) == IF b THEN 1 ELSE 0

\* The one unit of snd is with its semaphore, or with one writer, or the send
\* buffer is full: no two tasks write at a time, none writes into a full buffer,
\* and none waits while there is room and nobody writes.
SndUnitKept == sem["snd"] + Cardinality(HasSnd) + One(p.snd_count = snd_bufsz) = 1

\* The one unit of rcv is with its semaphore, or with one reader, or the receive
\* buffer is empty: no two tasks read at a time, none reads from an empty buffer,
\* and none waits while there is something to read and nobody reads.
RcvUnitKept ==
  p.openflag => sem["rcv"] + Cardinality(HasRcv) + One(p.rcv_count = 0) = 1

\* Both, and no signal is ever refused.
UnitsOK == /\ p.openflag => SndUnitKept
           /\ RcvUnitKept
           /\ ~p.errorflag

\* rcv_stopped says that the other side has been told to stop, or is about to be,
\* whatever the order of readers, receptions and a START or STOP that had to wait.
FlowExact ==
  p.openflag =>
    (p.rcv_stopped <=> (IF p.rcv_fc_chr # "none" THEN p.rcv_fc_chr ELSE line) = "STOP")

\* The callback is disabled only when there is nothing to send (as the comment
\* where it is disabled says), or sending is stopped.
CallbackWhileToSend ==
  p.openflag /\ p.snd_count > 0 /\ ~p.snd_stopped => uart.snd_cbflg
=============================================================================
