------------------------------ MODULE DataQueue ------------------------------
(***************************************************************************)
(* Data queues (kernel/dataqueue.c) and the calls of EV3RT that send       *)
(* several data at once (target/ev3_gcc/kernel_mod/src/dataqueue_mod.c).   *)
(* The object d is the queue of the senders, rwait[d] that of the          *)
(* receivers; k.cb[d] is the ring buffer.  winfo holds what a sender sends *)
(* and what a receiver was given.  A slot that was read is emptied: the    *)
(* code leaves a datum there that it does not read again.                  *)
(***************************************************************************)
EXTENDS Dispatcher

CONSTANTS Dtq,      \* the data queues
          rwait,    \* the receivers' wait queue of each
          dtqcnt,   \* the capacity of each, which may be 0
          Data

ASSUME DataQueueAssumption ==
  /\ Dtq \subseteq ComObj
  /\ rwait \in [Dtq -> ComObj \ (Dtq \cup TPriObj)] /\ IsInjective(rwait)
  /\ dtqcnt \in [Dtq -> Nat]
  /\ NoInfo \notin Data

EmptyRing(d) == [count |-> 0, head |-> 0, tail |-> 0,
                 mb |-> [i \in 0 .. dtqcnt[d] - 1 |-> NoInfo]]

idtq == [o \in ComObj |-> IF o \in Dtq THEN EmptyRing(o) ELSE NoInfo]

\* Mutant: the index runs one past the end before it wraps.
advance_late(d, i) == IF i + 1 > dtqcnt[d] THEN 0 ELSE i + 1

advance(d, i) == IF i + 1 >= dtqcnt[d] THEN 0 ELSE i + 1

enqueue_data(b, d, x) ==
  [b EXCEPT !.mb[b.tail] = x, !.count = @ + 1, !.tail = advance(d, @)]

\* Mutant: the oldest datum of a full buffer is overwritten but stays the newest.
force_enqueue_data_keeps_head(b, d, x) ==
  [b EXCEPT !.mb[b.tail] = x, !.tail = advance(d, @),
            !.count = IF @ < dtqcnt[d] THEN @ + 1 ELSE @]

\* When the buffer is full its oldest datum is overwritten.
force_enqueue_data(b, d, x) ==
  IF b.count < dtqcnt[d] THEN enqueue_data(b, d, x)
  ELSE [b EXCEPT !.mb[b.tail] = x, !.tail = advance(d, @), !.head = advance(d, b.tail)]

dequeue_data(b, d) ==
  [b EXCEPT !.mb[b.head] = NoInfo, !.count = @ - 1, !.head = advance(d, @)]

-----------------------------------------------------------------------------
\* The first receiver gets x.
hand_over(k1, d, x) ==
  wait_complete_with(queue_delete_next(k1, rwait[d]), Head(k1.wait_queue[rwait[d]]), x)

\* send_data: the value it returns, then what it does.
CanSend(k1, d) == k1.wait_queue[rwait[d]] # << >> \/ k1.cb[d].count < dtqcnt[d]

send_data(k1, d, x) ==
  IF k1.wait_queue[rwait[d]] # << >> THEN hand_over(k1, d, x)
  ELSE [k1 EXCEPT !.cb[d] = enqueue_data(@, d, x)]

force_send_data(k1, d, x) ==
  IF k1.wait_queue[rwait[d]] # << >> THEN hand_over(k1, d, x)
  ELSE [k1 EXCEPT !.cb[d] = force_enqueue_data(@, d, x)]

\* receive_data: the value it returns, then what it does.
CanReceive(k1, d) == k1.cb[d].count > 0 \/ k1.wait_queue[d] # << >>

\* Mutant: the place that became free is not given to the first sender.
receive_data_leaves_sender(k1, d) ==
  LET k2 == IF k1.cb[d].count > 0 THEN [k1 EXCEPT !.cb[d] = dequeue_data(@, d)] ELSE k1
  IN  IF k1.wait_queue[d] = << >> \/ k1.cb[d].count > 0 THEN k2
      ELSE wait_complete(queue_delete_next(k2, d), Head(k1.wait_queue[d]))

\* The oldest datum is taken and the first sender that waits sends its own,
\* which is the datum taken when nothing is in the buffer.
receive_data(k1, d) ==
  LET sender == Head(k1.wait_queue[d])
      k2 == IF k1.cb[d].count > 0 THEN [k1 EXCEPT !.cb[d] = dequeue_data(@, d)] ELSE k1
      k3 == IF k1.cb[d].count > 0
            THEN [k2 EXCEPT !.cb[d] = enqueue_data(@, d, k1.winfo[sender])] ELSE k2
  IN  IF k1.wait_queue[d] = << >> THEN k2
      ELSE wait_complete(queue_delete_next(k3, d), sender)

-----------------------------------------------------------------------------
\* snd_dtq, psnd_dtq and tsnd_dtq when they need not wait.
psnd_dtq(d, x)  == TaskContext /\ CanSend(k, d) /\ TaskCall(send_data(k, d, x))

ipsnd_dtq(d, x) == IntContext /\ CanSend(k, d) /\ IntCall(send_data(k, d, x))

\* snd_dtq and tsnd_dtq when they wait.
snd_dtq(d, x, timed) ==
  /\ MayWait
  /\ ~CanSend(k, d)
  /\ ~k.waifbd[runtsk]
  /\ WaitCall(wobj_make_wait_with(k, runtsk, d, timed, x))

\* A queue without places is left alone; the code returns E_OK all the same.
fsnd_dtq(d, x)  == TaskContext /\ dtqcnt[d] > 0 /\ TaskCall(force_send_data(k, d, x))

ifsnd_dtq(d, x) == IntContext /\ dtqcnt[d] > 0 /\ IntCall(force_send_data(k, d, x))

\* rcv_dtq, prcv_dtq and trcv_dtq when there is something to receive.
prcv_dtq(d) == TaskContext /\ CanReceive(k, d) /\ TaskCall(receive_data(k, d))

\* rcv_dtq and trcv_dtq when there is nothing: receivers queue by arrival.
rcv_dtq(d, timed) ==
  /\ MayWait
  /\ ~CanReceive(k, d)
  /\ ~k.waifbd[runtsk]
  /\ WaitCall(wobj_make_wait(k, runtsk, rwait[d], timed))

\* Mutant: the space left is not checked for all the data.
HasRoom_for_one(d, n) == k.cb[d].count + 1 <= dtqcnt[d]

\* The condition of psnd_dtq_ndata and ipsnd_dtq_ndata.
HasRoom(d, n) == k.cb[d].count + n <= dtqcnt[d]

\* Their loop; ok is what all the assertions on the way say.
send_all(k1, d, xs) ==
  LET one(acc, x) == IF CanSend(acc.k, d)
                     THEN [acc EXCEPT !.k = send_data(acc.k, d, x)]
                     ELSE [acc EXCEPT !.ok = FALSE]
      sent[n \in 0 .. Len(xs)] == IF n = 0 THEN [k |-> k1, ok |-> TRUE]
                                  ELSE one(sent[n - 1], xs[n])
  IN  sent[Len(xs)]

psnd_dtq_ndata(d, xs) ==
  TaskContext /\ HasRoom(d, Len(xs)) /\ TaskCall(send_all(k, d, xs).k)

ipsnd_dtq_ndata(d, xs) ==
  IntContext /\ HasRoom(d, Len(xs)) /\ IntCall(send_all(k, d, xs).k)

ini_dtq(d) ==
  /\ TaskContext
  /\ LoopCall(k, "init_wait_queue", [NoFrame EXCEPT !.obj = d])

\* The senders are gone: the receivers are next.
ini_dtq_rwait ==
  /\ pc = "init_wait_queue" /\ frame.obj \in Dtq
  /\ k.wait_queue[frame.obj] = << >>
  /\ frame' = [frame EXCEPT !.obj = rwait[frame.obj]]
  /\ UNCHANGED << k, runtsk, pc, flags, reqflg, excpt_nest_count, locked >>

ini_dtq_end ==
  /\ pc = "init_wait_queue"
  /\ \E d \in Dtq : /\ frame.obj = rwait[d]
                    /\ k.wait_queue[frame.obj] = << >>
                    /\ LoopEnd([k EXCEPT !.cb[d] = EmptyRing(d)])

DataQueueNext ==
  \/ \E d \in Dtq :
       \/ \E x \in Data : \/ psnd_dtq(d, x) \/ ipsnd_dtq(d, x)
                          \/ fsnd_dtq(d, x) \/ ifsnd_dtq(d, x)
                          \/ \E timed \in BOOLEAN : snd_dtq(d, x, timed)
                          \/ \E y \in Data : \/ psnd_dtq_ndata(d, << x, y >>)
                                             \/ ipsnd_dtq_ndata(d, << x, y >>)
       \/ prcv_dtq(d)
       \/ \E timed \in BOOLEAN : rcv_dtq(d, timed)
       \/ ini_dtq(d)
  \/ init_wait_queue
  \/ ini_dtq_rwait \/ ini_dtq_end

-----------------------------------------------------------------------------
\* The count and the two indices of every ring agree, and a slot holds a datum
\* exactly when it lies between them.
RingOK ==
  \A d \in Dtq : LET b == k.cb[d]
                     used == {(b.head + i) % dtqcnt[d] : i \in 0 .. b.count - 1}
                 IN  /\ b.count \in 0 .. dtqcnt[d]
                     /\ dtqcnt[d] > 0 => /\ b.head \in DOMAIN b.mb
                                         /\ b.tail = (b.head + b.count) % dtqcnt[d]
                     /\ \A i \in DOMAIN b.mb : b.mb[i] \in Data <=> i \in used

\* Nobody waits to receive while there is a datum, in the buffer or with a
\* sender, and nobody waits to send while there is room.
NoNeedlessWait ==
  \A d \in Dtq :
    /\ k.wait_queue[rwait[d]] # << >> => k.cb[d].count = 0 /\ k.wait_queue[d] = << >>
    /\ k.wait_queue[d] # << >> => k.cb[d].count = dtqcnt[d]

\* assert(ret) in psnd_dtq_ndata and ipsnd_dtq_ndata: a send that had room for
\* all data never stops half way, whether receivers wait or not.
NdataNeverFails ==
  \A d \in Dtq, x, y \in Data :
    HasRoom(d, 2) => send_all(k, d, << x, y >>).ok

\* Seen from outside, the rings and the WINFOs of the senders are channels.
Channel == INSTANCE DataChannel WITH
  Chan     <- Dtq,
  capacity <- dtqcnt,
  buffer   <- [d \in Dtq |-> [i \in 1 .. k.cb[d].count |->
                 k.cb[d].mb[(k.cb[d].head + i - 1) % dtqcnt[d]]]],
  pending  <- [d \in Dtq |-> [i \in DOMAIN k.wait_queue[d] |->
                 k.winfo[k.wait_queue[d][i]]]]

ImplementsChannel == Channel!Spec
=============================================================================
