---------------------------- MODULE PriDataQueue ----------------------------
(***************************************************************************)
(* Priority data queues (kernel/pridataq.c).  The object p is the queue of *)
(* the senders, pdqrwait[p] that of the receivers.  k.cb[p] has a list of  *)
(* the data with the blocks that carry them, the list of the blocks that   *)
(* were given back, and the number of blocks ever used; p_next is the      *)
(* order of the lists and count the length of the first.                   *)
(***************************************************************************)
EXTENDS Dispatcher

CONSTANTS Pdq,      \* the priority data queues
          pdqrwait, \* the receivers' wait queue of each
          pdqcnt,   \* the capacity of each, which may be 0
          maxdpri,  \* the lowest data priority of each
          PriVal    \* what is sent, without its priority

ASSUME PriDataQueueAssumption ==
  /\ Pdq \subseteq ComObj
  /\ pdqrwait \in [Pdq -> ComObj \ (Pdq \cup TPriObj)] /\ IsInjective(pdqrwait)
  /\ pdqcnt \in [Pdq -> Nat] /\ maxdpri \in [Pdq -> Nat \ {0}]

PriData(p) == [data : PriVal, datapri : 1 .. maxdpri[p]]

NoPriData == [list |-> << >>, freelist |-> << >>, unused |-> 0]

ipdq == [o \in ComObj |-> IF o \in Pdq THEN NoPriData ELSE NoInfo]

\* Mutant: a datum goes before those of the same priority.
insert_by_priority_lifo(list, e) ==
  SelectSeq(list, LAMBDA d : d.datapri < e.datapri) \o << e >>
    \o SelectSeq(list, LAMBDA d : d.datapri >= e.datapri)

\* Behind every datum of the same or a higher priority.
insert_by_priority(list, e) ==
  LET below == {i \in DOMAIN list : list[i].datapri > e.datapri}
      at == IF below = {} THEN Len(list) + 1
            ELSE CHOOSE i \in below : \A j \in below : i <= j
  IN  InsertAt(list, at, e)

\* Mutant: the block stays in the list of free blocks.
enqueue_pridata_keeps_free(b, x) ==
  LET blk == IF b.freelist # << >> THEN Head(b.freelist) ELSE b.unused
      e   == [blk |-> blk, data |-> x.data, datapri |-> x.datapri]
  IN  [b EXCEPT !.list = insert_by_priority(@, e),
                !.unused = IF b.freelist # << >> THEN @ ELSE @ + 1]

enqueue_pridata(b, x) ==
  LET blk == IF b.freelist # << >> THEN Head(b.freelist) ELSE b.unused
      e   == [blk |-> blk, data |-> x.data, datapri |-> x.datapri]
  IN  [list     |-> insert_by_priority(b.list, e),
       freelist |-> IF b.freelist # << >> THEN Tail(b.freelist) ELSE b.freelist,
       unused   |-> IF b.freelist # << >> THEN b.unused ELSE b.unused + 1]

dequeue_pridata(b) ==
  [b EXCEPT !.list = Tail(@), !.freelist = << Head(b.list).blk >> \o @]

-----------------------------------------------------------------------------
\* send_pridata: the value it returns, then what it does.
CanSendPri(p) == k.wait_queue[pdqrwait[p]] # << >> \/ Len(k.cb[p].list) < pdqcnt[p]

send_pridata(p, x) ==
  IF k.wait_queue[pdqrwait[p]] # << >>
  THEN wait_complete_with(queue_delete_next(k, pdqrwait[p]),
                          Head(k.wait_queue[pdqrwait[p]]), x)
  ELSE [k EXCEPT !.cb[p] = enqueue_pridata(@, x)]

\* receive_pridata: the value it returns, then what it does.
CanReceivePri(p) == k.cb[p].list # << >> \/ k.wait_queue[p] # << >>

\* Mutant: the place that became free is not given to the first sender.
receive_pridata_leaves_sender(p) ==
  IF k.cb[p].list # << >> THEN [k EXCEPT !.cb[p] = dequeue_pridata(@)]
  ELSE wait_complete(queue_delete_next(k, p), Head(k.wait_queue[p]))

\* The first datum is taken and the first sender that waits sends its own,
\* which is the datum taken when nothing is in the list.
receive_pridata(p) ==
  LET sender == Head(k.wait_queue[p])
      k2 == IF k.cb[p].list = << >> THEN k
            ELSE [k EXCEPT !.cb[p] = dequeue_pridata(@)]
      k3 == IF k.cb[p].list = << >> THEN k2
            ELSE [k2 EXCEPT !.cb[p] = enqueue_pridata(@, k.winfo[sender])]
  IN  IF k.wait_queue[p] = << >> THEN k2
      ELSE wait_complete(queue_delete_next(k3, p), sender)

\* snd_pdq, psnd_pdq and tsnd_pdq when they need not wait.
psnd_pdq(p, x)  == TaskContext /\ CanSendPri(p) /\ TaskCall(send_pridata(p, x))

ipsnd_pdq(p, x) == IntContext /\ CanSendPri(p) /\ IntCall(send_pridata(p, x))

\* snd_pdq and tsnd_pdq when they wait.
snd_pdq(p, x, timed) ==
  /\ MayWait
  /\ ~CanSendPri(p)
  /\ ~k.waifbd[runtsk]
  /\ WaitCall(wobj_make_wait_with(k, runtsk, p, timed, x))

\* rcv_pdq, prcv_pdq and trcv_pdq when there is something to receive.
prcv_pdq(p) == TaskContext /\ CanReceivePri(p) /\ TaskCall(receive_pridata(p))

\* rcv_pdq and trcv_pdq when there is nothing: receivers queue by arrival.
rcv_pdq(p, timed) ==
  /\ MayWait
  /\ ~CanReceivePri(p)
  /\ ~k.waifbd[runtsk]
  /\ WaitCall(wobj_make_wait(k, runtsk, pdqrwait[p], timed))

ini_pdq(p) ==
  /\ TaskContext
  /\ LoopCall(k, "init_wait_queue", [NoFrame EXCEPT !.obj = p])

\* The senders are gone: the receivers are next.
ini_pdq_rwait ==
  /\ pc = "init_wait_queue" /\ frame.obj \in Pdq
  /\ k.wait_queue[frame.obj] = << >>
  /\ frame' = [frame EXCEPT !.obj = pdqrwait[frame.obj]]
  /\ UNCHANGED << k, runtsk, pc, flags, reqflg, excpt_nest_count, locked >>

ini_pdq_end ==
  /\ pc = "init_wait_queue"
  /\ \E p \in Pdq : /\ frame.obj = pdqrwait[p]
                    /\ k.wait_queue[frame.obj] = << >>
                    /\ LoopEnd([k EXCEPT !.cb[p] = NoPriData])

PriDataQueueNext ==
  \/ \E p \in Pdq :
       \/ \E x \in PriData(p) : \/ psnd_pdq(p, x) \/ ipsnd_pdq(p, x)
                                \/ \E timed \in BOOLEAN : snd_pdq(p, x, timed)
       \/ prcv_pdq(p)
       \/ \E timed \in BOOLEAN : rcv_pdq(p, timed)
       \/ ini_pdq(p)
  \/ init_wait_queue
  \/ ini_pdq_rwait \/ ini_pdq_end

-----------------------------------------------------------------------------
\* Every block that was ever used is in one of the two lists, once, so that no
\* datum is written over another, and there are never more than pdqcnt.
PriBlocksOK ==
  \A p \in Pdq :
    LET b == k.cb[p]
        blks == [i \in DOMAIN b.list |-> b.list[i].blk] \o b.freelist
    IN  /\ b.unused <= pdqcnt[p]
        /\ IsInjective(blks) /\ ToSet(blks) = 0 .. b.unused - 1

\* Nobody waits to receive while there is a datum, in the list or with a
\* sender, and nobody waits to send while there is room.
NoNeedlessPriWait ==
  \A p \in Pdq :
    /\ k.wait_queue[pdqrwait[p]] # << >> => k.cb[p].list = << >> /\ k.wait_queue[p] = << >>
    /\ k.wait_queue[p] # << >> => Len(k.cb[p].list) = pdqcnt[p]

\* The data of priority dp, in their order.
OfPriority(p, dp) ==
  LET of == SelectSeq(k.cb[p].list, LAMBDA d : d.datapri = dp)
  IN  [i \in DOMAIN of |-> of[i].data]

\* Data of one priority leave in the order in which they came, and one leaves
\* only when there is none of a higher priority; unless all are discarded.
LeavesInOrder ==
  [][\A p \in Pdq : k'.cb[p] # NoPriData =>
       \A dp \in 1 .. maxdpri[p] :
         LET old == OfPriority(p, dp)
             new == OfPriority(p, dp)'
         IN  \/ IsPrefix(old, new)
             \/ /\ old # << >> /\ IsPrefix(Tail(old), new)
                /\ \A dq \in 1 .. dp - 1 : OfPriority(p, dq) = << >>]_vars
=============================================================================
