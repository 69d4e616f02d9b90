---------------------------- MODULE MCSystemTime ----------------------------
(***************************************************************************)
(* Three instances of the kernel's time, chosen at the start:              *)
(*   events  a cyclic handler that is started at boot, an alarm and the    *)
(*           timeout of a task                                             *)
(*   heap    the cyclic handler and five timeouts: with fewer events the   *)
(*           one that fills the hole of a deleted one never has to go up   *)
(*   clock   get_utm against the timer                                     *)
(* Event times are counted modulo 8, two ticks to a millisecond.           *)
(***************************************************************************)
EXTENDS SystemTime, PerfTime
CONSTANTS c1, a1, w1, w2, w3, w4, w5
VARIABLE part

MCStaCyc == << c1 >>
MCcyctim == [c \in {c1} |-> 2]
MCcycphs == [c \in {c1} |-> 0]

EventsNext ==
  \/ SignalTime
  \/ sta_cyc(c1) \/ stp_cyc(c1)
  \/ stp_alm(a1) \/ \E almtim \in RELTIM : sta_alm(a1, almtim)
  \/ wait_dequeue_tmevtb(w1) \/ \E tmout \in RELTIM : make_wait_tmout(w1, tmout)

HeapNext ==
  \/ SignalTime
  \/ \E t \in Tmo : \/ wait_dequeue_tmevtb(t)
                    \/ \E tmout \in RELTIM : make_wait_tmout(t, tmout)

MCInit == TimeInit /\ ClockInit /\ part \in {"events", "heap", "clock"}

MCNext == /\ part' = part
          /\ \/ part = "events" /\ EventsNext /\ UNCHANGED pvars
             \/ part = "heap" /\ HeapNext /\ UNCHANGED pvars
             \/ part = "clock" /\ ClockNext /\ UNCHANGED tvars

MCSpec == MCInit /\ [][MCNext]_<< tvars, pvars, part >>

\* In "heap" one timeout is like another, as long as the events know their nodes.
HeapView ==
  IF part = "heap" /\ HeapOK(h)
  THEN << [h EXCEPT !.index = << >>,
                    !.node = [i \in DOMAIN @ |-> << @[i].time, @[i].tmevtb = c1 >>]],
          phase, evttim, asked[c1] >>
  ELSE << tvars, pvars, part >>
=============================================================================
