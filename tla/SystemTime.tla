----------------------------- MODULE SystemTime -----------------------------
(***************************************************************************)
(* The timer interrupt and the handlers it calls: signal_time              *)
(* (kernel/time_event.c) over the heap of module TimeEvent, with cyclic    *)
(* handlers (cyclic.c), alarm handlers (alarm.c) and the timeouts of tasks *)
(* (wait.c, wait.h) as its events.                                         *)
(*                                                                         *)
(* signal_time holds the CPU lock except while a callback runs (phase      *)
(* "callback"), where the handler itself and interrupts of a higher        *)
(* priority make their calls; tasks run between ticks (phase "idle") only. *)
(***************************************************************************)
EXTENDS TimeEvent

CONSTANTS Cyc, Alm, Tmo,    \* the events: cyclic handlers, alarms, timeouts
          cyctim, cycphs,   \* period and phase of each cyclic handler
          StaCyc,           \* those with attribute TA_STA, in the order of their numbers
          TMAX_RELTIM,      \* the longest relative time
          NoTicks           \* of an event that is not registered

ASSUME SystemTimeAssumption ==
  /\ Event = Cyc \cup Alm \cup Tmo
  /\ Cyc \cap Alm = {} /\ Cyc \cap Tmo = {} /\ Alm \cap Tmo = {}
  /\ StaCyc \in Seq(Cyc) /\ \A m, n \in DOMAIN StaCyc : StaCyc[m] = StaCyc[n] => m = n
  /\ \A c \in Cyc : cyctim[c] \in 1 .. TMAX_RELTIM /\ cycphs[c] \in 0 .. TMAX_RELTIM
  /\ TMAX_RELTIM \in Nat \ {0} /\ 2 * (TMAX_RELTIM + 1) <= EVTTIM_MOD   \* LONG_MAX and 2^32
  /\ NoTicks \notin Nat

VARIABLES h,          \* the heap and the system time
          phase,      \* of signal_time: "idle", "loop", "callback"
          cycsta,     \* the cyclic handlers that are started
          evttim,     \* when each goes off next
          almsta,     \* the alarms that are started
          asked       \* history: the relative time each event was registered for;
                      \* NoTicks if there was none yet, or it was due at boot
tvars == << h, phase, cycsta, evttim, almsta, asked >>

RELTIM == 0 .. TMAX_RELTIM

\* The heap when initialize_cyclic has enqueued the handlers with TA_STA.
BootHeap ==
  LET boot[n \in 0 .. Len(StaCyc)] ==
        IF n = 0 THEN InitHeap ELSE tmevtb_insert(boot[n - 1], StaCyc[n], cycphs[StaCyc[n]])
  IN  boot[Len(StaCyc)]

TimeInit ==
  /\ h = BootHeap
  /\ phase = "idle"
  /\ cycsta = {StaCyc[n] : n \in DOMAIN StaCyc}
  /\ evttim = [c \in Cyc |-> cycphs[c]]
  /\ almsta = {}
  /\ asked = [e \in Event |-> IF e \in cycsta /\ cycphs[e] # 0 THEN cycphs[e] ELSE NoTicks]

-----------------------------------------------------------------------------
TickStart ==
  /\ phase = "idle" /\ phase' = "loop"
  /\ h' = advance_time(h)
  /\ UNCHANGED << cycsta, evttim, almsta, asked >>

\* One turn of the loop of signal_time, up to where the callback opens the
\* interrupts: the rest of wait_tmout, call_cychdr and call_almhdr is CallbackEnd.
DueEvent(e) == phase = "loop" /\ SomeEventDue(h) /\ h.node[1].tmevtb = e /\ phase' = "callback"

\* Mutant: the period starts anew at the tick that serves the handler.
call_cychdr_restarts(c) ==
  /\ DueEvent(c)
  /\ h' = tmevtb_enqueue(tmevtb_delete_top(h), c, cyctim[c])
  /\ evttim' = [evttim EXCEPT ![c] = Plus(base_time(h), cyctim[c])]
  /\ asked' = [asked EXCEPT ![c] = cyctim[c]]
  /\ UNCHANGED << cycsta, almsta >>

call_cychdr(c) ==
  LET next == Plus(evttim[c], cyctim[c])
  IN  /\ DueEvent(c)
      /\ h' = tmevtb_insert(tmevtb_delete_top(h), c, next)
      /\ evttim' = [evttim EXCEPT ![c] = next]
      /\ asked' = [asked EXCEPT ![c] = cyctim[c]]
      /\ UNCHANGED << cycsta, almsta >>

\* Mutant: the alarm stays started.
call_almhdr_stays(a) ==
  /\ DueEvent(a)
  /\ h' = tmevtb_delete_top(h)
  /\ UNCHANGED << cycsta, evttim, almsta, asked >>

call_almhdr(a) ==
  /\ DueEvent(a)
  /\ h' = tmevtb_delete_top(h)
  /\ almsta' = almsta \ {a}
  /\ UNCHANGED << cycsta, evttim, asked >>

wait_tmout(t) ==
  /\ DueEvent(t)
  /\ h' = tmevtb_delete_top(h)
  /\ UNCHANGED << cycsta, evttim, almsta, asked >>

CallbackEnd ==
  /\ phase = "callback" /\ phase' = "loop"
  /\ UNCHANGED << h, cycsta, evttim, almsta, asked >>

TickEnd ==
  /\ phase = "loop" /\ ~SomeEventDue(h) /\ phase' = "idle"
  /\ h' = end_of_tick(h)
  /\ UNCHANGED << cycsta, evttim, almsta, asked >>

-----------------------------------------------------------------------------
InTask == phase = "idle"
InTaskOrHandler == phase # "loop"

\* The heap without e, if it is there.
Without(e, started) == IF started THEN tmevtb_delete(h, e) ELSE h

sta_cyc(c) ==
  /\ InTask
  /\ h' = tmevtb_enqueue(Without(c, c \in cycsta), c, cycphs[c])
  /\ evttim' = [evttim EXCEPT ![c] = Plus(base_time(h), cycphs[c])]
  /\ cycsta' = cycsta \cup {c}
  /\ asked' = [asked EXCEPT ![c] = cycphs[c]]
  /\ UNCHANGED << phase, almsta >>

stp_cyc(c) ==
  /\ InTask
  /\ h' = Without(c, c \in cycsta) /\ cycsta' = cycsta \ {c}
  /\ UNCHANGED << phase, evttim, almsta, asked >>

\* sta_alm in a task, ista_alm in a handler.
sta_alm(a, almtim) ==
  /\ InTaskOrHandler
  /\ h' = tmevtb_enqueue(Without(a, a \in almsta), a, almtim)
  /\ almsta' = almsta \cup {a}
  /\ asked' = [asked EXCEPT ![a] = almtim]
  /\ UNCHANGED << phase, cycsta, evttim >>

\* stp_alm and istp_alm.
stp_alm(a) ==
  /\ InTaskOrHandler
  /\ h' = Without(a, a \in almsta) /\ almsta' = almsta \ {a}
  /\ UNCHANGED << phase, cycsta, evttim, asked >>

\* A task that is not waiting enters a wait with a timeout.
make_wait_tmout(t, tmout) ==
  /\ InTask /\ ~Registered(h, t)
  /\ h' = tmevtb_enqueue(h, t, tmout)
  /\ asked' = [asked EXCEPT ![t] = tmout]
  /\ UNCHANGED << phase, cycsta, evttim, almsta >>

\* Its wait is completed or released by a task or a handler.
wait_dequeue_tmevtb(t) ==
  /\ InTaskOrHandler /\ Registered(h, t)
  /\ h' = tmevtb_delete(h, t)
  /\ UNCHANGED << phase, cycsta, evttim, almsta, asked >>

SignalTime == \/ TickStart \/ CallbackEnd \/ TickEnd
              \/ \E c \in Cyc : call_cychdr(c)
              \/ \E a \in Alm : call_almhdr(a)
              \/ \E t \in Tmo : wait_tmout(t)
TimeNext ==
  \/ SignalTime
  \/ \E c \in Cyc : sta_cyc(c) \/ stp_cyc(c)
  \/ \E a \in Alm : stp_alm(a) \/ \E almtim \in RELTIM : sta_alm(a, almtim)
  \/ \E t \in Tmo : wait_dequeue_tmevtb(t) \/ \E tmout \in RELTIM : make_wait_tmout(t, tmout)

TimeSpec == TimeInit /\ [][TimeNext]_tvars

-----------------------------------------------------------------------------
\* Ticks that have passed since current_time was full.
SubTicks == (h.next_subtime + TIC_DENO - 1) % TIC_DENO

\* The ticks until e goes off; 0 when the tick being processed is its tick.
TicksLeft(e) ==
  LET time == h.node[h.index[e]].time
  IN  IF ~Registered(h, e) THEN NoTicks
      ELSE IF ~EVTTIM_LE(h, time, h.current_time)
      THEN Minus(time, h.current_time) * TIC_DENO - SubTicks
      ELSE IF phase = "idle" THEN 1 ELSE 0

\* What ref_cyc and ref_alm report as lefttim is the relative time that would
\* make a handler go off in the same tick.
LefttimExact ==
  phase = "idle" => \A e \in Event : Registered(h, e) =>
                      tmevt_lefttim(h, e) = (TicksLeft(e) - 1) \div TIC_DENO

\* The heap with its modular times and its rounding is a set of countdowns.
Promise == INSTANCE Countdown WITH
  Periodic <- Cyc, MaxTime <- TMAX_RELTIM, TicksPerMs <- TIC_DENO,
  left <- [e \in Event |-> TicksLeft(e)], ticking <- phase # "idle"
ImplementsCountdown == Promise!Spec

\* The heap keeps its order, the events know their nodes, and a handler is in the
\* heap exactly when it is started, in every window that signal_time opens: if
\* not, stopping it would take another event out (tmevtb_delete with the stale
\* index of an event that has gone off).
HeapInv ==
  /\ HeapOK(h)
  /\ \A c \in Cyc : Registered(h, c) <=> c \in cycsta
  /\ \A a \in Alm : Registered(h, a) <=> a \in almsta
=============================================================================
