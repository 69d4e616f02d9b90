------------------------------ MODULE Countdown ------------------------------
(***************************************************************************)
(* What the time event module promises: an event is a countdown of ticks.  *)
(* It fires in the tick in which it reaches 0, not earlier and not later,  *)
(* and no tick ends with an event left that is due.  The countdown for a   *)
(* relative time never ends before that time has passed and takes at most  *)
(* one millisecond more; a periodic event keeps to its period exactly, but *)
(* for the first time if it was to go off at boot.                         *)
(***************************************************************************)
EXTENDS Naturals

CONSTANTS Event,
          Periodic,     \* the events that start again when they fire
          MaxTime,      \* the longest relative time, in milliseconds
          TicksPerMs,
          NoTicks       \* the event is not registered

VARIABLES left,         \* ticks that each event has left
          asked,        \* the relative time each was registered for; NoTicks if
                        \* there was none yet, or the event was due at boot
          ticking       \* a tick is being processed
cvars == << left, asked, ticking >>

Time == 0 .. MaxTime
None == [e \in Event |-> NoTicks]

\* The periodic events may run from the start.
Init == /\ \E S \in SUBSET Periodic, r \in [Periodic -> Time] :
             /\ left = [e \in Event |-> IF e \notin S THEN NoTicks
                                        ELSE IF r[e] = 0 THEN 1 ELSE r[e] * TicksPerMs]
             /\ asked = [e \in Event |-> IF e \in S /\ r[e] # 0 THEN r[e] ELSE NoTicks]
        /\ ticking = FALSE

Tick ==
  /\ ~ticking /\ ticking' = TRUE
  /\ left' = [e \in Event |-> IF left[e] = NoTicks THEN NoTicks ELSE left[e] - 1]
  /\ UNCHANGED asked

\* A countdown that was to end at boot ends one tick later, in the first tick,
\* and the next one starts from boot.  All others start from the tick in which
\* the one before ends.
Lateness(e) == IF asked[e] = NoTicks THEN 1 ELSE 0

Fire(e) ==
  /\ ticking /\ left[e] = 0
  /\ IF e \in Periodic
     THEN \E r \in Time \ {0} :
            /\ asked' = [asked EXCEPT ![e] = r]
            /\ left'  = [left EXCEPT ![e] = r * TicksPerMs - Lateness(e)]
     ELSE left' = [left EXCEPT ![e] = NoTicks] /\ UNCHANGED asked
  /\ UNCHANGED ticking

\* Between ticks and while the handlers of a tick run; periodic events between
\* ticks only.
Start(e) ==
  /\ ~ticking \/ e \notin Periodic
  /\ \E r \in Time, more \in 1 .. TicksPerMs :
       asked' = [asked EXCEPT ![e] = r] /\ left' = [left EXCEPT ![e] = r * TicksPerMs + more]
  /\ UNCHANGED ticking

Stop(e) == left' = [left EXCEPT ![e] = NoTicks] /\ UNCHANGED << asked, ticking >>

TickEnds ==
  /\ ticking /\ ticking' = FALSE
  /\ \A e \in Event : left[e] # 0
  /\ UNCHANGED << left, asked >>

Next == Tick \/ TickEnds \/ \E e \in Event : Fire(e) \/ Start(e) \/ Stop(e)

Spec == Init /\ [][Next]_cvars
=============================================================================
