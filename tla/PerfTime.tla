------------------------------ MODULE PerfTime ------------------------------
(***************************************************************************)
(* The system time for performance measurement: get_utm                    *)
(* (kernel/time_manage.c) against the timer of the AM1808 and the entry of *)
(* its interrupt (arch/arm_gcc/am1808/chip_timer.h, chip_support.S).       *)
(*                                                                         *)
(* Times are counts of the timer, and a tick is PERIOD counts.  The timer  *)
(* runs on while get_utm, with interrupts locked, reads next_time, the     *)
(* counter, the interrupt request and the counter again.                   *)
(***************************************************************************)
EXTENDS Naturals

CONSTANTS PERIOD,       \* counts in a tick
          MaxNow,       \* bound of the time
          Caller        \* who calls get_utm: some of "task", "handler", "urgent"

ASSUME PerfTimeAssumption ==
  PERIOD \in Nat \ {0} /\ MaxNow \in Nat /\ Caller \subseteq {"task", "handler", "urgent"}

VARIABLES now,          \* the time, as the hardware counts it
          ireq,         \* the timer requests an interrupt (AINTC.SECR1)
          timer,        \* its interrupt: "none", "entered", "served"
          next_time,    \* in counts; signal_time advances it
          get,          \* the call of get_utm in progress, or the last one
          sysutm        \* what get_utm returned last, and when it read the counter
pvars == << now, ireq, timer, next_time, get, sysutm >>

\* Steps of get_utm that are still to do.
Idle == [at |-> "idle", since |-> 0, time |-> 0, clock1 |-> 0, read1 |-> 0, ireq |-> FALSE]

ClockInit ==
  /\ now = 0 /\ ireq = FALSE /\ timer = "none" /\ next_time = PERIOD
  /\ get = Idle /\ sysutm = [value |-> 0, read |-> 0]

\* Timer counts as the hardware shows them.
target_timer_get_current == now % PERIOD

-----------------------------------------------------------------------------
\* The timer counts and requests an interrupt when it starts again from 0.  A
\* tick is served before the next one is due, and a call of get_utm takes less
\* than a tick.
Count ==
  LET wraps == (now + 1) % PERIOD = 0
  IN  /\ now < MaxNow /\ now' = now + 1
      /\ wraps => ~ireq /\ timer # "entered"
      /\ get.at # "idle" => now' - get.since < PERIOD
      /\ ireq' = (ireq \/ wraps)
      /\ UNCHANGED << timer, next_time, get, sysutm >>

\* irq_handler clears the request before it opens the interrupts.
TimerEntry ==
  /\ ireq /\ timer = "none" /\ get.at = "idle"
  /\ ireq' = FALSE /\ timer' = "entered"
  /\ UNCHANGED << now, next_time, get, sysutm >>

signal_time ==
  /\ timer = "entered" /\ get.at = "idle"
  /\ timer' = "served" /\ next_time' = next_time + PERIOD
  /\ UNCHANGED << now, ireq, get, sysutm >>

TimerExit ==
  /\ timer = "served" /\ get.at = "idle" /\ timer' = "none"
  /\ UNCHANGED << now, ireq, next_time, get, sysutm >>

-----------------------------------------------------------------------------
\* When each caller may run: a task outside of the interrupt, a cyclic or alarm
\* handler inside of signal_time, and a handler of a higher priority whenever
\* interrupts are open.
MayCall(c) == CASE c = "task"    -> timer = "none"
                [] c = "handler" -> timer = "served"
                [] c = "urgent"  -> TRUE

ReadTime ==
  /\ get.at = "idle" /\ \E c \in Caller : MayCall(c)
  /\ get' = [Idle EXCEPT !.at = "time", !.since = now, !.time = next_time]
  /\ UNCHANGED << now, ireq, timer, next_time, sysutm >>

ReadClock1 ==
  /\ get.at = "time"
  /\ get' = [get EXCEPT !.at = "clock1", !.clock1 = target_timer_get_current, !.read1 = now]
  /\ UNCHANGED << now, ireq, timer, next_time, sysutm >>

target_timer_probe_int ==
  /\ get.at = "clock1"
  /\ get' = [get EXCEPT !.at = "ireq", !.ireq = ireq]
  /\ UNCHANGED << now, ireq, timer, next_time, sysutm >>

\* Mutant: the counter is not read again.
utime_read_once(clock2) ==
  (IF ~get.ireq THEN get.time - PERIOD ELSE get.time) + get.clock1

\* A request that came after clock1 was read does not belong to it.
utime(clock2) ==
  (IF ~get.ireq \/ get.clock1 > clock2 THEN get.time - PERIOD ELSE get.time) + get.clock1

ReadClock2 ==
  /\ get.at = "ireq"
  /\ sysutm' = [value |-> utime(target_timer_get_current), read |-> get.read1]
  /\ get' = Idle
  /\ UNCHANGED << now, ireq, timer, next_time >>

get_utm == ReadTime \/ ReadClock1 \/ target_timer_probe_int \/ ReadClock2
ClockNext == Count \/ TimerEntry \/ signal_time \/ TimerExit \/ get_utm

-----------------------------------------------------------------------------
\* get_utm returns the time at which it read the counter first, whether or not
\* the tick in between has been requested, accepted or served.
ReadsTheTime == sysutm.value = sysutm.read
=============================================================================
