# TLA+ models of the EV3RT real-time kernel

The repository is EV3RT: the TOPPERS/HRP2 real-time kernel on LEGO Mindstorms
EV3 (ARM9, one processor), with its device drivers, an application loader and
vendored libraries. What is specific to it, and hard to get right, is the kernel
in `src/hrp2/kernel` with the processor-dependent dispatcher in
`src/hrp2/arch/arm_gcc`. The models are about that. They follow the C and
assembler code function by function; the names of actions and operators are
those of the functions.

## 1. The system

### How it runs

One processor runs one task at a time. `p_runtsk` is the task that runs,
`p_schedtsk` the task that should run. A service call locks the CPU
(`t_lock_cpu`, interrupts off) before its first access to kernel data and
unlocks it at its end, so calls are atomic with respect to each other. What
interleaves is everything else:

* between two calls, and in the idle loop, an interrupt may come; handlers nest;
  a handler makes `i...` calls, which cannot dispatch and set `reqflg` instead;
* a call that has to wait, or that readies a more urgent task, enters the
  dispatcher and returns to its caller when the task is chosen again;
* dispatching may be disabled (`dis_dsp`, a raised interrupt priority mask, the
  CPU lock): then `p_schedtsk` runs ahead of `p_runtsk`;
* the timer handler ends waits whose time is over, and opens the interrupts
  between two of them.

### Components

State, operations, what they interact with, and what makes each correct. The
column *module* names the model; a dash means that there is none yet.

| component (src/hrp2/...) | state | operations | module |
|---|---|---|---|
| ready queue (`kernel/task.c`) | `ready_queue`, `ready_primap`, `p_schedtsk`, `TCB.priority` | make_runnable, make_non_runnable, change_priority, rotate_ready_queue | ReadyQueue, Scheduler, PriorityBitmap |
| task states, waiting (`kernel/wait.c`, `wait.h`, `task.c`) | `tstat`, `WINFO`, wait queues | make_wait, wobj_make_wait, wait_complete, wait_release, wait_tmout, init_wait_queue, make_dormant, make_active | WaitQueue |
| dispatcher, interrupt entry and exit (`arch/arm_gcc/common/core_support.S`, `am1808/chip_support.S`) | `p_runtsk`, `reqflg`, `excpt_nest_count` | dispatch, exit_and_dispatch, idle loop, irq_handler, ret_int | Dispatcher |
| system state (`kernel/sys_manage.c`, `interrupt.c`) | `disdsp`, `ipmflg`, `dspflg` | loc/unl_cpu, dis/ena_dsp, chg_ipm, rot_rdq | Dispatcher |
| task management (`kernel/task_manage.c`) | `actque`, `bpriority` | act, can_act, ext, ter, chg_pri | TaskManage |
| task synchronization (`kernel/task_sync.c`) | `wupque`, `waifbd` | slp, wup, can_wup, rel_wai, sus, rsm, dis/ena_wai, dly | TaskSync |
| semaphores (`kernel/semaphore.c`) | `semcnt`, wait queue | sig, wai, pol, twai, ini | Semaphore |
| mutexes (`kernel/mutex.c`) | `p_loctsk`, `mutex_queue`, wait queue | loc, ploc, tloc, unl, ini, hooks for task management | Mutex |
| event flags (`kernel/eventflag.c`) | `flgptn`, wait queue | set, clr, wai, pol, twai, ini | EventFlag |
| data queues (`kernel/dataqueue.c`, EV3RT `dataqueue_mod.c`) | ring buffer, two wait queues | snd, psnd, tsnd, fsnd, rcv, prcv, trcv, ini, psnd of n data | DataQueue, DataChannel |
| priority data queues (`kernel/pridataq.c`) | sorted list in an array, free list, two wait queues | snd, psnd, tsnd, rcv, prcv, trcv, ini | PriDataQueue |
| memory pools (`kernel/mempfix.c`) | free list, `unused`, wait queue | get, pget, tget, rel, ini | MemPool, MemPoolUse |
| time events (`kernel/time_event.c`, `time_manage.c`) | heap, `current_time`, `min_time` | enqueue, dequeue, signal_time, get_utm | TimeEvent, SystemTime, Countdown, PerfTime |
| cyclic and alarm handlers (`cyclic.c`, `alarm.c`) | `cycsta`, `evttim`; `almsta` | sta, stp, call | SystemTime |
| task exceptions (`task_except.c`, the exits in `core_support.S`) | `texptn`, `enatex`, `svclevel` | ras, dis, ena, call_texrtn, ret_tex, extended service calls | TaskException |
| serial driver (`syssvc/serial.c`) over the UART (`target_serial.c`) | `SPCB`, two semaphores, the FIFO | opn, cls, wri, rea, ctl, the callbacks | Serial |
| overrun handler (`overrun.c`) | left time | sta_ovr, stp_ovr, the timer | - |
| dynamic creation (`acre_`, `del_`, `sac_`) | free lists of control blocks | | - |
| system log (`syslog.c`, `logtask.c`) | log ring | | - |
| EV3RT's own code (`target/ev3_gcc`: dmloader, Bluetooth serial port, drivers) | module table, driver state | | - |
| memory objects, CPU exceptions, extended service calls, startup | tables fixed at build time | | - |
| configurator, samples, vendored code | | | - |

What makes the modelled parts correct, in words:

* *ready queue*: a task is in exactly the list of its current priority iff it
  can run; the bitmap tells the lists that are not empty; `p_schedtsk` is the
  first task of the first list; no operation disturbs the order of the others;
* *waiting*: a task is in the queue of the object that it waits for, once, in
  the order that the object prescribes, even when its priority changes while it
  waits; the queue, the timeout and the state end together;
* *dispatcher*: the task that runs is the one that should, except while
  dispatching is disabled; no request made by a handler is lost;
* *semaphore, mutex*: units and ownership pass directly to the right waiter;
  nobody waits for what is free; the current priority of a task is exactly the
  one that its mutexes imply;
* *task management*: whatever state a task ends in, nothing of it survives;
* *communication*: nobody waits for a condition, a datum, a place or a block that
  is there; data arrive once and in order, by arrival or by priority; a block has
  one holder;
* *time*: an event goes off in the tick in which its time has passed and no
  earlier, also across the wrap-around of the clock and whatever the callbacks
  start and stop;
* *task exceptions*: an exception is taken as soon as its conditions hold and
  never inside an extended service call; the routine puts back what it has
  changed, and makes up for a dispatch that it held back;
* *serial driver*: one writer and one reader at a time, none asleep over room or
  data; what the other side was told by START and STOP is what the driver thinks
  it was told.

### What is hard to test here

`PROJECT.json` lists each hazard at its line. In short: requests for a dispatch
made by nested handlers and in the idle loop; the flag `dspflg`, which caches
two others; shortcuts in five functions that each keep `p_schedtsk` in their own
way; ceilings released in any order, with `chg_pri` in between; tasks that are
terminated in the middle of anything; timeouts that meet releases; changes of
priority of tasks that wait; comments and an assertion that argue that a
dispatch cannot be needed.

## 2. The modules

    ReadyQueue          operators: the ready queue
      WaitQueue         operators: task states, wait queues
        Dispatcher      variables, contexts, dispatcher, interrupts, flags
          Mutex         ... and TaskManage on top of it
          TaskSync
          Semaphore
            Kernel      composes them: Init, Next, properties, fairness
              EventFlag, DataQueue (refines DataChannel), PriDataQueue,
              MemPool with MemPoolUse
                Communication    composes these four with Kernel
              TaskException
      Scheduler         the ready queue on its own, refines Precedence
    PriorityBitmap      the 16-bit word below the ready queue
    TimeEvent           operators: the heap of time events
      SystemTime        signal_time and the handlers, refines Countdown
    PerfTime            get_utm against the timer
    Serial              the serial driver over its UART

The proofs are in modules of their own:

    ReadyQueueProofs    lists, and the functions of task.c
      SchedulerProofs   Scheduler, and PriorityBitmap
      CallProofs        the functions of wait.c, and of task.c that act on states,
                        and what each service call does to correct data
        KernelProofs    every action of Kernel
          TaskExceptionProofs
          CommunicationProofs
    SerialProofs        Serial
    TimeProofs          TimeEvent, SystemTime and PerfTime

* **ReadyQueue** is the record `rq` of the data of `task.c` with one operator per
  function. Lists are sequences (`queue.h` keeps doubly linked rings), the bitmap
  is the set of its bits. The C functions return `dspflg` exactly where they
  assign another task to `p_schedtsk`; `NewSchedule` recovers that by comparing.
* **PriorityBitmap** is the word itself with `bitmap_search`; it justifies
  treating the word as a set and the search as a minimum.
* **WaitQueue** is the record `k` of everything that the CPU lock protects. `wobj`
  stands for the wait factor in `tstat` together with `p_wobjcb`; `winfo` is the
  rest of the `WINFO`: what a task waits with (a pattern, a datum) and in the end
  what it was given; `cb` holds the data of the control blocks of the objects in
  `ComObj`. `tmevtb[t]` says that a timeout is registered; time is abstracted
  here, it may fire at any moment when a handler runs.
* **Dispatcher** holds the variables. `k` is the protected data; `runtsk`,
  `disdsp`, `ipmflg`, `dspflg`, `reqflg`, `excpt_nest_count` are those of the
  code; `locked` is the CPU lock as set by `loc_cpu`; `pc` says where the code
  outside handlers stands: `boot`, `task` (between two calls of the running
  task), `dispatcher` (in `dispatch`, CPU locked), `idle`, and two loops inside
  calls, `release_all` and `init_wait_queue`, whose local variables are `frame`.
  The operators `TaskCall`, `IntCall`, `WaitCall`, `PlainCall` are the frames of
  service calls: how a call ends, given what it did to `k`.
* **TaskManage, TaskSync, Mutex, Semaphore, EventFlag, DataQueue, PriDataQueue,
  MemPool**: one action per service call (a polling call and the immediate
  success of the waiting one are the same action). A call that fails changes
  nothing and is not a step. The ring of a data queue has its `head` and `tail`;
  priority data and memory blocks are kept in arrays with a free list and the
  counter `unused`, as in the code.
* **Kernel** composes tasks, semaphores and mutexes. A task, and a handler, may
  make any call that its context allows, at any moment.
* **MemPoolUse** adds the users of pools: who holds which block.
* **Communication** composes the kernel with all four kinds of objects at once, and
  says what they must do together (`NobodyWaitsInVain`, `BuffersOK`). An object is
  of one kind, so each has its own control block and wait queues.
* **Precedence** is the abstract specification of scheduling: one list in the
  order of precedence and the task at its head. **Scheduler** lets the functions
  of `task.c` be called in any order in which their callers may call them.
* **DataChannel** is the abstract specification of data queues: what was
  accepted, in order, and behind it what the waiting senders have.
* **TimeEvent** is the heap (`tmevtb_heap`, 1-based, each event with its index)
  and the modular clock; `tmevt_up` and `tmevt_down` are recursive functions,
  and what they do to the nodes on their path is `MoveHole`. `BootHeap` is what
  `initialize_cyclic` makes of the empty heap. **SystemTime** is `signal_time` as a loop whose callbacks open the interrupts, with the calls
  that tasks and handlers make to start and stop events. **Countdown** is the
  promise: each event counts ticks down and fires at 0; a periodic one keeps to its
  period exactly, but for the first period of a handler that was due at boot
  (`Lateness`).
* **PerfTime** interleaves the counter, the entry of the timer interrupt,
  `signal_time` and the reads of `get_utm`. Two assumptions of the code are
  assumptions of the model: a tick is served before the next is due, and
  `get_utm` takes less than a tick.
* **TaskException** follows all the places that start an exception routine. The
  variable `tex` holds each task's `enatex`, `texptn`, `svclevel`, the routines
  it is in, and `waifbd` (which here belongs to the calls it is in, since
  `ret_service` and `ret_extsvc` clear it, and so moves out of `k`). Every task
  has a routine; `act_tsk` by tasks is left out. What `dispatch_r` reads in place
  of `svclevel` is any value; `misread` remembers that it decided otherwise
  than `svclevel` says. Causes are told apart by whether they are in the low
  byte, as `ret_service` does.
* **Serial** is one port over the UART. The two semaphores appear as module
  Semaphore shows them to behave: a count, and a waiter that is woken (any of
  them). A step is what happens under one CPU lock. Of characters their number
  is kept; a newline is two. That the transmitter is empty may happen at any
  time. A port is closed only when no task is between two steps of a call,
  though tasks may wait for a semaphore: `ini_sem` is not made for a task that has
  taken a unit, and what happens then is left out.

Each model has *mutants* beside the operators they change (comments starting
with "Mutant:"): plausible mistakes in the same code. For every property of
every passing run at least one breaks it.

## 3. The runs

A run may hold several small instances: the MC module has a variable `part`
that is chosen at the start and says which actions the instance has. All
properties of the run are checked in all of them.

| run | instances (`part`) | properties | states |
|---|---|---|---|
| kernel | *all*: 2 tasks, semaphore, ceiling mutex, 2 interrupt levels, every action but the forbidding of waits; *dispatch*: 3 tasks, 3 levels, all flags; *waits*: all of task_sync.c and task_manage.c | TypeOK, DispatchInv (the right task runs, no request is lost, no dispatch where it is disabled, dspflg exact), RunningIsRunnable, ReadyQueueOK, WaitQueuesOK, NoIdleUnit, OneOwner, PriorityIsCeiling, DormantIsClean, NoSleepOverWakeup | 1.2 million |
| sync | *sem*: 3 tasks, a FIFO and a priority semaphore; *mutex*: 3 tasks, 2 mutexes; *ceiling*: 3 priorities, 2 ceilings, chg_pri anywhere | NoWaitForFreeMutex, CeilingRespected, SyncInv (the data invariants again), GrantByPriority, GrantInOrder | 1.5 million |
| communication | *flag*: 3 flags, 2 bits; *dtq*: a queue of 2 places and one of none; *pdq*: 2 places, 2 priorities; *pool*: 3 blocks; 3 tasks each | NobodyWaitsInVain, BuffersOK, NdataNeverFails (the assertion in dataqueue_mod.c), OneHolder, ReleasedByItsCondition, FirstSatisfiedServed, ImplementsChannel, LeavesInOrder | 0.7 million |
| scheduler | *lists*: 4 tasks, 3 priorities; *word*: all 16 priorities | TypeOK, ReadyQueueOK, SearchFindsHighest, ImplementsPrecedence | 68 000 |
| progress | 2 tasks, semaphore, mutex, under fairness | HighestRuns, TimedWaitEnds, LoopsEnd | |
| system_time | *events*: cyclic handler, alarm, timeout; *heap*: 6 events; *clock*: get_utm | LefttimExact, HeapInv, ReadsTheTime, ImplementsCountdown | 0.24 million |
| task_exception | *calls*: a system and a user task, extended calls; *nesting*: routines that enable exceptions | NothingForgotten, MaskedInServiceCalls, WaitingForbiddenInCallsOnly, NestedOnlyIfEnabled | 3.1 million |
| serial | 2 tasks, send buffer of 2, receive buffer of 4, FIFO of 2 | UnitsOK, FlowExact | 0.17 million |

Four runs expect a violation; each shows where the code does otherwise than one of its
comments or documents says:

* *tex_misread*: `dispatch_r` (core_support.S:154) reads `svclevel` through a register
  that no longer points at the task, so a resumed task may go on without its
  pending exception routine (TakenAtOnce).
* *tex_high_bits*: `ret_service` (core_support.S:1031) loads one byte of the
  exception pattern; causes in its other bits are not seen there (TakenAtOnce).
* *serial_resume*: START after STOP sends one character and leaves the callback
  disabled with the rest in the buffer (serial.c:748, CallbackWhileToSend).
* *serial_release*: a reader whose wait for the echo is released returns with the
  unit of the receive semaphore (serial.c:602, RcvUnitKept). The run *serial* has
  every release but this one.

Bounds. `MaxNest` bounds the depth of interrupts: two levels are needed for a
handler that interrupts a handler (or the idle loop, which counts as one),
three let a handler be interrupted there as well; deeper levels repeat the
same return to a handler. Two tasks show every pairwise interaction; three are
used where the order of two waiters matters to a third. Two priorities separate
"more urgent" from "equal"; three are needed for a ceiling between two others.
The semaphores have maximum 1: zero, full and refused all occur. Rings of two
places are empty, partly filled, full and wrapped. Six events are the fewest with which
the node that fills the hole of a deleted one has to go up. The clock has
`EVTTIM_MOD` = 8 values and relative times up to 3, the proportion of `LONG_MAX`
to 2^32, and wraps all the time; `TIC_DENO` = 2 ticks to a millisecond show the
rounding. In *heap* the view identifies states that differ only in which of the
five timeouts is which: they behave alike. `MaxNow` gives get_utm four ticks. `MaxSvc` = 1
and `MaxTex` = 2 bound the nesting of extended calls and of exception routines.
A receive buffer of four has its STOP mark at 3 and its START mark at 2; a FIFO
of two has the state that matters, a place left after one character.
`MCKernel` and the others say which calls each instance has.

In *communication* dispatching stays enabled and every wait has a timeout, in
*sync* also, but for *ceiling*; the dispatcher's own interplay is the matter of *kernel*.
*task_exception* goes on only as long as `dispatch_r` has decided as `svclevel`
says (CONSTRAINT NotMisread): what follows a wrong decision is of no interest.
Nothing else is bounded: requests are single bits, as in the code.

No deadlock is possible in these runs (TLC checks it): an interrupt can always
come, or time goes on.

Fairness (run *progress*, `Fairness` in Kernel). Of tasks nothing is assumed: a
task may compute for ever. The kernel's own code goes on (weak fairness of
boot, dispatcher, and the loops). `LeaveIdle` is strongly fair: the loop opens
the interrupts for one instruction and tests `reqflg` again and again. A handler
returns even when others interrupt it (strong fairness for each level): the
code has no way to run handlers for ever unless interrupts never pause.
Interrupts keep coming, and the timer finds every timeout that has expired
(strong fairness of `irq_handler` and of `wait_tmout`): the timer is periodic,
and `signal_time` calls back for each event that is due; that it does is what
`ImplementsCountdown` and `HeapInv` say of the heap, which this run leaves out. The CPU lock is left
out of that run, since a task may keep it for ever and then nothing progresses;
the disabling of dispatching is in it, and `HighestRuns` says so.

## 4. Proofs

TLAPS checks the theorems that follow, for any number of tasks, priorities,
objects, interrupt levels and so on. The assumptions are those of the modules:
NULL is no task, the number of priorities is a natural number, initial
priorities and ceilings are priorities, TA_CEILING implies TA_TPRI, semaphores,
mutexes, communication objects and the marks "SLP" and "DLY" are different
things, and semaphores start within their maximum. For the time: cyclic handlers,
alarms and timeouts are different events, periods are positive, and `EVTTIM` has
room for twice the longest relative time and two more (`LONG_MAX` and 2^32, exactly).

| theorem | states |
|---|---|
| `Scheduler_TypeOK`, `Scheduler_ReadyQueueOK` | the ready queue under any sequence of calls of `task.c` |
| `Scheduler_ImplementsPrecedence` | the refinement: lists, bitmap and `p_schedtsk` are one list in the order of precedence |
| `Bitmap_SearchFindsHighest` | the search in the word, for any number of priorities up to 16 |
| `Clock_ReadsTheTime` | what `get_utm` returns, for any length of a tick, unless a handler above the timer's calls it |
| `SystemTime_HeapInv`, `SystemTime_LefttimExact` | the heap, its registered events and what the reference calls report, for any events, periods and `TIC_DENO` |
| `SystemTime_ImplementsCountdown` | the refinement: the heap with its modular clock is a set of countdowns |
| `Kernel_TypeOK`, `_DispatchInv`, `_RunningIsRunnable`, `_ReadyQueueOK`, `_WaitQueuesOK`, `_NoIdleUnit`, `_OneOwner`, `_NoWaitForFreeMutex`, `_PriorityIsCeiling`, `_CeilingRespected`, `_DormantIsClean`, `_NoSleepOverWakeup`, `_SyncInv` | every safety invariant of the runs *kernel* and *sync* |
| `Kernel_GrantByPriority`, `Kernel_GrantInOrder` | their action properties: who is served |
| `TaskException_NothingForgotten`, `_MaskedInServiceCalls`, `_WaitingForbiddenInCallsOnly`, `_NestedOnlyIfEnabled` | the invariants of the run *task_exception* |
| `Serial_UnitsOK`, `Serial_FlowExact` | the invariants of the run *serial* |
| `Communication_NobodyWaitsInVain`, `_BuffersOK`, `_NdataNeverFails`, `_OneHolder` | the invariants of the run *communication* |
| `Communication_ReleasedByItsCondition`, `_FirstSatisfiedServed` | whom an event flag releases, and with what |
| `Communication_ImplementsChannel` | the refinement: a ring and the tasks that wait to send are one channel, for any size of the ring |

### The ready queue

The inductive invariant is type and correctness together. The type is needed for the
lists (a lookup of a priority, the head of a list); the type alone is not
inductive, since `make_non_runnable` takes the head of the first list that the
bitmap announces: that this is a task needs `PrimapExact`, and that the task to
unlink is in its list needs `QueuedWhereRunnable`. `SchedtskIsFirst` needs all
of them. ReadyQueueProofs has one lemma per function of `task.c`; below them are
lemmas about lists (unlinking, adding at either end, rotating: what is in the
list, that nothing is in it twice, and what its head becomes). That the search
finds a minimum (`SearchFindsMinimum`) rests on the well-foundedness of the
natural numbers from the library.

For the refinement `OrderSplit` says what one list contributes: the lists one after
another are those of higher priorities, that list, and those of lower ones. So an
entry put at its end is one put behind all tasks of its priority and higher
(`PutBehind`), and likewise at its front (`PutAhead`) and out of it (`TakeOut`). The
concatenation is a recursive function; that two orders differ in one list only
(`OnePart`) is shown at the least number of lists for which it would fail.
`change_priority` is two such steps through an order without the task.

The word of `PriorityBitmap` is `Word(nonEmpty)`, a sum over sixteen bits in four
groups of four, since `bitmap_search` looks at the groups one by one. Setting and
clearing a bit adds and subtracts a power of two; the test and the search divide
by powers of two, which `Quotient` and `Remainder` reduce to the bits above and
below.

### The kernel

The invariants of Kernel are not inductive one by one, and their conjunction is not
either. `KernelInv` (KernelProofs) is:

* `DataInv(I, C, k, Live)`: the types, `QueuesInv` (the ready queue has the
  runnable tasks, the wait queues have the waiting ones, in order) and
  `ObjectsInv` (units, owners, waiters, ceilings, priorities, dormant tasks,
  sleepers). `Live` is every task but the one that ends while `ext_tsk` or
  `ter_tsk` releases its mutexes: that task is in no queue any more though its
  `tstat` still says otherwise, and its priority no longer follows its mutexes.
* `ContextInv`: the types of the other variables, `DispatchInv` and
  `RunningIsRunnable`.
* `LoopInv`: what holds between the steps of the two loops, where `p_schedtsk` may run
  ahead. `frame.dspreq` remembers each change; `runtsk` is `p_schedtsk` as long
  as none was; the task that ends is not dormant, has no timeout, and is not the
  one that runs unless it is `ext_tsk` that goes on.

Three of these are not among the checked properties and came from proof attempts:
`CeilingsInv` for owners as well as waiters (`chg_pri` computes the priority only
of tasks whose base priority respects the ceilings), `LoopInv`, and the
separation of `Live`. TLC has checked `KernelInv` as an invariant on the instances of
*kernel* and *sync* before it was proved. I and C are the sets of what tasks wait
with and of control blocks: no lemma depends on them, so all of it can be
used for a composition with other objects.

The argument has four layers. The first part of CallProofs has one lemma per function of
`wait.c` and per function of `task.c` that touches states: its effect on the
five fields the queues depend on, and that `QueuesInv` survives, with the set of
live tasks as a parameter (`wait_dequeue_wobj` followed by `make_non_wait` are
correct for "all tasks but t" in between). Its second part raises that to
`DataInv` for what each service call does, with weakened forms (`ObjectsBut`) for
the inside of the mutex functions, in which a mutex is in nobody's list and one
task's priority is out of step. The frame lemmas of KernelProofs (`TaskCallKeeps`,
`WaitCallKeeps`, `IntCallKeeps`, ...) say once what a call's end does with
`p_runtsk`, `dspflg` and `reqflg`; then each action is a short case.

`GrantByPriority` and `GrantInOrder` are about steps. Each operation is shown to
serve only the first of a queue and to keep the order of the rest (`InOrder`);
the two properties follow since queues in the order of priority are sorted by
`WaitQueuesOK`, also after `change_priority` has moved a task.

### Communication

Communication composes all of it; `ComInv` (CommunicationProofs) is inductive. It is
`KernelInv` for some I and C (`KInv`; every call writes other things into `winfo` and
`cb`, and correct data stays correct in larger sets, so no types of control blocks are
needed there) with one part for each kind of object:

* `FlagsOK`: whoever waits for a flag has a pattern that its bits do not satisfy.
* `DtqInv`: `Ring` says which slots of the ring are used, by inequalities instead of
  the modulus; nobody waits to receive unless the queue is empty and without
  senders, or to send unless it is full; and while `ini_dtq` ends the waits of the
  receivers there are no senders (`DtqLoop`). The last part came from a failed attempt: the
  loop over the first wait queue must not leave the second one in contradiction
  to the empty ring.
* `PdqInv`: the same with `Blocks`: the block numbers in the list and in the free list
  are those below `unused`, each once.
* `PoolInv`: the free list, read from its head, is a sequence of different blocks that
  ends (`Chain`) and has all blocks below `unused` that are not allocated; nobody
  waits while `fblkcnt` is not 0; the blocks in the hands of tasks are allocated and
  in different hands (`Holders`).

A part is kept by all steps that do nothing at its objects. `LeavesAlone(O, ...)` says so
of the data: the control blocks in O stay, nobody begins to wait there, and whoever
waits has what he had. It is shown once for all steps of the kernel
(`NextLeavesAlone`: it touches `winfo` in the dispatcher only, of a task that does not
wait), and for each operation at an object (`Elsewhere`). What is left is each kind's own
steps. The scan of `set_flg` is a recursive function of the number of turns: what holds
after n of them (`Scanned`) is shown at the least n for which it would fail, and likewise
for the free list as TLC computes it (`ListIs`).

`NdataNeverFails` needs more than the invariant: after the first of two sends the queue
is correct again and has at most one datum more (`SendsTwo`).

`ReleasedByItsCondition` and `FirstSatisfiedServed` are about steps: one that is not a call
of `set_flg` or of another operation at a flag gives nobody E_OK there (`GivesNothing`), and
for `set_flg` the scan says who was seen, in which order, and that the loop ends with
the first one released from a TA_CLR flag (`ScanGives`, `FlagGrants`).

`ImplementsChannel` reads a ring from its oldest datum on (`Contents`) and the waiting
senders in the order of their queue (`Sent`). That a send, a receipt or a forced send does to
these two sequences what DataChannel says is arithmetic on the ring (`ContentsEnqueue`,
`ContentsDequeue`, `ContentsForce`) and lists (`SentInsert`, `SentRemove`); a queue
without places is a case of its own. `DtqInv` is needed throughout: a datum that is
handed to a waiting receiver overtakes nobody only because the ring is empty and
nobody waits to send, and one that a sender leaves behind comes last only because the ring
is full while he waits. The steps elsewhere matter as well: `chg_pri`, a timeout, `rel_wai` or
the end of a task takes a sender out of his queue or moves him in it, but at most one sender of
one queue (`OneQueueMoves`), so that it is a single `Withdraw` or `Move` of the channel
(`ElsewhereInOrder`). `ini_dtq` withdraws the senders one by one and resets a channel for
which nobody waits.

### Task exceptions

`TInv` contains the kernel's invariant, which the steps of the kernel keep as
they did; the return of a routine and `iras_tex` are shown to keep it too. On
top of it are the records `tex` (what the routines of a system task say about
`enatex`, where a task that was put off will be resumed, what was begun outside
extended calls) and `TakenInv`, that nothing due is pending in a task's own code.
TLC has checked it on the instances of *task_exception*, also without the
constraint of that run: the first three theorems say themselves what a
misreading of `svclevel` invalidates. `NothingForgotten` has the hypothesis `LowBitsOnly`
(there are no user tasks, or all causes are in the byte that `ret_service`
loads), as the run has it by its constants; the run *tex_high_bits* shows that it
is false otherwise.

### The serial driver

`UnitsOK` counts units; inductive is who has one. `IInv` of SerialProofs says where
each call stands and which unit it has (`CallsInv`), that each of the two units
is in exactly one place (`UnitWith`), that a closed port is in its initial state, and
that START or STOP waits only for a full FIFO. `FlowExact` is part of it.

### The heap and the ticks

`tmevt_up`, `tmevt_down`, the ancestors of a node and the heap at boot are
recursive functions. The prover has no induction, but a set of numbers has a least one
(`LeastNumber`, from the library's well-foundedness): the existence of each function and what it
computes follow from the least argument at which they would fail. With that, a hole
stops where it should (`UpStops`, `DownStops`), the nodes on its path are a line
from parent to child, so `MoveHole` shifts them by one and keeps every index
(`MoveHoleFills`), and the order is kept on the way up and down (`MoveUpOrder`,
`MoveDownOrder`). `InsertInserts` and `DeleteDeletes` sum that up: one event changes,
the others keep their times.

The order is that of distances from `min_time`, modulo 2^w, and only as good as the
window in which times lie. `TimeInv` is inductive: the heap is correct (`GoodHeap`);
`next_time` and `next_subtime` are those of the next tick and `current_time` is at
most one after `min_time` (`ClockOK`); every registered time is in the window
(`InWindow`): at most `TMAX_RELTIM + 1` after the current time and, if it is due, the time
of the tick being processed, or the one before with one tick to a millisecond. The last part is what
makes a period exact: the next time of a cyclic handler is computed from the one that has
come, which must not be further back.

`Punctual`, on top of `TimeInv`, says how far: a cyclic handler that is due goes off in
its own tick, except one that was due at boot (`asked` is `NoTicks` until it has gone
off once), for which the first tick is one tick late.

For the refinement each action is shown to change one countdown and no other:
`EnqueuedTime` gives it `r * TIC_DENO` ticks and at most one millisecond more,
`RepeatedTime` exactly the period (less one tick for the handler that was due at boot), `TickCounts` takes one from each,
and `EndCounts` shows that none is at 0 when `signal_time` returns (`TopIsEarliest`). At boot
the handlers are inserted one by one (`BootIs`).

### The clock

Inductive for `ReadsTheTime` is where `next_time` stands (`TimerInv`: it is the
beginning of the present tick, not its end, as long as the tick's interrupt is requested
or accepted and not served), and for a call in progress in which tick its first
reading was (`ReadingInv`) and what the probe of the request says about that
(`ProbedInv`). The hypothesis that no handler above the timer's calls `get_utm` is
needed in one place, where the call reads `next_time`: for such a handler the result
is false (section 5).

### Model-checked only

* Liveness (run *progress*): the prover cannot reach it.
* `LeavesInOrder`: it selects from a sequence, and `SelectSeq` is recursive.
* The violations: they are counterexamples.

## 5. Not modelled

* In modelled parts: error returns that change nothing; access-control vectors
  and the highest priority that a domain allows to `chg_pri`; calls that only
  read (`ref_`, `get_`); the variants `acre_`, `sac_`, `del_`; registers, stacks
  and memory protection. TaskSync leaves the condition of `dis_wai` on task
  exceptions open; TaskException has it.
* The overrun handler: `am1808.h:13` comments `TOPPERS_TARGET_SUPPORT_OVRHDR` out, so
  the EV3 build has none of it.
* Creation and deletion: a deletion releases the waiters by `init_wait_queue`,
  which the `ini_` calls already exercise; what remains is the free lists of
  control blocks.
* Memory objects, extended service call tables, startup, the configurator: tables
  that are made once.
* The system log, the application loader, the drivers and the EV3 interface:
  sequences of one task, or access to hardware, with the kernel's calls as their
  synchronization.
* `fatfs`, `btstack`, StarterWare, `mbed`, TLSF, lms2012 and `usblib`: vendored. Most of
  the C code of the repository is of this kind or data tables; the kernel with
  its processor-dependent part is about one sixteenth of it. The models
  therefore stand for a small share of the repository's lines, though for most
  service calls of the kernel.

Noticed while reading, and not shown by a run:

* `fsnd_dtq` and `ifsnd_dtq` (dataqueue.c:749, 785) set an error code in three
  branches and overwrite it with `E_OK` behind them. The model has what they do to
  the queue; what they return is not in it.
* `get_utm` called by an interrupt handler above the timer, between the clearing
  of the request (chip_support.S:105) and `signal_time`, is a tick behind
  (`Caller` of PerfTime has "urgent" for it; the run has tasks and handlers of time
  events).
* `ret_tex` (core_support.S:1660) starts the routine of a user task again with
  exceptions still enabled if the last run has enabled them; `call_texrtn_stask`
  disables them for a system task. `NestedOnlyIfEnabled` is about system tasks.
* A cyclic handler with phase 0 that is started at boot first runs in the first
  tick, one tick after its time; Countdown says so
  at `Lateness`.
* A tick that comes while the request of the previous one is still pending is
  lost (one bit): the models take it that applications do not lock the CPU that
  long.
* The Bluetooth port: `sio_rdy_rcv` (kernel_mod/src/serial_mod.c:91) runs in a task
  with dispatching disabled and calls `serial_snd_chr`, whose comment says that it
  is called with the CPU locked; a START may overtake a STOP that waits for
  `bt_sio_cyc`, since `bt_fetch_snd_buf` frees places in between.
* `serial_cls_por` after a STOP was sent sends no START.

## 6. Plan

1. *Models*: the Bluetooth port with its two contexts; creation and deletion.
