# A TLA+ model of the ChibiOS kernels

This directory holds TLA+ modules translated from the kernel sources under
`os/rt`, `os/nil` and `os/oslib`, TLC configurations that check them on small instances, and TLAPS
proofs. Paths below are relative to the repository (`src/`); `PROJECT.json`
gives, for each definition, the lines it models.

Contents: [1 the system](#1-the-system), [2 hard behaviours](#2-what-is-hard),
[3 modules](#3-modules-and-the-code-they-model), [4 runs](#4-runs),
[5 findings](#5-where-code-and-comments-disagree), [6 proofs](#6-proofs),
[7 what is left out](#7-what-is-not-modelled), [8 plan](#8-plan).

## 1. The system

ChibiOS is a set of embedded components. Its core is RT, a preemptive fixed
priority kernel for one or more cores. Every kernel function runs inside a
critical section (`chSysLock()`: interrupts masked and, on SMP, one spin lock),
so functions of different threads, handlers and cores interleave only at
`chSysUnlock()`, at context switches, and in the timer callbacks, which
`chVTDoTickI()` calls *without* the lock.

| Component | State | Operations | Used by / uses | Correct when |
|---|---|---|---|---|
| Lists (`chlists.h`) | circular lists, priority queues, delta lists | insert ahead/behind, dequeue | everything | order and membership are kept |
| Scheduler (`chschd.c`) | `rlist.current`, `rlist.pqueue`, thread state, priority, `ticks`, `u.rdymsg` | ready, go to sleep (with timeout), wake up, reschedule, preempt, yield | calls the port's switch; called by every blocking primitive and by the exit of interrupts | the ready list holds exactly the ready threads; the most important one runs; round robin is fair; a timeout ends a wait once |
| System services (`chsys.c`, `chinstances.c`) | lock, instances, pending reschedule interrupts | tick handler, notification of other cores | port | a remote wakeup is never forgotten |
| Threads (`chthreads.c`) | thread references, threads queues | start, suspend/resume, sleep, enqueue/dequeue, yield, set priority, exit, wait | scheduler, timers | a waiter is linked to the one object it waits on and leaves it exactly once |
| Semaphores (`chsem.c`) | signed counter, queue | wait, wait with timeout, signal, add, reset, signal and wait | scheduler | no unit lost or made up; counter and queue agree |
| Mutexes (`chmtx.c`) | owner, recursion counter, queue, list of owned mutexes per thread | lock, try, unlock, unlock all | scheduler; `__thd_set_priority()` | one owner; inherited priorities are exact through chains |
| Condition variables (`chcond.c`) | queue | wait, signal, broadcast | mutexes | release and sleep are atomic; the mutex is taken again unless the wait timed out |
| Virtual timers (`chvt.c`) | delta list, `lasttime`, `lastdelta`, alarm | set, set continuous, reset, ticker | the counter of the port; callbacks of anybody | never early, never later than the code's own delays, no drift |
| Events (`chevents.c`) | `epending`, `u.ewmask` per thread; listeners per source, with flags | wait for one/any/all (with timeout), signal, register, broadcast | scheduler | no event and no flag lost, no wait ended for nothing |
| Messages (`chmsg.c`) | `msgqueue` per thread, senders handed out | send, wait (with timeout), poll, release, release all | scheduler | no sender forgotten, each gets its own answer |
| Thread life, registry (`chthreads.c`, `chregistry.c`, `chdynamic.c`) | `refs`, `waiting`, `dispose`, registry, memory of the allocators | create, spawn, start, add/release reference, exit, wait, scan | scheduler, allocators | nothing freed while referenced, nothing lost, exit codes seen |
| NIL (`os/nil/src/ch.c`) | array of threads, `next`, queue counters, `lasttime`, alarm | a second, smaller kernel with the same API | port timer | as RT, without lists |
| Mailboxes (`chmboxes.c`) | ring of messages, two threads queues, `reset` | post, post ahead, fetch, reset, resume | threads queues of RT or NIL | a bounded sequence; no wakeup lost |
| Rest of OSLIB (`os/oslib`) | pipes, pools, heaps, factory, caches | alloc/free, read/write | threads queues, semaphores, mutexes | bounded buffers, conservation of blocks |
| Ports (`os/common/ports`) | registers, interrupt controller | lock, switch, exit from interrupts | kernel | the exit path preempts when required |
| HAL/XHAL, sandboxes, VFS | drivers, I/O queues | | kernel API | |

`PROJECT.json` lists all components with their status.

## 2. What is hard

The hazards are in `PROJECT.json`, each at its line. The themes:

* *A timeout racing another wakeup.* The ticker unlinks the timer of a sleeping
  thread, releases the lock and then calls `__sch_wakeup()`; in between a nested
  handler or another core can wake the same thread. The early return on
  `CH_STATE_READY` is all there is against a double wakeup.
* *State that shares memory.* `u.rdymsg` overlays `u.wtsemp`, `u.wtqueuep` and
  `u.wttrp`; the timer is a local variable of `chSchGoSleepTimeoutS()`.
* *Direct switches.* `chSchWakeupS()` switches to a thread that never was in the
  ready list; `chSemSignalWait()` wakes and sleeps in one section.
* *Two cores.* A wakeup of a remote thread inserts it in the other core's ready
  list and sends an interrupt; until it is taken that core runs the wrong thread.
* *Chains.* Priority changes travel along owners of owners and reorder the
  ready list, mutex queues and condition queues on the way.
* *Calls made of several critical sections.* A scan of the registry holds one
  reference while it releases another; a dead thread is removed from the registry
  under the lock and freed after it; a spawn allocates twice and may fail between.
* *Wakeups without a claim.* A thread woken to retry on a mailbox finds that a
  handler was faster, or that the mailbox was reset.
* *A counter that keeps running.* Timer code reads it, computes and programs an
  alarm that may be in the past by then; all the times wrap.

## 3. Modules and the code they model

```
ChLists <- ChSched <- RtThreads <- MCRtThreads
                   <- RtSem     <- MCRtSem       RtSem implements SemSpec
                   <- RtMutex   <- MCRtMutex
                   <- RtEvents  <- MCRtEvents
                   <- RtMsg     <- MCRtMsg
                   <- RtLife    <- MCRtLife
RtVT <- MCRtVT
NilSched <- LibMailbox <- MCLibMailbox           LibMailbox implements MailboxSpec
ChSchedProofs <- RtThreadsProofs, RtSemProofs, RtMutexProofs, RtEventsProofs,
                 RtMsgProofs, RtLifeProofs         (each extends its component)
LibMailboxProofs                                   (extends LibMailbox)
```

**ChLists** — `chlists.h`. A circular list is the sequence of its elements. The
scans of the priority insertions are one definition (`ScanStop`).

**ChSched** — `chschd.c` and the parts of `chsys`, `chinstances` and the port it
needs. A kernel state is a record; each kernel function is an operator from
record to record with the name of the C function, `c` being the core that
executes it. A call with the lock held is one application. Notable points:

* `SwitchIn` contains what the thread switched in does first when it went to
  sleep with a timeout: reset the timer if still armed. `armed` and `firing` are
  the two places a timer can be: in the timers list, or unlinked with its
  callback about to run outside the lock. *When* a timer expires is
  nondeterministic here; RtVT is about time.
* A core in `isr` runs handlers, nested or chained; any number of kernel calls
  happen there before `IsrExit`, the exit path with the preemption check.
* `notified` is the pending reschedule interrupt of another core. It may be
  taken late, because a thread can be spinning for the lock with its interrupts
  masked.
* `chSchPreemption`, `chSchSelectFirst` and `chSchDoPreemption` are alternatives
  for the exit path; the model uses the pair
  `chSchIsPreemptionRequired`/`chSchDoPreemption` of the ARMv6-M port.

**RtThreads** — starting, suspending and resuming through references, sleeps,
threads queues, yield, the tick, the timeout callback. What the code of a thread
does between kernel calls is left out: in every state the running thread may
make any legal call, so the model covers every application. `chThdDequeueAllI()`
is one step per thread with the lock held (`loop`).

**RtSem** — all of `chsem.c`. The loops of reset and addition are one step per
iteration with the lock held (`loop`); no other step is possible meanwhile.
`call[t]` is the semaphore whose wait thread `t` is inside of. `credit` is a
history variable: units put in less units taken by waits that returned.
**SemSpec** is what a user of a counting semaphore is promised, with no
scheduler, no negative counter and no timers: `avail`, a set of waiting threads,
and the result a wait is about to return. The refinement mapping (`Abstract`)
shows a reset as a single step.

**RtMutex** — `chmtx.c`, `chcond.c` and `__thd_set_priority()`. As in RtSem,
loops are stepwise (`cs`): an iteration of the inheritance loop, of unlock all,
of a priority change, of a broadcast. `cont[t]` is the mutex that a condition
wait will take again; `CondResume` is the second half of the wait, the first
thing the thread does when it is switched in, so while one is to be done nobody
else moves. Condition waits and mutexes are one module because a wait *is* an
unlock followed by a lock.

**RtVT** — the tickless mode of `chvt.c` for one core. The physical counter is a
variable that `Elapse` advances at any moment, also inside critical sections.
One reading of the counter and what is computed from it is one step; writing the
compare register and the check for a skipped deadline are separate steps
(`sec`). `due[t]` is a history variable: the signed distance to the deadline the
application asked for, against which the wrapped arithmetic is compared. `W` and
`I` are the moduli of `systime_t` and `sysinterval_t`.

**RtEvents** — `chevents.c`. Masks are sets. `wait[t]` is the wait a thread is
inside of; a thread switched in inside a wait still has the lock and finishes it
(`WaitReturn`) before anybody else moves. `ewmask` shares the union of `rdymsg`
and is cleared by a wakeup. A broadcast is one step per
listener with the lock held (`loop`). `taken` is a history variable: the events
of a listener that its thread has consumed since it last read the flags.

**RtMsg** — `chmsg.c`. A sender stays in the queue of its receiver until it is
answered; `received[t]` is what waits and polls have returned to `t` and `t` has
not answered, so a receiver can have several senders in hand and answer them in
any order. The exit of a receiver releases its senders in the same critical
section, as the assertion of `chThdExitS()` demands; `chMsgReleaseAllI()` is one
step per sender with the lock held (`loop`). `answer` is a history
variable.

**RtLife** — creation in static memory, from one allocator and from two, start,
exit, `chThdSync()`/`chThdWait()`, references, the registry and its scan. A
thread is named by the memory its `thread_t` is in, which is reused. Calls made
of several critical sections are several steps; `op[t]` tells where `t` is. The
allocators are external: a set of objects, and a number of stacks that others
use too, so that the second allocation may fail at any time. `held` and `cursor`
are the references the application has in hand. `chThdExitS()` stores the exit
code (`chThdExitS`), wakes the waiting threads one per step (`ExitIteration`) and
leaves the processor (`ExitEnd`), all with the lock held, so that nothing else
moves in between.

**NilSched** — `os/nil/src/ch.c`, tickless, in the style of ChSched: a record and
operators with the names of the C functions. A threads queue is a counter and its
members are found by scanning the array. A function that readies several threads
without releasing the lock takes the set of them: what it does for one does not
depend on the others. The timer handler is one step per
thread, because it releases the lock after each. `left` is a history field: the
ticks to the deadline of each timed wait.

**LibMailbox** — `chmboxes.c` on NilSched. `Iteration` is one turn of the three
retry loops, done by the caller or, after a wait, by the thread that has just
been switched in with the lock held. **MailboxSpec** is a bounded double ended
sequence with a reset: no ring, no queues, no retries, no clock. It leaves open
which message a post adds and at which end, and does not show what a fetch
returned: it is about loss, duplication, overflow, blocking and the reset.

## 4. Runs

| Run | Instance | States | Shows |
|---|---|---|---|
| `threads_live` | 1 core, two peers on top and two below, quantum 2 | 36 K | round robin, the end of timed sleeps, a preempted thread keeps its turn |
| `threads_smp` | 2 cores, 2 + 1 threads, one reference, one queue | 751 K | ready lists exact and sorted, the most important thread runs, waiters linked to their object, timers never outlive their stack frame, a wakeup message is never overwritten |
| `threads_smp_assert` | as `threads_smp` | | violation, see 5 |
| `sem` | 2 cores, 2 threads on the first, 2 semaphores, counters up to 2 | 387 K | types, counter and queue agree, units conserved, kernel invariants, RtSem implements SemSpec |
| `mutex_cond` | 1 core, 3 priorities, 2 recursive mutexes, 1 condition variable | 3.7 M | ownership, exact inheritance, sorted queues; a lock returns owned, a signalled condition wait returns with its mutex |
| `mutex_smp` | 2 cores, 2 mutexes, priority changes to 3, up and down | 1.6 M | inheritance and kernel invariants under priority changes |
| `vt` | 2 timers, counter of 24, intervals of 32 | 3.2 M | exact deadlines, the alarm is ahead of the counter, no callback early or too late |
| `vt_stale_base` | two timers | | violation, see 5 |
| `events` | 2 cores, 2 threads and handlers of the second core, 2 events, 2 flags, 1 source, 2 listeners | 4.2 M | event waits exact, flags announced, a wait that has got its events returns them, kernel invariants while one broadcast wakes both threads |
| `msg` | 2 cores, 2 + 1 threads, 2 answers | 2.0 M | senders served, what is in hand stays valid, answers match, kernel invariants |
| `life` | 2 cores, main, one static and one dynamic thread, 1 stack, 2 references | 853 K | references, memory and exit codes |
| `mailbox` | 2 threads and idle, ring of 2, counter of 5, `CH_CFG_ST_TIMEDELTA` 2 | 875 K | timeouts exact across wraps, no wakeup lost, LibMailbox implements MailboxSpec |

Every property has a mutant in `PROJECT.json`: a change of one mapped
definition, as a slip in that code would be, that makes it fail. The mutated
definitions (`M_...`) stand before the originals.

### Properties

* `HighestPriorityRuns`, `KernelOK`: the assertion "priority order violation",
  for every core outside its handlers and with no reschedule interrupt pending.
* `ReadyListOK`, `WaitersLinked`, `SemConsistent`, `MutexConsistent`,
  `CondConsistent`: the queues and the states of the threads tell the same story,
  at all times, so no thread is in two queues or in none.
* `TimerFrameAlive`: a running thread has no timer armed or about to fire.
* `WakeMessageStable`: a late timeout does not change the message of a thread
  woken otherwise.
* `PreemptedKeepsTurn`, `RoundRobin`, `TimedSleepEnds`: time slices.
* `UnitsConserved`: whatever the race of timeouts, signals and resets, each unit
  is in the counter, granted and in flight, or taken.
* `InheritanceExact`: outside the kernel the priority of a thread is the maximum
  of its own and those of the threads waiting for a mutex of it; neither a boost
  that is over nor one that is missing.
* `LockReturnsOwned`: what a wait for a mutex has when it ends.
* `CondWaitReturnsOwner`: a thread that a signal or a broadcast took out of a
  condition variable does not return before it owns its mutex again, and is not
  told of a timeout although its timer may have expired before the signal; one
  that timed out is told so. The history variable `owed` remembers who signalled
  whom, so the claim does not rest on the message the code decides by.
* `DeadlinesExact`, `AlarmCovers`, `NotLate`, `NeverEarly`: the timers.
* `EventWaitExact`, `GrantedNotLost`, `FlagsAnnounced`: a thread sleeps for
  events exactly as long as it has not got them; from the signal that satisfies a
  wait to its return nothing, a late timeout callback included, turns it into a
  timeout or takes the events; a thread that serves events and then reads flags
  misses no flag it asked for.
* `SendersServed`, `HeldSendersBlocked`, `AnswersMatch`: nobody is blocked on a
  receiver that sleeps or is gone; what a receiver has in hand is valid; answers
  reach the sender they are for.
* `ReferencesSafe`: the counter is the number of references in hand, and what is
  referenced, running or waited for is registered and not free.
* `MemoryAccounted`: each object of an allocator is in exactly one place.
* `ExitObserved`: nobody waits for a thread that has ended, and who was woken by
  an exit finds the exit code.
* `NoLostWakeup`: while somebody is queued, each message or free slot has a
  woken thread coming for it.
* `TimeoutsExact`, `NeverEarly` in LibMailbox: stored intervals, origin and alarm
  agree with the deadlines the callers asked for.
* `ImplementsSemSpec`, `ImplementsMailboxSpec`: the refinements.

### Bounds

* Three user threads are the least for a chain (owner, blocked owner, new
  waiter), for a queue with an order, and for a wakeup while two others compete.
  Two cores with two and one of them give local and remote wakeups of both kinds.
  In `sem` and `events` the second core runs handlers only, so every wakeup from
  it is a remote one; two threads there give every race of a waiter, a waker and
  a timeout, the third actor being a handler.
* Events: two listeners of one source, registered by either thread, so that one
  broadcast can wake both threads, in either order. A broadcast gives
  event 0; event 1 is signalled, added and cleared directly (`Given`), so a wait
  for all needs both. `Waits` has the three kinds of wait, each on both events.
  The symmetry permutes the listeners, which the module treats alike. The view
  leaves out what no later step and no property reads: `u.rdymsg` of a thread
  that is not in a wait or still asleep in one, whether the core without threads
  is in a handler, and the flags a listener has not asked for (another flag
  is in the model because a broadcast of it alone must announce nothing).
* Life: one static and one dynamic thread besides main, so that a scan, an exit,
  a wait and a disposal of the same thread overlap, and memory is reused.
  `MaxRefs` stands for `THREAD_MAX_REFERENCES`; with 2 the limit is reached.
* Mailbox: a ring of 2 wraps on both sides and is full or empty within few
  steps. A counter modulo 5 with delays up to 3 (`TIME_MAX_INTERVAL`) wraps
  between any two waits and makes the origin move. The alarm is served within
  its tick: the comment of `chSysTimerHandlerI()` demands that it be served
  before the next deadline, deadlines can be one tick apart, and the code only
  asserts it. The view leaves out the absolute time and the unused slots of the
  ring, on which no step and no property depends.
* `MaxCount` stands for `SEMAPHORE_MAX_COUNT`. The bound 2 reaches the
  saturation of a signal and of an addition, additions that cross zero, and as
  many waiters as there are threads. A wait at the smallest counter is disabled;
  with more threads than counter values the code would wrap, and in C the counter
  has 2^31 of them.
* `MaxRecursion` stands for `MUTEX_MAX_RECURSION`; the code asserts against it.
* `Quantum` is 0 in the runs that are not about time slices, which is the
  configuration `CH_CFG_TIME_QUANTUM = 0`, and 2 in `threads_live`: a
  thread can be preempted with part of its quantum used.
* In `vt`, `W = 24`, `I = 32` and delays 1 and 28 give delays shorter than
  `CH_CFG_ST_TIMEDELTA` and longer than a turn of the counter (intermediate
  alarms of `VT_MAX_DELAY`), and sums that saturate. `MaxSection`, `MaxTicker`
  and `MaxLatency` bound how long the code and an interrupt may be held up: the
  claim `NotLate` is relative to them (`LateBound`). `Span` bounds how far the
  application's calls may move the alarm past the time base of the list; without
  it the property is false (finding 2). The symmetry permutes timers, which the
  module treats alike and no property orders; the view replaces the three times
  of the state by their distance to the counter. It is sound because every
  definition and property uses these times only through differences modulo `W`,
  so states with the same view have the same futures up to a rotation.
* Mutex runs do not check for deadlock: threads that lock two mutexes in
  opposite orders do block each other in the real system, and with no timed
  waits left every core then idles.

### Fairness

`threads_live` assumes weak fairness of the callback, of the reschedule
interrupt and of the exit from handlers, all interrupts that stay pending until
taken. It assumes strong fairness of the tick and of each timer expiry: while
the callback of one timer runs, the next one is not enabled, yet the tick
interrupt is periodic and its handler serves every due timer before it returns.
No fairness is assumed of threads: one may compute forever without a call.

## 5. Where code and comments disagree

1. `threads_smp_assert`: `chSysUnlock()` asserts the priority order,
   and the comment above the assertion in `chsys.h` explains a failure by "the use
   of i-class functions in a critical section not followed by a
   chSchRescheduleS()". On two cores it also fails when the other core has made a more
   important thread of this core ready while a thread here was spinning for the
   lock: it gets the lock, makes a call, and unlocks before it takes the
   reschedule interrupt. The system recovers (`HighestPriorityRuns` holds as
   soon as the interrupt is taken); with debug assertions on, it halts.
2. `vt_stale_base`: `vt_enqueue()` measures from `lasttime`, which only moves in
   the ticker or when the list is empty. An application that always sets the next
   timer before it resets the previous one never lets the ticker run; after a
   turn of the counter the difference wraps and a deadline is missed by about a
   turn.

A limit of the timers that is not a run: where counter and intervals have the
same width, a delay of `TIME_INFINITE` is one tick less than a turn of the
counter, and an alarm served one tick late already looks like no time elapsed.
The instances use intervals wider than the counter.

## 6. Proofs

TLAPS proves the following for any number of cores and threads, any priorities
and any number of the component's objects, and for the mailbox any size of the
ring and any width of the time counter. The right column is the property of a
run that the theorem states; rows without one are stronger facts behind others.

| Module | Theorem | Property |
|---|---|---|
| `RtThreadsProofs` | `Inductive` | |
| | `ReadyLists`, `HighestRuns` | `ReadyListOK`, `HighestPriorityRuns` |
| | `Linked`, `FrameAlive` | `WaitersLinked`, `TimerFrameAlive` |
| | `MessageStable` | `WakeMessageStable`, an action property |
| | `KeepsTurn` | `PreemptedKeepsTurn` |
| `RtSemProofs` | `Inductive`, `InductiveOrderUnits`, `KernelExact` | |
| | `TypeCorrect`, `Consistent` | `TypeOK`, `SemConsistent` |
| | `KernelSound`, `Conserved` | `KernelOK`, `UnitsConserved` |
| | `Refines` | `ImplementsSemSpec`, the refinement of SemSpec |
| `RtMutexProofs` | `Inductive`, `InductiveOwed`, `TypeCorrect` | |
| | `MutexesConsistent`, `CondsConsistent` | `MutexConsistent`, `CondConsistent` |
| | `Inheritance` | `InheritanceExact` |
| | `LockReturns` | `LockReturnsOwned`, an action property |
| | `WaitReturns` | `CondWaitReturnsOwner` |
| | `KernelSound` | `KernelOK` |
| `RtMsgProofs` | `Inductive` | |
| | `Served`, `HeldBlocked`, `Matched` | `SendersServed`, `HeldSendersBlocked`, `AnswersMatch` |
| | `KernelSound` | `KernelOK` |
| `RtEventsProofs` | `Inductive` | |
| | `WaitsExact`, `Announced` | `EventWaitExact`, `FlagsAnnounced` |
| | `NotLost` | `GrantedNotLost`, an action property |
| | `KernelSound` | `KernelOK` |
| `RtLifeProofs` | `LifeTypeCorrect` | |
| | `ReferencesAlwaysSafe`, `MemoryAlwaysAccounted` | `ReferencesSafe`, `MemoryAccounted` |
| | `ExitAlwaysObserved` | `ExitObserved` |
| `LibMailboxProofs` | `MailboxTypeCorrect` | |
| | `KernelSound`, `NoWakeupIsLost` | `KernelOK`, `NoLostWakeup` |
| | `TimeoutsAlwaysExact` | `TimeoutsExact` |
| | `TimeoutsNeverEarly` | `NeverEarly`, an action property |
| | `MailboxRefines` | `ImplementsMailboxSpec`, the refinement of MailboxSpec |

Assumptions: `KernelAssumption` (finitely many threads, each bound to a core, an
idle thread per core) and one assumption per component on its constants (values
in range, priorities of threads above the idle ones, `NoThread`, `NoObj` and
`NoCall` outside the sets they stand apart from). NIL asks for at least one thread
besides idle and for a `CH_CFG_ST_TIMEDELTA` that is an interval of at least two
ticks; the sleeps are intervals, neither `TIME_INFINITE` nor `TIME_IMMEDIATE`.
TLC evaluates the assumptions in every run.

### The kernel lemmas

`ChSchedProofs` is what the component proofs share. `KInv` is the kernel
invariant: ready lists sorted, without duplicates and exact; one running thread
per core, of that core; the idle thread always ready or running, so that a core
always has a thread to switch to (`ReadyNotEmpty`: without it `chSchGoSleepS`
could take the head of an empty list); an armed timer, and a timer about to fire,
belong to a thread that is waiting or has just been made ready, and a callback
runs only in a handler of the thread's own core. The last clause is why a late
callback cannot find its thread running: the core of the thread is still in the
handler.

Kernel functions move threads through states where a thread is in no list: a
woken thread between its queue and the ready list, a running thread between the
switch and its insertion. `KInvX(k, X)` is the invariant with the threads of `X`
exempt, and each kernel function has a lemma that says how it changes `X`
(`ReadyInv`, `TransitStart`, `TransitEnd`, `SwitchInv`, ...).

`Sound(k, X)` adds the priority order of every core that is not in a handler, has
no reschedule interrupt pending and is not in `X`, the cores in the middle of a
critical section. `chSchReadyI()` breaks the order of the core it is called on and
asks another core to restore it; `chSchRescheduleS()` and the exit from a handler
restore it. The lemmas `RunReady`, `RunWakeup`, `RunSleep`, `RunReschedule`,
`RunIrq`, `RunYield`, `RunTick`, `RunCallback` say of each function, in these
terms, what it makes of a sound kernel and which threads it leaves alone
(`Still`, `Others`), wakes (`Roused`, `Woken`) or puts to sleep (`Rested`,
`Asleep`). The lemmas `QueueOut`, `QueueIn`, `QueueSame`, `QueueHead` do the same
for the queues of waiting threads. With these a component proof never opens a
kernel function: one lemma per action, one case per action in `Inductive`.

Its first part holds the facts about sequences: priority insertion keeps a
sorted list sorted and adds exactly one element, removal takes out exactly one.

### The inductive invariants

None of the properties is inductive by itself. Each component's `IInv` was
checked by TLC on the component's instance before it was proved. They all hold the
type invariant, `Sound`, and the exactness of the component's queues, and:

* RtSem: `CountsOK`, a negative counter is minus the length of the queue, else
  the queue is empty, except for the semaphore a reset is emptying; `LoopOK`, in
  a reset the counter is not negative, so that emptying the queue ends consistent,
  and the loop of a thread runs on a core outside handlers, so that its final
  reschedule is legal. For `UnitsConserved` the threads granted a unit and not
  yet returned are a set whose cardinality each action changes by at most one.
* RtSem, the refinement: the mapping `Abstract` shows a reset as one step, so every
  turn of the loop is a stutter, and a preemption, a timer expiry or a reschedule
  is a stutter because they change no call and no message of a woken thread.
* RtThreads: references and threads with `SUSPENDED`, queues and threads with
  `QUEUED` correspond in both directions also inside `chThdDequeueAllI()`;
  `PreemptedKeepsTurn` needs that a thread in the ready list with less than its
  quantum was inserted ahead of its peers, and that only one at a time can be.
* RtMutex: `OwnersOK`, the owners, the counters and the lists of owned mutexes
  agree; `WaitersOK`, who waits for a mutex waits for one that somebody else owns;
  `TimeoutsOK`, no wait for a mutex has a timeout, so a callback never takes a
  thread out of the queue of one; `ContsOK` and `ResumeOK`, a thread inside a
  condition wait does not own its mutex and goes on in thread context.
  `InheritanceExact` speaks of the states out of the kernel; inside, `InheritOK`
  says who may not be exact. In `chMtxUnlockAll()` it is the running thread, in a
  priority change the thread the loop has reached, and a turn moves the exception
  to the owner of what that thread waits for. In the loop of a lock the running
  thread already counts as a waiter of the owner, with its priority, although it
  is in no queue yet (`LockExact`); everybody is exact under that count except the
  thread reached, whose priority is either exact or below that of the running
  thread. When the loop stops the count is exact for all, and the sleep turns the
  virtual waiter into a real one. The chain may have any length and may even be a
  cycle (a deadlock of the application): the argument never walks it. A priority
  changed inside a queue has its own lemmas (`PriceReady`, `PriceQueues`,
  `NewPrio`): the thread alone moves, and the order of the others is kept.
* RtMutex, the condition waits: `OInv` stands on top of `IInv` and adds where a
  thread is that is owed its mutex (`OwedOK`): woken inside the wait with this
  mutex as its continuation, in the inheritance loop for it, or in its queue; and
  that a thread woken inside its wait has the message of a timeout exactly when it
  is owed nothing. A callback that comes after the signal finds the thread ready
  and changes nothing; the unlock that gives a queued thread the mutex settles
  what it is owed; a thread that runs out of the kernel is in none of the three
  places, so it is owed nothing.
* RtMsg: a receiver in `WTMSG` or gone has no senders, except the one whose
  senders the loop is releasing; who is in hand is in the queue of its receiver;
  `answer` and the message agree from the release on.
* RtEvents: what a sleeping thread lacks and what a woken thread has (`WaitOK`);
  each listener is in one list once and belongs to a thread; during a broadcast
  the listeners still ahead of the loop have not been told, the others have.
* RtLife: `KernelPart` has the kernel, the queues of those that wait for an exit
  and what a thread inside a call of several sections is sure of: it holds a
  reference to what it waits for (`OpsOK`), a dead thread owns no reference
  (`FinalOK`), a thread inside its exit is alone with the lock (`ExitOK`), a woken
  one finds the code (`CodesOK`). `BookPart` has the account: each reference
  counter is a sum of three cardinalities (`Counted`), a thread out of the
  registry is dead and unreferenced (`RegistryOK`), each object and each stack is
  in one place (`MemoryOK`, `StacksOK`), and the callback of a dead thread tells
  which allocators its memory came from (`DisposeOK`). The three properties need
  each other: memory is safe because the counter is right, the counter stays
  right because an object is registered once, and that it is registered once
  follows from the account of the memory.

### NIL and the mailbox

`LibMailboxProofs` does not use the lemmas of RT: NIL has no lists. The invariant
`Inv` has a part about the kernel record alone, which every operator of NilSched
keeps, whoever calls it:

* `Waits`: a ready thread has no timeout stored, a wait without one has no
  deadline, and each queue counter is the number of the threads waiting there.
  `FirstOK` and `Runs`: `next` is the first ready thread and runs out of handlers.
* `TimeOK`: the stored interval of a wait is the ticks since the origin plus the
  ticks to the deadline; the alarm is not behind the clock nor beyond the first
  deadline, and its interrupt is pending exactly when the two meet. Inside the
  loop of the timer handler, `TimeoutsExact` says nothing, and this is what the
  property needs to be inductive: the threads the loop has passed are already
  relative to the new origin and `nextalarm` does not exceed any of them, the
  others are still relative to the old one. The proof that the origin can move
  (`ArmRebase`) is where the width of the counter matters: with a distance of at
  most `TIME_MAX_INTERVAL` from the origin to each deadline no difference wraps.

and a part about the mailbox: `CallsOK`, a thread is in a queue only inside of a
call that waits there, and a call without timeout is never ended by one;
`LossFree`, `NoLostWakeup` in terms of queues: what a queue waits for does not
exceed the number of woken threads of that queue (a served call moves one unit to
the other queue, and wakes one thread of it if there is one; a thread that waits
again leaves nothing behind, since it found nothing); `RingOK`, the two pointers
are the counter apart. For the refinement, the positions of the messages are
computed without the modulus (`SlotOf`), so that writing, writing ahead and
reading are `Append`, a concatenation and `Tail`; a call that blocks again is a
stutter, as is everything the kernel does by itself.

### Model-checked only

* Liveness: `RoundRobin` and `TimedSleepEnds`. The prover does not support
  fairness.
* RtVT: `DeadlinesExact`, `AlarmCovers`, `NotLate` and `NeverEarly`. The deadlines
  are sums along the delta list, and what a fold is for every list needs
  induction over data. They also rest on the bounds of the environment
  (`MaxSection`, `MaxTicker`, `MaxLatency`, `Span`) being small against the turn of
  the counter: the differences are exact only while no interrupt is later than
  that.

## 7. What is not modelled

* Pipes, FIFOs, jobs queues, pools, heaps, the factory, object caches, the
  periodic tick variant of the timers, the semaphores, events and messages of
  NIL, and the I/O queues of the HAL: in the plan.
* Termination requests (`chThdTerminate()` sets a flag the application polls) and
  the layout of working areas. Outside RtLife the models start with the threads
  created and suspended.
* Debug, statistics, trace and time measurement code: it observes only. Debug
  checks appear as properties or as guards of the calls they protect.
* Ports other than their locking, notification and exit protocol; drivers;
  sandboxes, VFS: register level code or code outside the kernel's logic.
* Time in the modules over ChSched: a timeout may expire at any moment. The
  exact moment is the subject of RtVT.

## 8. Plan

In this order; the first ten steps are done.

1. Lists, scheduler, threads: `ChLists`, `ChSched`, `RtThreads`.
2. Semaphores with their abstract specification: `RtSem`, `SemSpec`.
3. Mutexes, condition variables, priority changes: `RtMutex`.
4. Tickless timers: `RtVT`. Proofs for lists, scheduler and semaphores.
5. Events and messages: `RtEvents`, `RtMsg`.
6. The NIL kernel and mailboxes with their abstract specification: `NilSched`,
   `LibMailbox`, `MailboxSpec`.
7. Thread life cycle: `RtLife`.
8. Proofs over the kernel lemmas of `ChSchedProofs` for threads, semaphores with
   the refinement of SemSpec, messages and events.
9. Proofs for mutexes and condition variables, over lemmas for a priority change
   of a ready and of a waiting thread.
10. Proofs for RtLife, and for NilSched and LibMailbox with the refinement of
   MailboxSpec.
11. Guarded pools and object FIFOs as a composition of a pool and a mailbox; heap
   and factory as sequential algorithms over blocks; periodic tick timers; the
   semaphores of NIL as a second refinement of SemSpec, over the kernel part of
   `LibMailboxProofs`.
