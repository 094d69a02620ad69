------------------------------ MODULE NilSched ------------------------------
(***************************************************************************)
(* The NIL kernel (os/nil/src/ch.c) in tickless mode, as functions from a  *)
(* kernel state to a kernel state.  The threads are the slots of an array, *)
(* a lower index is a higher priority, the last slot is the idle thread.   *)
(* There are no lists: a threads queue is a counter and the waiting        *)
(* threads are found by scanning the array.  A kernel state n is a record: *)
(*   current, next            the running thread, the one that should run  *)
(*   state, msg, wtobj, timeout   the fields of thread_t; msg and wtobj    *)
(*             share a union, a wakeup overwrites the object               *)
(*   qcnt      the counter of each threads queue                           *)
(*   clock, alarm, started, pending   the free running counter, the alarm  *)
(*             and its interrupt, not served yet                           *)
(*   lasttime  the origin of the timeouts                                  *)
(*   scan, nextalarm   where the timer handler is in its loop and the      *)
(*             shortest timeout it has seen, 0 for none                    *)
(*   isr       an interrupt handler is active                              *)
(*   left      ghost: ticks until the deadline of each timed wait          *)
(***************************************************************************)
EXTENDS Integers, FiniteSetsExt

CONSTANTS
    MaxThreads,     \* CH_CFG_MAX_THREADS
    Queues,         \* the threads queues
    NoQueue,        \* NULL
    Width,          \* the counter and the intervals are modulo Width
    TimeDelta       \* CH_CFG_ST_TIMEDELTA

ASSUME NilAssumption ==
    /\ MaxThreads \in Nat \ {0}
    /\ NoQueue \notin Queues
    /\ TimeDelta \in 2 .. Width - 2
    /\ Width \in Nat

Idle == MaxThreads

Slots == 0 .. MaxThreads

UserSlots == 0 .. MaxThreads - 1

Times == 0 .. Width - 1

TIME_INFINITE     == 0
TIME_IMMEDIATE    == Width - 1
TIME_MAX_INTERVAL == Width - 2

NoScan == -1

NilType ==
    [ current   : Slots,
      next      : Slots,
      state     : [Slots -> {"READY", "SLEEPING", "WTQUEUE"}],
      msg       : [Slots -> {"OK", "TIMEOUT", "RESET"}],
      wtobj     : [Slots -> Queues \union {NoQueue}],
      timeout   : [Slots -> Times],
      qcnt      : [Queues -> - MaxThreads .. 0],
      clock     : Times,
      alarm     : Times,
      started   : BOOLEAN,
      pending   : BOOLEAN,
      lasttime  : Times,
      scan      : Slots \union {NoScan},
      nextalarm : Times,
      isr       : BOOLEAN,
      left      : [Slots -> Times] ]

\* chSysInit(): every thread has been started, the first one is running.
NilInit ==
    [ current   |-> 0,
      next      |-> 0,
      state     |-> [t \in Slots |-> "READY"],
      msg       |-> [t \in Slots |-> "OK"],
      wtobj     |-> [t \in Slots |-> NoQueue],
      timeout   |-> [t \in Slots |-> 0],
      qcnt      |-> [q \in Queues |-> 0],
      clock     |-> 0,
      alarm     |-> 0,
      started   |-> FALSE,
      pending   |-> FALSE,
      lasttime  |-> 0,
      scan      |-> NoScan,
      nextalarm |-> 0,
      isr       |-> FALSE,
      left      |-> [t \in Slots |-> 0] ]

-----------------------------------------------------------------------------
(* System time *)

chTimeAddX(time, interval) == (time + interval) % Width

chTimeDiffX(start, end) == (end - start) % Width

chTimeIsInRangeX(time, start, end) ==
    chTimeDiffX(start, time) < chTimeDiffX(start, end)

-----------------------------------------------------------------------------
(* Scheduler *)

\* Makes the threads of a set ready.  The loops that ready several threads keep
\* the lock, and what they do for one thread does not depend on the others.
chSchReadyI(n, ts, msg) ==
    [n EXCEPT !.msg = [t \in Slots |-> IF t \in ts THEN msg ELSE @[t]],
              !.wtobj = [t \in Slots |-> IF t \in ts THEN NoQueue ELSE @[t]],
              !.state = [t \in Slots |-> IF t \in ts THEN "READY" ELSE @[t]],
              !.timeout = [t \in Slots |-> IF t \in ts THEN 0 ELSE @[t]],
              !.left = [t \in Slots |-> IF t \in ts THEN 0 ELSE @[t]],
              !.next = Min(ts \union {@})]

\* The threads waiting on a queue.
Waiting(n, q) == {t \in UserSlots : n.state[t] = "WTQUEUE" /\ n.wtobj[t] = q}

\* Mutant: the counter of the queue is not repaired.
M_nil_ready_timeout(n, ts) == chSchReadyI(n, ts, "TIMEOUT")

\* A timeout repairs the wait object before the message overwrites it.
nil_ready_timeout(n, ts) ==
    chSchReadyI([n EXCEPT !.qcnt = [q \in Queues |-> @[q] + Cardinality(Waiting(n, q) \intersect ts)]],
                ts, "TIMEOUT")

chSchIsRescRequiredI(n) == n.current # n.next

chSchSelectFirst(n) == [n EXCEPT !.current = n.next]

chSchRescheduleS(n) == IF chSchIsRescRequiredI(n) THEN chSchSelectFirst(n) ELSE n

\* The scan of the whole threads array at the end of chSchGoSleepTimeoutS().
SwitchToFirstReady(n) ==
    LET ntp == Min({t \in Slots : n.state[t] = "READY"})
    IN  [n EXCEPT !.current = ntp, !.next = ntp]

\* The waits that are over when the origin is moved forward by elapsed ticks,
\* and the ones that go on.
Overdue(n, elapsed) == {t \in UserSlots : n.timeout[t] \in 1 .. elapsed}
Remaining(n, elapsed) == {t \in UserSlots : n.timeout[t] > elapsed}

\* The interval does not fit relative to the old origin: the origin becomes
\* the current time and the alarm is started again, which drops a pending
\* interrupt.
Rebase(n, timeout) ==
    LET elapsed == chTimeDiffX(n.lasttime, n.clock)
        n1      == nil_ready_timeout(n, Overdue(n, elapsed))
        rest    == Remaining(n, elapsed)
        next    == Min({timeout} \union {n.timeout[t] - elapsed : t \in rest})
    IN  [n1 EXCEPT
            !.timeout = [t \in Slots |-> IF t \in rest THEN @[t] - elapsed ELSE @[t]],
            !.lasttime = n.clock,
            !.alarm = chTimeAddX(n.clock, next),
            !.pending = FALSE]

\* Mutant: the origin is never moved while the alarm is started.
M_NeedsRebase(n, abstime, timeout) == FALSE

NeedsRebase(n, abstime, timeout) == chTimeDiffX(n.lasttime, abstime) < timeout

\* The timed part of chSchGoSleepTimeoutS() for the running thread.
SetTimeout(n, interval) ==
    LET timeout == IF interval < TimeDelta THEN TimeDelta ELSE interval
        abstime == chTimeAddX(n.clock, timeout)
        n1 == IF ~ n.started
                THEN [n EXCEPT !.lasttime = n.clock, !.alarm = abstime,
                               !.started = TRUE, !.pending = FALSE]
              ELSE IF NeedsRebase(n, abstime, timeout)
                THEN Rebase(n, timeout)
              ELSE IF chTimeIsInRangeX(abstime, n.lasttime, n.alarm)
                THEN [n EXCEPT !.alarm = abstime]
                ELSE n
    IN  [n1 EXCEPT !.timeout[n.current] = chTimeDiffX(n1.lasttime, abstime),
                   !.left[n.current] = timeout]

chSchGoSleepTimeoutS(n, newstate, timeout) ==
    LET n1 == [n EXCEPT !.state[n.current] = newstate]
    IN  SwitchToFirstReady(IF timeout = TIME_INFINITE THEN n1 ELSE SetTimeout(n1, timeout))

-----------------------------------------------------------------------------
(* Threads queues *)

\* The highest priority thread waiting on a queue.
nil_find_thread(n, q) == Min(Waiting(n, q))

\* TIME_IMMEDIATE is handled by the caller: no change, MSG_TIMEOUT.
chThdEnqueueTimeoutS(n, q, timeout) ==
    chSchGoSleepTimeoutS([n EXCEPT !.qcnt[q] = @ - 1, !.wtobj[n.current] = q],
                         "WTQUEUE", timeout)

chThdDequeueNextI(n, q, msg) ==
    IF n.qcnt[q] < 0
      THEN chSchReadyI([n EXCEPT !.qcnt[q] = @ + 1], {nil_find_thread(n, q)}, msg)
      ELSE n

\* From the first slot on, as many threads as the counter says.
nil_ready_all(n, q, cnt, msg) ==
    LET Before(t) == {u \in Waiting(n, q) : u < t}
    IN  chSchReadyI(n, {t \in Waiting(n, q) : Cardinality(Before(t)) < - cnt}, msg)

chThdDequeueAllI(n, q, msg) ==
    [nil_ready_all(n, q, n.qcnt[q], msg) EXCEPT !.qcnt[q] = 0]

-----------------------------------------------------------------------------
(* Interrupts.  The alarm is served within the tick it belongs to: the     *)
(* counter does not move while the interrupt is pending or in its handler. *)

EnterIsr(n) == [n EXCEPT !.isr = TRUE]

TickEnabled(n) == ~ n.pending /\ n.scan = NoScan

ClockTick(n) ==
    LET clock == chTimeAddX(n.clock, 1)
    IN  [n EXCEPT !.clock = clock,
                  !.pending = n.started /\ clock = n.alarm,
                  !.left = [t \in Slots |-> IF @[t] > 0 THEN @[t] - 1 ELSE 0]]

\* chSysTimerHandlerI() up to its loop.
HandlerStart(n) ==
    [EnterIsr(n) EXCEPT !.pending = FALSE, !.scan = 0, !.nextalarm = 0]

\* Mutant: the last timeout seen, not the shortest one.
M_Shortest(next, timeout) == timeout

\* timeout <= next - 1, unsigned: 0 stands for no timeout yet.
Shortest(next, timeout) == IF timeout <= (next - 1) % Width THEN timeout ELSE next

\* One iteration: the lock is released after each thread, so that another
\* handler can make the threads ready that the loop has not looked at.
HandlerStep(n) ==
    LET t  == n.scan
        dt == chTimeDiffX(n.lasttime, n.alarm)
        n1 == [n EXCEPT !.scan = @ + 1]
    IN  IF n.timeout[t] = 0 THEN n1
        ELSE IF n.timeout[t] = dt THEN nil_ready_timeout(n1, {t})
        ELSE [n1 EXCEPT !.timeout[t] = (@ - dt) % Width,
                        !.nextalarm = Shortest(@, (n.timeout[t] - dt) % Width)]

HandlerEnd(n) ==
    [n EXCEPT !.scan = NoScan,
              !.nextalarm = 0,
              !.lasttime = n.alarm,
              !.alarm = IF n.nextalarm > 0 THEN chTimeAddX(@, n.nextalarm) ELSE @,
              !.started = n.nextalarm > 0]

\* The last handler returns through the preemption check.
IsrExitEnabled(n) == n.isr /\ n.scan = NoScan

IsrExit(n) == chSchRescheduleS([n EXCEPT !.isr = FALSE])

-----------------------------------------------------------------------------
(* The state of the kernel the components rely on *)

\* next is the most important ready thread, and out of the handlers it runs.
NextExact(n) ==
    /\ n.next = Min({t \in Slots : n.state[t] = "READY"})
    /\ ~ n.isr => n.current = n.next

\* The counter of a queue is minus the number of the threads waiting on it.
QueueCountersExact(n) ==
    \A q \in Queues : n.qcnt[q] = - Cardinality(Waiting(n, q))
=============================================================================
