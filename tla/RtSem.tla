------------------------------- MODULE RtSem -------------------------------
(***************************************************************************)
(* Counting semaphores (chsem.c) over the scheduler: waits with and        *)
(* without timeout, signals from threads and interrupt handlers, resets,   *)
(* the combined signal and wait, and the timeout callback.                 *)
(*                                                                         *)
(* The loops of chSemResetWithMessageI() and chSemAddCounterI() are one    *)
(* step per iteration, with the kernel lock held: while loop # NoLoop no   *)
(* other step of any core is possible, as in the code.  Time slicing is    *)
(* left to RtThreads: no tick is counted here.                             *)
(***************************************************************************)
EXTENDS ChSched

CONSTANTS
    Sems,              \* the semaphores
    NoSem,             \* no semaphore
    InitCnt,           \* InitCnt[s]: the counter given to chSemObjectInit()
    MaxCount,          \* SEMAPHORE_MAX_COUNT
    SemPriority,       \* CH_CFG_USE_SEMAPHORES_PRIORITY
    Prio               \* Prio[t]: the priority a thread is created with

ASSUME SemAssumption ==
    /\ NoSem \notin Sems
    /\ MaxCount \in Nat \ {0}
    /\ InitCnt \in [Sems -> 0 .. MaxCount]
    /\ SemPriority \in BOOLEAN
    /\ Prio \in [Threads -> Prios]
    /\ \A c \in Cores : Prio[Idle[c]] = IDLEPRIO
    /\ \A t \in UserThreads : Prio[t] >= LOWPRIO

VARIABLES
    k,          \* the kernel state
    cnt,        \* cnt[s]: sp->cnt
    queue,      \* queue[s]: sp->queue
    wtsem,      \* wtsem[t]: u.wtsemp, overwritten by u.rdymsg
    call,       \* call[t]: the semaphore t is inside a wait on, or NoSem
    loop,       \* the loop being executed with the lock held, or NoLoop
    credit      \* ghost: units put in a semaphore less the units taken by
                \* the waits that have returned

vars == <<k, cnt, queue, wtsem, call, loop, credit>>

NoLoop == [op |-> "none"]

\* core executes the loop of op on sem; left iterations to do for an
\* addition; thread tells whether chSchRescheduleS() follows.
Loops == [op : {"reset", "add"}, core : Cores, sem : Sems, left : Nat, thread : BOOLEAN]

Counters == (- MaxCount - 1) .. MaxCount

TypeOK ==
    /\ k \in KernelType
    /\ cnt \in [Sems -> Counters]
    /\ queue \in [Sems -> Seq(Threads)]
    /\ wtsem \in [Threads -> Sems \union {NoSem}]
    /\ call \in [Threads -> Sems \union {NoSem}]
    /\ loop \in Loops \union {NoLoop}
    /\ credit \in [Sems -> Int]

Init ==
    /\ k = KernelInit(Prio)
    /\ cnt = InitCnt
    /\ queue = [s \in Sems |-> <<>>]
    /\ wtsem = [t \in Threads |-> NoSem]
    /\ call = [t \in Threads |-> NoSem]
    /\ loop = NoLoop
    /\ credit = InitCnt

-----------------------------------------------------------------------------
\* The running thread of c can make a semaphore call.
Caller(c) == loop = NoLoop /\ InThread(k, c) /\ call[k.current[c]] = NoSem

sem_insert(q, t) ==
    IF SemPriority THEN ch_sch_prio_insert(q, t, k.prio) ELSE ch_queue_insert(q, t)

\* The units granted by a signal to threads that have not returned yet.
InFlight(s) ==
    {t \in Threads : call[t] = s /\ k.state[t] # "WTSEM" /\ k.rdymsg[t] = "OK"}

\* What --sp->cnt < 0 leads to in the waits.
GoWait(kk, c, s, timed) ==
    LET currtp == kk.current[c]
    IN  /\ queue' = [queue EXCEPT ![s] = sem_insert(@, currtp)]
        /\ wtsem' = [wtsem EXCEPT ![currtp] = s]
        /\ call' = [call EXCEPT ![currtp] = s]
        /\ k' = chSchGoSleepTimeoutS(kk, c, "WTSEM", timed)

\* chSemWaitS() is the case ~ timed.
chSemWaitTimeoutS(c, s, timed) ==
    /\ Caller(c)
    /\ cnt[s] > - MaxCount - 1
    /\ cnt' = [cnt EXCEPT ![s] = @ - 1]
    /\ \/ /\ cnt[s] - 1 < 0
          /\ GoWait(k, c, s, timed)
          /\ UNCHANGED credit
       \/ /\ cnt[s] - 1 >= 0
          /\ credit' = [credit EXCEPT ![s] = @ - 1]
          /\ UNCHANGED <<k, queue, wtsem, call>>
    /\ UNCHANGED loop

\* TIME_IMMEDIATE with a unit available; without one nothing changes.
WaitImmediate(c, s) ==
    /\ Caller(c)
    /\ cnt[s] > 0
    /\ cnt' = [cnt EXCEPT ![s] = @ - 1]
    /\ credit' = [credit EXCEPT ![s] = @ - 1]
    /\ UNCHANGED <<k, queue, wtsem, call, loop>>

\* The wait of the running thread returns u.rdymsg to its caller.
Return(c) ==
    LET t == k.current[c]
    IN  /\ loop = NoLoop
        /\ InThread(k, c)
        /\ call[t] # NoSem
        /\ credit' = [credit EXCEPT ![call[t]] = IF k.rdymsg[t] = "OK" THEN @ - 1 ELSE @]
        /\ call' = [call EXCEPT ![t] = NoSem]
        /\ UNCHANGED <<k, cnt, queue, wtsem, loop>>

\* Mutant: the last waiter is not woken.
M_Signal(s, kk, woken) ==
    /\ cnt[s] < MaxCount
    /\ cnt' = [cnt EXCEPT ![s] = @ + 1]
    /\ credit' = [credit EXCEPT ![s] = @ + 1]
    /\ \/ /\ cnt[s] + 1 < 0
          /\ k' = woken
          /\ wtsem' = [wtsem EXCEPT ![Head(queue[s])] = NoSem]
          /\ queue' = [queue EXCEPT ![s] = ch_queue_fifo_remove(@)]
       \/ /\ cnt[s] + 1 >= 0
          /\ k' = kk
          /\ UNCHANGED <<wtsem, queue>>

\* Mutant: the overflow of the counter is not guarded.
M_SignalOverflow(s, kk, woken) ==
    /\ cnt' = [cnt EXCEPT ![s] = @ + 1]
    /\ credit' = [credit EXCEPT ![s] = @ + 1]
    /\ \/ /\ cnt[s] + 1 <= 0
          /\ k' = woken
          /\ wtsem' = [wtsem EXCEPT ![Head(queue[s])] = NoSem]
          /\ queue' = [queue EXCEPT ![s] = ch_queue_fifo_remove(@)]
       \/ /\ cnt[s] + 1 > 0
          /\ k' = kk
          /\ UNCHANGED <<wtsem, queue>>

\* ++sp->cnt, and when it is not positive the head of the queue leaves it; the
\* kernel state is then woken, else kk.
Signal(s, kk, woken) ==
    /\ cnt[s] < MaxCount
    /\ cnt' = [cnt EXCEPT ![s] = @ + 1]
    /\ credit' = [credit EXCEPT ![s] = @ + 1]
    /\ \/ /\ cnt[s] + 1 <= 0
          /\ k' = woken
          /\ wtsem' = [wtsem EXCEPT ![Head(queue[s])] = NoSem]
          /\ queue' = [queue EXCEPT ![s] = ch_queue_fifo_remove(@)]
       \/ /\ cnt[s] + 1 > 0
          /\ k' = kk
          /\ UNCHANGED <<wtsem, queue>>

chSemSignal(c, s) ==
    /\ Caller(c)
    /\ Signal(s, k, chSchWakeupS(k, c, Head(queue[s]), "OK"))
    /\ UNCHANGED <<call, loop>>

chSemSignalI(c, s) ==
    /\ loop = NoLoop
    /\ Signal(s, EnterIsr(k, c), ReadyWithMsg(EnterIsr(k, c), c, Head(queue[s]), "OK"))
    /\ UNCHANGED <<call, loop>>

\* Signals s1 and waits on s2 in one critical section.
chSemSignalWait(c, s1, s2) ==
    LET currtp == k.current[c]
        woken  == cnt[s1] + 1 <= 0
        waits  == cnt[s2] - 1 < 0
        tp     == Head(queue[s1])
        k1     == IF woken THEN ReadyWithMsg(k, c, tp, "OK") ELSE k
    IN  /\ Caller(c)
        /\ s1 # s2
        /\ cnt[s1] < MaxCount
        /\ cnt[s2] > - MaxCount - 1
        /\ cnt' = [cnt EXCEPT ![s1] = @ + 1, ![s2] = @ - 1]
        /\ queue' = [queue EXCEPT ![s1] = IF woken THEN ch_queue_fifo_remove(@) ELSE @,
                                  ![s2] = IF waits THEN sem_insert(@, currtp) ELSE @]
        /\ wtsem' = [t \in Threads |-> IF woken /\ t = tp THEN NoSem
                                       ELSE IF waits /\ t = currtp THEN s2 ELSE wtsem[t]]
        /\ call' = [call EXCEPT ![currtp] = IF waits THEN s2 ELSE @]
        /\ credit' = [credit EXCEPT ![s1] = @ + 1, ![s2] = IF waits THEN @ ELSE @ - 1]
        /\ k' = IF waits THEN chSchGoSleepS(k1, c, "WTSEM") ELSE chSchRescheduleS(k1, c)
        /\ UNCHANGED loop

-----------------------------------------------------------------------------
(* Resets and additions: entry, iterations, exit *)

\* The context of a call: a thread of c, or an interrupt handler of c.
Context(c, thread) ==
    /\ loop = NoLoop
    /\ IF thread THEN Caller(c) /\ k' = k ELSE k' = EnterIsr(k, c)

\* Grants in flight survive a reset: their threads return MSG_OK.
chSemResetWithMessageI(c, s, n, thread) ==
    /\ Context(c, thread)
    /\ n \in 0 .. MaxCount
    /\ cnt' = [cnt EXCEPT ![s] = n]
    /\ credit' = [credit EXCEPT ![s] = n + Cardinality(InFlight(s))]
    /\ loop' = [op |-> "reset", core |-> c, sem |-> s, left |-> 0, thread |-> thread]
    /\ UNCHANGED <<queue, wtsem, call>>

chSemAddCounterI(c, s, n, thread) ==
    /\ Context(c, thread)
    /\ n > 0
    /\ cnt[s] <= 0 \/ n <= MaxCount - cnt[s]
    /\ loop' = [op |-> "add", core |-> c, sem |-> s, left |-> n, thread |-> thread]
    /\ UNCHANGED <<cnt, queue, wtsem, call, credit>>

ResetIteration ==
    LET s  == loop.sem
        tp == Head(queue[s])
    IN  /\ loop.op = "reset"
        /\ queue[s] # <<>>
        /\ queue' = [queue EXCEPT ![s] = ch_queue_fifo_remove(@)]
        /\ wtsem' = [wtsem EXCEPT ![tp] = NoSem]
        /\ k' = ReadyWithMsg(k, loop.core, tp, "RESET")
        /\ UNCHANGED <<cnt, call, loop, credit>>

AddIteration ==
    /\ loop.op = "add"
    /\ loop.left > 0
    /\ Signal(loop.sem, k, ReadyWithMsg(k, loop.core, Head(queue[loop.sem]), "OK"))
    /\ loop' = [loop EXCEPT !.left = @ - 1]
    /\ UNCHANGED call

LoopEnd ==
    /\ \/ loop.op = "reset" /\ queue[loop.sem] = <<>>
       \/ loop.op = "add" /\ loop.left = 0
    /\ k' = IF loop.thread THEN chSchRescheduleS(k, loop.core) ELSE k
    /\ loop' = NoLoop
    /\ UNCHANGED <<cnt, queue, wtsem, call, credit>>

-----------------------------------------------------------------------------
(* Interrupts of the kernel *)

chThdStartI(c, t) ==
    /\ loop = NoLoop
    /\ k.state[t] = "WTSTART"
    /\ k' = ReadyWithMsg(EnterIsr(k, c), c, t, "OK")
    /\ UNCHANGED <<cnt, queue, wtsem, call, loop, credit>>

Expire(c, t) ==
    /\ loop = NoLoop
    /\ TimerDueEnabled(k, c, t)
    /\ k' = TimerDue(k, c, t)
    /\ UNCHANGED <<cnt, queue, wtsem, call, loop, credit>>

\* The timeout callback: the counter is given back the unit the wait took.
sch_wakeup(c) ==
    LET t == k.firing[c]
        s == wtsem[t]
        kk == [k EXCEPT !.firing[c] = NoThread]
    IN  /\ loop = NoLoop
        /\ t # NoThread
        /\ \/ /\ AlreadyReady(k, t)
              /\ k' = kk
              /\ UNCHANGED <<cnt, queue, wtsem>>
           \/ /\ ~ AlreadyReady(k, t)
              /\ cnt' = [cnt EXCEPT ![s] = @ + 1]
              /\ queue' = [queue EXCEPT ![s] = ch_queue_dequeue(@, t)]
              /\ wtsem' = [wtsem EXCEPT ![t] = NoSem]
              /\ k' = sch_ready_behind([kk EXCEPT !.rdymsg[t] = "TIMEOUT"], t)
        /\ UNCHANGED <<call, loop, credit>>

Notified(c) ==
    /\ loop = NoLoop
    /\ c \in k.notified
    /\ k' = NotifyIrq(k, c)
    /\ UNCHANGED <<cnt, queue, wtsem, call, loop, credit>>

ExitIsr(c) ==
    /\ loop = NoLoop
    /\ IsrExitEnabled(k, c)
    /\ k' = IsrExit(k, c)
    /\ UNCHANGED <<cnt, queue, wtsem, call, loop, credit>>

-----------------------------------------------------------------------------
SemCall(c) ==
    \E s \in Sems :
        \/ \E timed \in BOOLEAN : chSemWaitTimeoutS(c, s, timed)
        \/ WaitImmediate(c, s)
        \/ chSemSignal(c, s)
        \/ chSemSignalI(c, s)
        \/ \E s2 \in Sems : chSemSignalWait(c, s, s2)
        \/ \E n \in 0 .. MaxCount, thread \in BOOLEAN :
              \/ chSemResetWithMessageI(c, s, n, thread)
              \/ chSemAddCounterI(c, s, n, thread)

KernelIrq(c) ==
    \/ \E t \in UserThreads : chThdStartI(c, t)
    \/ \E t \in Threads : Expire(c, t)
    \/ sch_wakeup(c)
    \/ Notified(c)
    \/ ExitIsr(c)

LoopStep == ResetIteration \/ AddIteration \/ LoopEnd

Next == (\E c \in Cores : SemCall(c) \/ Return(c) \/ KernelIrq(c)) \/ LoopStep

Spec == Init /\ [][Next]_vars

-----------------------------------------------------------------------------
(* Safety *)

\* The assertion "inconsistent semaphore", made exact: a negative counter is
\* the number of waiting threads and with a counter that is not negative
\* nobody waits; the queue holds, once each, the threads in CH_STATE_WTSEM
\* on this semaphore, the most important first when CH_CFG_USE_SEMAPHORES_PRIORITY
\* is set.  Only a reset that is emptying the queue is between.
SemConsistent ==
    \A s \in Sems :
        /\ NoDuplicates(queue[s])
        /\ ToSet(queue[s]) = {t \in Threads : k.state[t] = "WTSEM" /\ wtsem[t] = s}
        /\ SemPriority => SortedByPrio(queue[s], k.prio)
        /\ (loop.op = "reset" => loop.sem # s) =>
              IF cnt[s] < 0 THEN Len(queue[s]) = - cnt[s] ELSE queue[s] = <<>>

\* No unit is lost or made up: the units put in a semaphore and not taken by
\* a wait that returned MSG_OK are in the counter or granted to a thread
\* that is yet to return.  A timeout racing a signal is in one of the two.
UnitsConserved ==
    \A s \in Sems :
        credit[s] = (IF cnt[s] > 0 THEN cnt[s] ELSE 0) + Cardinality(InFlight(s))

\* The kernel invariants survive the semaphore operations.
KernelOK ==
    /\ ReadyListExact(k) /\ ReadyListSorted(k) /\ CurrentExact(k)
    /\ loop = NoLoop => \A c \in Cores \ (k.isr \union k.notified) : PriorityOrder(k, c)

-----------------------------------------------------------------------------
(* RtSem implements SemSpec.  A reset is one step there: the threads still   *)
(* in the queue of a semaphore being reset count as already woken.           *)

Resetting(s) == loop.op = "reset" /\ loop.sem = s

Abstract == INSTANCE SemSpec WITH
    avail   <- [s \in Sems |-> IF cnt[s] > 0 THEN cnt[s] ELSE 0],
    waiting <- [s \in Sems |-> IF Resetting(s) THEN {}
                               ELSE {t \in Threads : k.state[t] = "WTSEM" /\ wtsem[t] = s}],
    result  <- [t \in Threads |->
                  IF call[t] = NoSem THEN "none"
                  ELSE IF k.state[t] # "WTSEM" THEN k.rdymsg[t]
                  ELSE IF Resetting(call[t]) THEN "RESET" ELSE "none"]

\* Seen from its users the code is a counting semaphore: each step of the
\* kernel, the handlers and the callback is a step of SemSpec or invisible.
ImplementsSemSpec == Abstract!SSpec

=============================================================================
