----------------------------- MODULE RtThreads -----------------------------
(***************************************************************************)
(* Threads that suspend, sleep, queue and are woken (chthreads.c) on top   *)
(* of the scheduler: thread references, threads queues, sleeps with a      *)
(* timeout, round robin, from threads and from interrupt handlers, on one  *)
(* core or on several.  What a thread does between two kernel calls is     *)
(* left out, so in every state its running thread may make any call.  The  *)
(* loop of chThdDequeueAllI() is one step per iteration, with the lock     *)
(* held: while loop # NoLoop no other step of any core is possible.        *)
(***************************************************************************)
EXTENDS ChSched

CONSTANTS
    Refs,       \* thread_reference_t variables
    Queues,     \* threads_queue_t objects
    NoObj,      \* no waiting object in thread_t.u
    Prio        \* Prio[t]: the priority a thread is created with

ASSUME ThreadsAssumption ==
    /\ Prio \in [Threads -> Prios]
    /\ \A c \in Cores : Prio[Idle[c]] = IDLEPRIO
    /\ \A t \in UserThreads : Prio[t] >= LOWPRIO
    /\ NoObj \notin Refs \union Queues

VARIABLES
    k,          \* the kernel state
    trp,        \* trp[r]: the thread a reference holds, or NoThread
    tqueue,     \* tqueue[q]: the threads in a threads queue
    wtobj,      \* wtobj[t]: u.wttrp or u.wtqueuep, overwritten by u.rdymsg
    loop        \* the loop being executed with the lock held, or NoLoop

vars == <<k, trp, tqueue, wtobj, loop>>

objs == <<trp, tqueue, wtobj, loop>>

NoLoop == [op |-> "none"]

\* The running thread, or a handler, of core wakes all the threads of queue.
Loops == [op : {"thread", "handler"}, core : Cores, queue : Queues]

TypeOK ==
    /\ k \in KernelType
    /\ trp \in [Refs -> Threads \union {NoThread}]
    /\ tqueue \in [Queues -> Seq(Threads)]
    /\ wtobj \in [Threads -> Refs \union Queues \union {NoObj}]
    /\ loop \in Loops \union {NoLoop}

Init ==
    /\ k = KernelInit(Prio)
    /\ trp = [r \in Refs |-> NoThread]
    /\ tqueue = [q \in Queues |-> <<>>]
    /\ wtobj = [t \in Threads |-> NoObj]
    /\ loop = NoLoop

-----------------------------------------------------------------------------
(* Calls of the running thread *)

Unlocked == loop = NoLoop

Caller(c) == Unlocked /\ InThread(k, c)

chThdStart(c, t) ==
    /\ Caller(c)
    /\ k.state[t] = "WTSTART"
    /\ k' = chSchWakeupS(k, c, t, "OK")
    /\ UNCHANGED objs

\* chThdSuspendS() is the case ~ timed; TIME_IMMEDIATE changes nothing.
chThdSuspendTimeoutS(c, r, timed) ==
    /\ Caller(c)
    /\ trp[r] = NoThread
    /\ trp' = [trp EXCEPT ![r] = k.current[c]]
    /\ wtobj' = [wtobj EXCEPT ![k.current[c]] = r]
    /\ k' = chSchGoSleepTimeoutS(k, c, "SUSPENDED", timed)
    /\ UNCHANGED <<tqueue, loop>>

chThdResumeS(c, r) ==
    /\ Caller(c)
    /\ trp[r] # NoThread
    /\ k' = chSchWakeupS(k, c, trp[r], "OK")
    /\ wtobj' = [wtobj EXCEPT ![trp[r]] = NoObj]
    /\ trp' = [trp EXCEPT ![r] = NoThread]
    /\ UNCHANGED <<tqueue, loop>>

chThdSleepS(c) ==
    /\ Caller(c)
    /\ k' = chSchGoSleepTimeoutS(k, c, "SLEEPING", TRUE)
    /\ UNCHANGED objs

chThdEnqueueTimeoutS(c, q, timed) ==
    /\ Caller(c)
    /\ tqueue' = [tqueue EXCEPT ![q] = ch_queue_insert(@, k.current[c])]
    /\ wtobj' = [wtobj EXCEPT ![k.current[c]] = q]
    /\ k' = chSchGoSleepTimeoutS(k, c, "QUEUED", timed)
    /\ UNCHANGED <<trp, loop>>

\* The first thread of q is taken out and made ready, kk is the kernel then.
chThdDoDequeueNextI(kk, c, q) ==
    LET t == Head(tqueue[q])
    IN  /\ tqueue' = [tqueue EXCEPT ![q] = ch_queue_fifo_remove(@)]
        /\ wtobj' = [wtobj EXCEPT ![t] = NoObj]
        /\ k' = ReadyWithMsg(kk, c, t, "RESET")
        /\ UNCHANGED <<trp, loop>>

\* chSysLock(); chThdDequeueAllI(); chSchRescheduleS(); chSysUnlock();
ThdDequeueAll(c, q) ==
    /\ Caller(c)
    /\ tqueue[q] # <<>>
    /\ loop' = [op |-> "thread", core |-> c, queue |-> q]
    /\ UNCHANGED <<k, trp, tqueue, wtobj>>

chThdYield(c) ==
    /\ Caller(c)
    /\ k' = chSchDoYieldS(k, c)
    /\ UNCHANGED objs

-----------------------------------------------------------------------------
(* Calls of the interrupt handlers of core c *)

chThdStartI(c, t) ==
    /\ Unlocked
    /\ k.state[t] = "WTSTART"
    /\ k' = ReadyWithMsg(EnterIsr(k, c), c, t, "OK")
    /\ UNCHANGED objs

chThdResumeI(c, r) ==
    /\ Unlocked
    /\ trp[r] # NoThread
    /\ k' = ReadyWithMsg(EnterIsr(k, c), c, trp[r], "OK")
    /\ wtobj' = [wtobj EXCEPT ![trp[r]] = NoObj]
    /\ trp' = [trp EXCEPT ![r] = NoThread]
    /\ UNCHANGED <<tqueue, loop>>

chThdDequeueNextI(c, q) ==
    /\ Unlocked
    /\ tqueue[q] # <<>>
    /\ chThdDoDequeueNextI(EnterIsr(k, c), c, q)

chThdDequeueAllI(c, q) ==
    /\ Unlocked
    /\ tqueue[q] # <<>>
    /\ k' = EnterIsr(k, c)
    /\ loop' = [op |-> "handler", core |-> c, queue |-> q]
    /\ UNCHANGED <<trp, tqueue, wtobj>>

\* An iteration of chThdDequeueAllI().
DequeueAllStep ==
    /\ loop # NoLoop
    /\ tqueue[loop.queue] # <<>>
    /\ chThdDoDequeueNextI(k, loop.core, loop.queue)

DequeueAllEnd ==
    /\ loop # NoLoop
    /\ tqueue[loop.queue] = <<>>
    /\ k' = IF loop.op = "thread" THEN chSchRescheduleS(k, loop.core) ELSE k
    /\ loop' = NoLoop
    /\ UNCHANGED <<trp, tqueue, wtobj>>

Tick(c) ==
    /\ Unlocked
    /\ Quantum > 0
    /\ TickEnabled(k, c)
    /\ k' = chSysTimerHandlerI(k, c)
    /\ UNCHANGED objs

Expire(c, t) ==
    /\ Unlocked
    /\ TimerDueEnabled(k, c, t)
    /\ k' = TimerDue(k, c, t)
    /\ UNCHANGED objs

\* The thread the callback wakes: what sch_wakeup does after its switch.
Timeout(c, t) ==
    sch_ready_behind([k EXCEPT !.firing[c] = NoThread, !.rdymsg[t] = "TIMEOUT"], t)

\* The timeout callback.
sch_wakeup(c) ==
    LET t == k.firing[c]
    IN  /\ Unlocked
        /\ t # NoThread
        /\ CASE AlreadyReady(k, t) ->
                  /\ k' = [k EXCEPT !.firing[c] = NoThread]
                  /\ UNCHANGED objs
             [] k.state[t] = "SUSPENDED" ->
                  /\ trp' = [trp EXCEPT ![wtobj[t]] = NoThread]
                  /\ wtobj' = [wtobj EXCEPT ![t] = NoObj]
                  /\ k' = Timeout(c, t)
                  /\ UNCHANGED <<tqueue, loop>>
             [] k.state[t] = "QUEUED" ->
                  /\ tqueue' = [tqueue EXCEPT ![wtobj[t]] = ch_queue_dequeue(@, t)]
                  /\ wtobj' = [wtobj EXCEPT ![t] = NoObj]
                  /\ k' = Timeout(c, t)
                  /\ UNCHANGED <<trp, loop>>
             [] OTHER ->
                  /\ k' = Timeout(c, t)
                  /\ UNCHANGED objs

Notified(c) ==
    /\ Unlocked
    /\ c \in k.notified
    /\ k' = NotifyIrq(k, c)
    /\ UNCHANGED objs

ExitIsr(c) ==
    /\ Unlocked
    /\ IsrExitEnabled(k, c)
    /\ k' = IsrExit(k, c)
    /\ UNCHANGED objs

-----------------------------------------------------------------------------
ThreadStep(c) ==
    \/ \E t \in UserThreads : chThdStart(c, t)
    \/ \E r \in Refs, timed \in BOOLEAN : chThdSuspendTimeoutS(c, r, timed)
    \/ \E r \in Refs : chThdResumeS(c, r)
    \/ chThdSleepS(c)
    \/ \E q \in Queues, timed \in BOOLEAN : chThdEnqueueTimeoutS(c, q, timed)
    \/ \E q \in Queues : ThdDequeueAll(c, q)
    \/ chThdYield(c)

IsrCall(c) ==
    \/ \E t \in UserThreads : chThdStartI(c, t)
    \/ \E r \in Refs : chThdResumeI(c, r)
    \/ \E q \in Queues : chThdDequeueNextI(c, q) \/ chThdDequeueAllI(c, q)

KernelIrq(c) ==
    \/ Tick(c)
    \/ \E t \in Threads : Expire(c, t)
    \/ sch_wakeup(c)
    \/ Notified(c)
    \/ ExitIsr(c)

Next ==
    \/ \E c \in Cores : ThreadStep(c) \/ IsrCall(c) \/ KernelIrq(c)
    \/ DequeueAllStep \/ DequeueAllEnd

Spec == Init /\ [][Next]_vars

\* Loops go on, pending interrupts are taken and handlers return.  The tick interrupt is
\* periodic and its handler serves every due timer before it returns, so a
\* tick or a timer that is postponed by the callbacks of other timers again
\* and again is still served: strong fairness.
Fairness ==
    /\ WF_vars(DequeueAllStep \/ DequeueAllEnd)
    /\ \A c \in Cores :
          /\ SF_vars(Tick(c))
          /\ WF_vars(sch_wakeup(c))
          /\ WF_vars(Notified(c))
          /\ WF_vars(ExitIsr(c))
          /\ \A t \in Threads : SF_vars(Expire(c, t))

FairSpec == Spec /\ Fairness

-----------------------------------------------------------------------------
(* Safety *)

\* The ready list of each core holds its ready threads, once each and in
\* priority order, and each core has one running thread of its own, whatever
\* mix of switches, wakeups, timeouts and remote wakeups led there.
ReadyListOK == ReadyListExact(k) /\ ReadyListSorted(k) /\ CurrentExact(k)

\* Out of the kernel lock and the handlers, a core without a reschedule order pending runs a
\* thread with the highest priority among its ready ones: the assertion
\* "priority order violation" of chSysUnlock() and chSchWakeupS().
HighestPriorityRuns ==
    Unlocked => \A c \in Cores \ (k.isr \union k.notified) : PriorityOrder(k, c)

\* A suspended thread is held by the one reference it waits on and a queued
\* thread is once in the one queue it waits on; no reference or queue holds
\* a thread that has been woken, by a timeout or otherwise.
WaitersLinked ==
    /\ \A r \in Refs, t \in Threads :
          (trp[r] = t) <=> (k.state[t] = "SUSPENDED" /\ wtobj[t] = r)
    /\ \A q \in Queues :
          /\ NoDuplicates(tqueue[q])
          /\ ToSet(tqueue[q]) = {t \in Threads : k.state[t] = "QUEUED" /\ wtobj[t] = q}
    /\ \A t \in Threads : k.state[t] \in {"SUSPENDED", "QUEUED"} => wtobj[t] # NoObj

\* The timeout timer lives in the stack frame of chSchGoSleepTimeoutS(): when
\* its thread runs, the timer is neither in the timers list nor about to be
\* called back.
TimerFrameAlive ==
    \A t \in Threads :
        k.state[t] = "CURRENT" => /\ t \notin k.armed
                                 /\ \A c \in Cores : k.firing[c] # t

\* A preempted thread that has used part of its time quantum is the first of
\* its priority level in the ready list: it resumes before any peer.
PreemptedKeepsTurn ==
    \A c \in Cores : \A i, j \in DOMAIN k.ready[c] :
        LET t == k.ready[c][i]
            p == k.ready[c][j]
        IN  (k.ticks[t] < Quantum /\ k.prio[p] = k.prio[t] /\ p # t) => i < j

\* Once a thread is made ready with a message, nothing changes the message
\* before the thread runs: a timeout that comes too late is not reported.
WakeMessageStable ==
    [][\A t \in Threads :
         (k.state[t] = "READY" /\ k'.state[t] = "READY")
             => k'.rdymsg[t] = k.rdymsg[t]]_vars

\* What chSysUnlock() and chSchWakeupS() assert, with no exception for a core
\* whose reschedule interrupt is still pending: a thread of that core can be
\* spinning in chSysLock() with the interrupts masked while another core
\* makes a more important thread of it ready.
UnlockAssertion == \A c \in Cores : Caller(c) => PriorityOrder(k, c)

-----------------------------------------------------------------------------
(* Liveness *)

\* No user thread has a higher priority.
TopThreads == {t \in UserThreads : \A u \in UserThreads : Prio[u] <= Prio[t]}

\* Round robin: a ready thread of the highest level gets its core, even if
\* its peers never give it up.
RoundRobin ==
    \A t \in TopThreads : k.state[t] = "READY" ~> k.state[t] = "CURRENT"

\* A sleep with a timeout ends, and a thread of the highest level then runs.
TimedSleepEnds ==
    \A t \in TopThreads : t \in k.armed ~> k.state[t] = "CURRENT"
=============================================================================
