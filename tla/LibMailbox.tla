----------------------------- MODULE LibMailbox -----------------------------
(***************************************************************************)
(* A mailbox of OSLIB (chmboxes.c) on the NIL kernel: a ring of messages   *)
(* with two threads queues, posted to, fetched from and reset by threads,  *)
(* with and without timeout, and by interrupt handlers.                    *)
(*                                                                         *)
(* A blocked call is a loop: a thread that is switched in after its wait   *)
(* still holds the kernel lock and looks at the mailbox again (Resuming).  *)
(***************************************************************************)
EXTENDS NilSched, Sequences

CONSTANTS
    Msgs,       \* the messages
    Size,       \* the slots of the buffer
    Timeouts,   \* the timeouts used by the calls
    Naps,       \* the intervals the threads sleep for
    NoCall

ASSUME MailboxAssumption ==
    /\ Queues = {"qw", "qr"}
    /\ Size \in Nat \ {0}
    /\ Timeouts \subseteq Times
    /\ Naps \subseteq 1 .. TIME_MAX_INTERVAL

VARIABLES
    n,          \* the kernel state
    mb,         \* the mailbox: buffer, rdptr, wrptr, cnt, reset
    call        \* call[t]: the blocking call t is inside of, or NoCall

vars == <<n, mb, call>>

Calls == [op : {"post", "ahead"}, msg : Msgs, timeout : Timeouts]
             \union [op : {"fetch"}, timeout : Timeouts]

ASSUME NoCallAssumption == NoCall \notin Calls \union [take : BOOLEAN, timed : BOOLEAN]

NoMsg == "uninitialized"

TypeOK ==
    /\ n \in NilType
    /\ mb \in [buffer : [0 .. Size - 1 -> Msgs \union {NoMsg}], rdptr : 0 .. Size - 1,
               wrptr : 0 .. Size - 1, cnt : 0 .. Size, reset : BOOLEAN]
    /\ call \in [Slots -> Calls \union {NoCall}]

\* chMBObjectInit()
Init ==
    /\ n = NilInit
    /\ mb = [buffer |-> [i \in 0 .. Size - 1 |-> NoMsg], rdptr |-> 0, wrptr |-> 0,
             cnt |-> 0, reset |-> FALSE]
    /\ call = [t \in Slots |-> NoCall]

-----------------------------------------------------------------------------
(* The ring *)

chMBGetUsedCountI(m) == m.cnt

chMBGetFreeCountI(m) == Size - m.cnt

\* Advances a pointer, from the last slot to the first one.
Succ(ptr) == IF ptr + 1 >= Size THEN 0 ELSE ptr + 1

Write(m, msg) ==
    [m EXCEPT !.buffer[m.wrptr] = msg, !.wrptr = Succ(@), !.cnt = @ + 1]

\* Mutant: the message is written before the pointer is moved back.
M_WriteAhead(m, msg) ==
    [m EXCEPT !.rdptr = IF @ = 0 THEN Size - 1 ELSE @ - 1,
              !.buffer[m.rdptr] = msg,
              !.cnt = @ + 1]

WriteAhead(m, msg) ==
    LET rdptr == IF m.rdptr = 0 THEN Size - 1 ELSE m.rdptr - 1
    IN  [m EXCEPT !.rdptr = rdptr, !.buffer[rdptr] = msg, !.cnt = @ + 1]

Read(m) == [m EXCEPT !.rdptr = Succ(@), !.cnt = @ - 1]

-----------------------------------------------------------------------------
(* The calls *)

\* The thread that runs is inside the loop of its call.
Resuming == call[n.current] # NoCall

Unlocked == ~ Resuming

Caller == Unlocked /\ ~ n.isr /\ n.current # Idle

Serviceable(x) == IF x.op = "fetch" THEN chMBGetUsedCountI(mb) > 0 ELSE chMBGetFreeCountI(mb) > 0

Served(x) ==
    CASE x.op = "post"  -> Write(mb, x.msg)
      [] x.op = "ahead" -> WriteAhead(mb, x.msg)
      [] x.op = "fetch" -> Read(mb)

\* The queue a call waits in, and the queue of those it may let go on.
OwnQueue(x) == IF x.op = "fetch" THEN "qr" ELSE "qw"
PeerQueue(x) == IF x.op = "fetch" THEN "qw" ELSE "qr"

\* The early return of every operation.
Refused == mb.reset

\* One iteration of the loop of chMBPostTimeoutS(), chMBPostAheadTimeoutS()
\* and chMBFetchTimeoutS() by the running thread.
Iteration(x) ==
    LET t == n.current
    IN  \/ /\ Refused
           /\ call' = [call EXCEPT ![t] = NoCall]
           /\ UNCHANGED <<n, mb>>
        \/ /\ ~ Refused /\ Serviceable(x)
           /\ mb' = Served(x)
           /\ n' = chSchRescheduleS(chThdDequeueNextI(n, PeerQueue(x), "OK"))
           /\ call' = [call EXCEPT ![t] = NoCall]
        \/ /\ ~ Refused /\ ~ Serviceable(x)
           /\ x.timeout = TIME_IMMEDIATE
           /\ call' = [call EXCEPT ![t] = NoCall]
           /\ UNCHANGED <<n, mb>>
        \/ /\ ~ Refused /\ ~ Serviceable(x)
           /\ x.timeout # TIME_IMMEDIATE
           /\ n' = chThdEnqueueTimeoutS(n, OwnQueue(x), x.timeout)
           /\ call' = [call EXCEPT ![t] = x]
           /\ UNCHANGED mb

StartCall(x) == Caller /\ Iteration(x)

\* The wait has ended: again if it was with MSG_OK, else the call returns.
Retry ==
    /\ Resuming
    /\ n.msg[n.current] = "OK"
    /\ Iteration(call[n.current])

ReturnFailure ==
    /\ Resuming
    /\ n.msg[n.current] # "OK"
    /\ call' = [call EXCEPT ![n.current] = NoCall]
    /\ UNCHANGED <<n, mb>>

\* chMBPostI(), chMBPostAheadI(), chMBFetchI(): refused and unserviceable
\* calls change nothing.
CallI(x) ==
    /\ Unlocked
    /\ ~ Refused /\ Serviceable(x)
    /\ mb' = Served(x)
    /\ n' = chThdDequeueNextI(EnterIsr(n), PeerQueue(x), "OK")
    /\ UNCHANGED call

ResetMailbox == [mb EXCEPT !.wrptr = 0, !.rdptr = 0, !.cnt = 0, !.reset = TRUE]

\* Mutant: only the posters are told.
M_WakeAll(nn) == chThdDequeueAllI(nn, "qw", "RESET")

WakeAll(nn) == chThdDequeueAllI(chThdDequeueAllI(nn, "qw", "RESET"), "qr", "RESET")

chMBResetI ==
    /\ Unlocked
    /\ mb' = ResetMailbox
    /\ n' = WakeAll(EnterIsr(n))
    /\ UNCHANGED call

chMBReset ==
    /\ Caller
    /\ mb' = ResetMailbox
    /\ n' = chSchRescheduleS(WakeAll(n))
    /\ UNCHANGED call

\* Written without the lock, by a thread or a handler.
chMBResumeX ==
    /\ Unlocked
    /\ mb.reset
    /\ mb' = [mb EXCEPT !.reset = FALSE]
    /\ UNCHANGED <<n, call>>

\* The running thread lets the others run.
chThdSleepS(interval) ==
    /\ Caller
    /\ n' = chSchGoSleepTimeoutS(n, "SLEEPING", interval)
    /\ UNCHANGED <<mb, call>>

-----------------------------------------------------------------------------
(* Interrupts of the kernel *)

Tick ==
    /\ Unlocked
    /\ TickEnabled(n)
    /\ n' = ClockTick(n)
    /\ UNCHANGED <<mb, call>>

TimerHandler ==
    /\ Unlocked
    /\ \/ n.pending /\ n' = HandlerStart(n)
       \/ n.scan \in UserSlots /\ n' = HandlerStep(n)
       \/ n.scan = MaxThreads /\ n' = HandlerEnd(n)
    /\ UNCHANGED <<mb, call>>

ExitIsr ==
    /\ Unlocked
    /\ IsrExitEnabled(n)
    /\ n' = IsrExit(n)
    /\ UNCHANGED <<mb, call>>

-----------------------------------------------------------------------------
Next ==
    \/ \E x \in Calls : StartCall(x)
    \/ Retry
    \/ ReturnFailure
    \/ \E x \in Calls : CallI(x)
    \/ chMBResetI
    \/ chMBReset
    \/ chMBResumeX
    \/ \E interval \in Naps : chThdSleepS(interval)
    \/ Tick
    \/ TimerHandler
    \/ ExitIsr

Spec == Init /\ [][Next]_vars

-----------------------------------------------------------------------------
(* Safety *)

\* NIL keeps no lists: next is the most important ready thread and runs out
\* of the handlers, and each queue counter is the number of threads that wait
\* on that queue, so the scans of nil_find_thread() and nil_ready_all() never
\* run off the end of the array.
KernelOK == NextExact(n) /\ QueueCountersExact(n)

\* Threads that have been woken to look at the mailbox again.
Woken(ops) == {t \in UserSlots : call[t] # NoCall /\ n.state[t] = "READY"
                                 /\ n.msg[t] = "OK" /\ call[t].op \in ops}

\* No wakeup is lost: while somebody is queued for messages, every message in
\* the mailbox has a woken fetcher coming for it, and while somebody is queued
\* for room every free slot has a woken poster coming for it, even if handlers
\* take messages away or a reset comes in between.
NoLostWakeup ==
    /\ n.qcnt["qr"] < 0 => mb.cnt <= Cardinality(Woken({"fetch"}))
    /\ n.qcnt["qw"] < 0 => Size - mb.cnt <= Cardinality(Woken({"post", "ahead"}))
    /\ mb.reset => n.qcnt = [q \in Queues |-> 0]

\* Timeouts are exact although the counter wraps, the origin moves and waits
\* end early: between interrupts each timed wait has the stored interval that
\* ends at its deadline, the alarm is not behind any deadline, and the handler
\* of a deadline is pending when it comes.
TimeoutsExact ==
    /\ \A t \in UserSlots :
          n.timeout[t] > 0 /\ n.scan = NoScan =>
              /\ n.timeout[t] = chTimeDiffX(n.lasttime, n.clock) + n.left[t]
              /\ n.started
              /\ n.left[t] = 0 => n.pending
              /\ n.pending \/ chTimeDiffX(n.clock, n.alarm) \in 1 .. n.left[t]
    /\ \A t \in UserSlots : n.timeout[t] = 0 => n.left[t] = 0

\* A timeout is reported at the deadline only: what ends a timed wait with
\* MSG_TIMEOUT is the tick of its deadline.
NeverEarly ==
    [][\A t \in UserSlots :
         (n.state[t] # "READY" /\ n'.state[t] = "READY" /\ n'.msg[t] = "TIMEOUT")
             => n.left[t] = 0]_vars

-----------------------------------------------------------------------------
(* Refinement *)

Messages == [i \in 1 .. mb.cnt |-> mb.buffer[(mb.rdptr + i - 1) % Size]]

Promise == INSTANCE MailboxSpec WITH
    Users <- UserSlots,
    NotBlocked <- NoCall,
    buf <- Messages,
    inreset <- mb.reset,
    blocked <- [t \in UserSlots |->
                  IF call[t] = NoCall THEN NoCall
                  ELSE [take |-> call[t].op = "fetch", timed |-> call[t].timeout # TIME_INFINITE]],
    shaken <- {t \in UserSlots : call[t] # NoCall /\ n.state[t] = "READY" /\ n.msg[t] = "RESET"}

\* The ring, the queues and the retry loops together behave as a bounded
\* double ended sequence: no message is lost, duplicated or reordered, a call
\* without timeout ends only by being served or by a reset.
ImplementsMailboxSpec == Promise!MSpec
=============================================================================
