------------------------------ MODULE ChSched ------------------------------
(***************************************************************************)
(* The scheduler of the RT kernel (chschd.c), as functions from a kernel   *)
(* state to a kernel state.  A kernel state k is a record:                 *)
(*   current   the running thread of each core (os_instance_t.rlist)       *)
(*   ready     the ready list of each core, highest priority first         *)
(*   state, prio, ticks, rdymsg   the fields of thread_t                   *)
(*   armed     threads whose timeout timer (the virtual_timer_t local to   *)
(*             chSchGoSleepTimeoutS) is in the timers list                 *)
(*   firing    per core, the thread whose timer chVTDoTickI has unlinked   *)
(*             and whose callback it is about to call, outside the lock    *)
(*   isr       cores that are executing interrupt handlers                 *)
(*   notified  cores with a pending reschedule interrupt (SMP only)        *)
(* Every function is called with the kernel lock held, so one application  *)
(* is one atomic step; the components compose them into actions.  The      *)
(* parameter c is currcore, the core that executes the call.               *)
(***************************************************************************)
EXTENDS ChLists

CONSTANTS
    Cores,        \* the OS instances, one in a single core system
    Threads,      \* all the threads, the idle threads included
    Idle,         \* Idle[c]: the idle thread of core c
    Owner,        \* Owner[t]: the core a thread is bound to (thread_t.owner)
    Quantum,      \* CH_CFG_TIME_QUANTUM, 0 disables round robin
    Messages,     \* the wakeup messages used by the components
    NoThread      \* NULL

IDLEPRIO    == 1
LOWPRIO     == 2

Prios == Nat \ {0}

ASSUME KernelAssumption ==
    /\ IsFiniteSet(Threads)
    /\ Idle \in [Cores -> Threads]
    /\ Owner \in [Threads -> Cores]
    /\ \A c \in Cores : Owner[Idle[c]] = c
    /\ Quantum \in Nat
    /\ NoThread \notin Threads
    /\ {"OK", "TIMEOUT", "RESET"} \subseteq Messages

States == {"WTSTART", "CURRENT", "READY", "SUSPENDED", "QUEUED", "SLEEPING",
           "WTSEM", "WTMTX", "WTCOND", "WTOREVT", "WTANDEVT", "SNDMSGQ", "WTMSG",
           "WTEXIT", "FINAL"}

\* Threads that the application can run code in.
UserThreads == Threads \ {Idle[c] : c \in Cores}

KernelType ==
    [ current  : [Cores -> Threads],
      ready    : [Cores -> Seq(Threads)],
      state    : [Threads -> States],
      prio     : [Threads -> Prios],
      ticks    : [Threads -> 0 .. Quantum],
      rdymsg   : [Threads -> Messages],
      armed    : SUBSET Threads,
      firing   : [Cores -> Threads \union {NoThread}],
      isr      : SUBSET Cores,
      notified : SUBSET Cores ]

\* The main thread has created the user threads with
\* chThdCreateSuspended() and is gone: every core runs its idle thread.
KernelInit(prio) ==
    [ current  |-> Idle,
      ready    |-> [c \in Cores |-> <<>>],
      state    |-> [t \in Threads |-> IF t \in UserThreads THEN "WTSTART" ELSE "CURRENT"],
      prio     |-> prio,
      ticks    |-> [t \in Threads |-> Quantum],
      rdymsg   |-> [t \in Threads |-> "OK"],
      armed    |-> {},
      firing   |-> [c \in Cores |-> NoThread],
      isr      |-> {},
      notified |-> {} ]

-----------------------------------------------------------------------------
(* Ready list primitives *)

\* The header has priority 0, what firstprio() reads from an empty list.
firstprio(k, c) ==
    IF k.ready[c] = <<>> THEN 0 ELSE k.prio[Head(k.ready[c])]

CurrPrio(k, c) == k.prio[k.current[c]]

\* Mutant: the state of the thread is not updated.
M_sch_ready_behind(k, t) ==
    [k EXCEPT !.ready[Owner[t]] = ch_pqueue_insert_behind(@, t, k.prio)]

sch_ready_behind(k, t) ==
    [k EXCEPT !.state[t] = "READY",
              !.ready[Owner[t]] = ch_pqueue_insert_behind(@, t, k.prio)]

sch_ready_ahead(k, t) ==
    [k EXCEPT !.state[t] = "READY",
              !.ready[Owner[t]] = ch_pqueue_insert_ahead(@, t, k.prio)]

\* Mutant: the timer is left armed when the thread was woken otherwise.
M_SwitchIn(k, c, t) == [k EXCEPT !.current[c] = t, !.state[t] = "CURRENT"]

\* Thread t becomes the running thread of core c.  If it went to sleep in
\* chSchGoSleepTimeoutS() then the first thing it does, still inside the
\* lock, is to reset its timer when the timer is still armed.
SwitchIn(k, c, t) ==
    [k EXCEPT !.current[c] = t,
              !.state[t] = "CURRENT",
              !.armed = @ \ {t}]

\* ch_pqueue_remove_highest() and switch.
SwitchToFirst(k, c) ==
    [SwitchIn(k, c, Head(k.ready[c])) EXCEPT !.ready[c] = Tail(@)]

sch_reschedule_behind(k, c) ==
    LET otp == k.current[c]
    IN  sch_ready_behind([SwitchToFirst(k, c) EXCEPT !.ticks[otp] = Quantum], otp)

sch_reschedule_ahead(k, c) ==
    sch_ready_ahead(SwitchToFirst(k, c), k.current[c])

\* Mutant: the other core is not told.
M_chSysNotifyInstance(k, c, t) == k

\* chSysNotifyInstance(): the other core takes a reschedule interrupt later.
\* Of a full FIFO only the token is dropped: the interrupt is pending already.
chSysNotifyInstance(k, c, t) ==
    [k EXCEPT !.notified = IF Owner[t] = c THEN @ ELSE @ \union {Owner[t]}]

-----------------------------------------------------------------------------
(* The scheduler API *)

sch_requeue_behind(k, c, t) ==
    [chSysNotifyInstance(k, c, t) EXCEPT
        !.ready[Owner[t]] = ch_pqueue_insert_behind(ch_queue_dequeue(@, t), t, k.prio)]

chSchReadyI(k, c, t) == sch_ready_behind(chSysNotifyInstance(k, c, t), t)

\* tp->u.rdymsg = msg; chSchReadyI(tp): the usual pair.
ReadyWithMsg(k, c, t, msg) == chSchReadyI([k EXCEPT !.rdymsg[t] = msg], c, t)

chSchGoSleepS(k, c, newstate) ==
    LET otp == k.current[c]
    IN  SwitchToFirst([k EXCEPT !.state[otp] = newstate, !.ticks[otp] = Quantum], c)

\* The part of chSchGoSleepTimeoutS() up to the switch; the rest, the reset
\* of the timer, is in SwitchIn.  timed is FALSE for TIME_INFINITE.
chSchGoSleepTimeoutS(k, c, newstate, timed) ==
    chSchGoSleepS([k EXCEPT !.armed = IF timed THEN @ \union {k.current[c]} ELSE @],
                  c, newstate)

\* Mutant: the thread is made ready, the running one goes on.
M_chSchWakeupS(k0, c, ntp, msg) == ReadyWithMsg(k0, c, ntp, msg)

chSchWakeupS(k0, c, ntp, msg) ==
    LET k == [k0 EXCEPT !.rdymsg[ntp] = msg]
        otp == k.current[c]
    IN  IF Owner[ntp] # c
          THEN sch_ready_behind(chSysNotifyInstance(k, c, ntp), ntp)
          ELSE IF k.prio[ntp] <= k.prio[otp]
            THEN sch_ready_behind(k, ntp)
            ELSE SwitchIn(sch_ready_ahead(k, otp), c, ntp)

chSchRescheduleS(k, c) ==
    IF firstprio(k, c) > CurrPrio(k, c) THEN sch_reschedule_ahead(k, c) ELSE k

\* Mutant: a peer never preempts.
M_NoRoundRobin(k, c) == firstprio(k, c) > CurrPrio(k, c)

chSchIsPreemptionRequired(k, c) ==
    IF Quantum = 0 \/ k.ticks[k.current[c]] > 0
      THEN firstprio(k, c) > CurrPrio(k, c)
      ELSE firstprio(k, c) >= CurrPrio(k, c)

chSchDoPreemption(k, c) ==
    LET otp == k.current[c]
        k1  == SwitchToFirst(k, c)
    IN  IF Quantum > 0 /\ k1.ticks[otp] = 0
          THEN [sch_ready_behind(k1, otp) EXCEPT !.ticks[otp] = Quantum]
          ELSE sch_ready_ahead(k1, otp)

\* The all-in-one form some ports call instead of the pair above.
chSchPreemption(k, c) ==
    IF Quantum = 0 \/ k.ticks[k.current[c]] > 0
      THEN IF firstprio(k, c) > CurrPrio(k, c) THEN sch_reschedule_ahead(k, c) ELSE k
      ELSE IF firstprio(k, c) >= CurrPrio(k, c) THEN sch_reschedule_behind(k, c) ELSE k

chSchDoYieldS(k, c) ==
    IF firstprio(k, c) >= CurrPrio(k, c) THEN sch_reschedule_behind(k, c) ELSE k

\* What the ports that swap the context themselves call.
chSchSelectFirst(k, c) == chSchDoPreemption(k, c)

-----------------------------------------------------------------------------
(* Interrupt handling, common to all the components.  A core inside its    *)
(* handlers runs no thread; several handlers may run, nested or chained,   *)
(* before the last one returns through the preemption check.               *)

InThread(k, c) == c \notin k.isr /\ k.current[c] \in UserThreads

EnterIsr(k, c) == [k EXCEPT !.isr = @ \union {c}]

\* chSysTimerHandlerI() without the timers: the tick handler never nests
\* with itself, hence not while it is calling a timer callback.
TickEnabled(k, c) == k.firing[c] = NoThread

chSysTimerHandlerI(k, c) ==
    LET currtp == k.current[c]
    IN  [EnterIsr(k, c) EXCEPT !.ticks[currtp] = IF @ > 0 THEN @ - 1 ELSE @]

\* chVTDoTickI() finds the timer of t due: it unlinks the timer, releases
\* the lock and is about to call the callback.
TimerDueEnabled(k, c, t) ==
    t \in k.armed /\ Owner[t] = c /\ k.firing[c] = NoThread

TimerDue(k, c, t) ==
    [EnterIsr(k, c) EXCEPT !.armed = @ \ {t}, !.firing[c] = t]

\* Mutant: the callback does not see that the thread was woken meanwhile.
M_AlreadyReady(k, t) == FALSE

\* Mutant: only waits on an object are ended by the callback.
M_AlreadyReadyOrAsleep(k, t) == k.state[t] \in {"READY", "SLEEPING"}

\* Between the expiry and the callback another handler, or another core, may
\* have made the thread ready: the early return of __sch_wakeup().
AlreadyReady(k, t) == k.state[t] = "READY"

\* The reschedule interrupt of another core: nothing but the exit path.
NotifyIrq(k, c) == [EnterIsr(k, c) EXCEPT !.notified = @ \ {c}]

\* The last handler returns (CH_IRQ_EPILOGUE and the port's exit code).
IsrExitEnabled(k, c) == c \in k.isr /\ k.firing[c] = NoThread

IsrExit(k, c) ==
    LET k1 == [k EXCEPT !.isr = @ \ {c}]
    IN  IF chSchIsPreemptionRequired(k1, c) THEN chSchDoPreemption(k1, c) ELSE k1

-----------------------------------------------------------------------------
(* The state of the kernel the components rely on *)

\* Each ready list holds exactly the ready threads of its core, once each.
ReadyListExact(k) ==
    \A c \in Cores :
        /\ NoDuplicates(k.ready[c])
        /\ ToSet(k.ready[c]) = {t \in Threads : k.state[t] = "READY" /\ Owner[t] = c}

ReadyListSorted(k) == \A c \in Cores : SortedByPrio(k.ready[c], k.prio)

\* One running thread per core, one of its own.
CurrentExact(k) ==
    \A t \in Threads, c \in Cores :
        (k.current[c] = t) <=> (k.state[t] = "CURRENT" /\ Owner[t] = c)

\* The assertion of chSysUnlock() and of chSchWakeupS().
PriorityOrder(k, c) == CurrPrio(k, c) >= firstprio(k, c)
=============================================================================
