------------------------------ MODULE RtEvents ------------------------------
(***************************************************************************)
(* Event flags and event sources (chevents.c) over the scheduler: threads  *)
(* that wait for one, any or all of a set of events, with and without      *)
(* timeout, listeners that come and go, signals and broadcasts from        *)
(* threads and interrupt handlers.  Masks are sets of event identifiers.   *)
(*                                                                         *)
(* A thread that is switched in inside a wait still holds the kernel lock  *)
(* and finishes the wait before any other step of any core (Resuming).     *)
(* A broadcast walks the listeners one by one, the lock held (loop).       *)
(***************************************************************************)
EXTENDS ChSched

CONSTANTS
    Events,         \* event identifiers, the bits of eventmask_t
    Flags,          \* the bits of eventflags_t
    Sources,        \* event_source_t objects
    Listeners,      \* event_listener_t objects
    NoSource,       \* not registered
    RegArgs,        \* the events and wflags listeners are registered with
    Given,          \* the masks that are signalled, added and cleared
    Waits,          \* the kinds of wait and the masks they are used with
    Prio            \* Prio[t]: the priority a thread is created with

Masks == SUBSET Events \ {{}}

WaitKinds == [kind : {"one", "any", "all"}, events : Masks]

ASSUME EventsAssumption ==
    /\ IsFiniteSet(Events)
    /\ Events \subseteq Nat
    /\ NoSource \notin Sources
    /\ RegArgs \subseteq [events : Masks, wflags : SUBSET Flags]
    /\ Given \subseteq Masks
    /\ Waits \subseteq WaitKinds
    /\ Prio \in [Threads -> Prios]
    /\ \A c \in Cores : Prio[Idle[c]] = IDLEPRIO
    /\ \A t \in UserThreads : Prio[t] >= LOWPRIO

VARIABLES
    k,          \* the kernel state
    epending,   \* epending[t]: tp->epending
    ewmask,     \* ewmask[t]: u.ewmask, overwritten by u.rdymsg
    wait,       \* wait[t]: the wait t is inside of, or NoWait
    list,       \* list[s]: the listeners of a source, last registered first
    el,         \* el[e]: the fields of a listener
    loop,       \* the broadcast being executed with the lock held, or NoLoop
    taken       \* ghost, taken[e]: events of e its thread has consumed since it
                \* last read the flags of e

vars == <<k, epending, ewmask, wait, list, el, loop, taken>>

NoWait == [kind |-> "none", events |-> {}]

NoLoop == [op |-> "none"]

\* A thread or a handler of core broadcasts flags; rest is still to be told.
Loops == [op : {"thread", "handler"}, core : Cores, flags : SUBSET Flags, rest : Seq(Listeners)]

TypeOK ==
    /\ k \in KernelType
    /\ epending \in [Threads -> SUBSET Events]
    /\ ewmask \in [Threads -> SUBSET Events]
    /\ wait \in [Threads -> WaitKinds \union {NoWait}]
    /\ list \in [Sources -> Seq(Listeners)]
    /\ el \in [Listeners -> [listener : Threads \union {NoThread}, events : SUBSET Events,
                             flags : SUBSET Flags, wflags : SUBSET Flags]]
    /\ loop \in Loops \union {NoLoop}
    /\ taken \in [Listeners -> SUBSET Events]

Init ==
    /\ k = KernelInit(Prio)
    /\ epending = [t \in Threads |-> {}]
    /\ ewmask = [t \in Threads |-> {}]
    /\ wait = [t \in Threads |-> NoWait]
    /\ list = [s \in Sources |-> <<>>]
    /\ el = [e \in Listeners |->
               [listener |-> NoThread, events |-> {}, flags |-> {}, wflags |-> {}]]
    /\ loop = NoLoop
    /\ taken = [e \in Listeners |-> {}]

-----------------------------------------------------------------------------
\* A thread has been switched in and is still inside a wait.
Resuming(c) == wait[k.current[c]] # NoWait

Unlocked == loop = NoLoop /\ \A c \in Cores : ~ Resuming(c)

Caller(c) == Unlocked /\ InThread(k, c)

Registered(e) == \E s \in Sources : e \in ToSet(list[s])

\* What the wait of kind for events is waiting for.
Satisfied(kind, pending, events) ==
    IF kind = "all" THEN events \subseteq pending ELSE pending \intersect events # {}

WaitState(kind) == IF kind = "all" THEN "WTANDEVT" ELSE "WTOREVT"

\* Mutant: a wait for all the events is woken by any of them.
M_Wakes(state, pending, mask) ==
    state \in {"WTOREVT", "WTANDEVT"} /\ pending \intersect mask # {}

\* The test of chEvtSignalI() on the state of the thread.
Wakes(state, pending, mask) ==
    \/ state = "WTOREVT" /\ pending \intersect mask # {}
    \/ state = "WTANDEVT" /\ mask \subseteq pending

\* The state chEvtSignalI() reads and writes.
Now(kk) == [k |-> kk, epending |-> epending, ewmask |-> ewmask]

chEvtSignalI(x, c, t, events) ==
    LET pending == x.epending[t] \union events
        woken   == Wakes(x.k.state[t], pending, x.ewmask[t])
    IN  [k        |-> IF woken THEN ReadyWithMsg(x.k, c, t, "OK") ELSE x.k,
         epending |-> [x.epending EXCEPT ![t] = pending],
         ewmask   |-> IF woken THEN [x.ewmask EXCEPT ![t] = {}] ELSE x.ewmask]

\* The ghost side of a thread that removes events from its pending mask.
Consume(t, events) ==
    taken' = [e \in Listeners |->
                IF el[e].listener = t THEN taken[e] \union (events \intersect el[e].events)
                ELSE taken[e]]

-----------------------------------------------------------------------------
(* Calls of the running thread *)

chEvtRegisterMaskWithFlags(c, s, e, args) ==
    /\ Caller(c)
    /\ ~ Registered(e)
    /\ list' = [list EXCEPT ![s] = <<e>> \o @]
    /\ el' = [el EXCEPT ![e] = [listener |-> k.current[c], events |-> args.events,
                                flags |-> {}, wflags |-> args.wflags]]
    /\ taken' = [taken EXCEPT ![e] = {}]
    /\ UNCHANGED <<k, epending, ewmask, wait, loop>>

\* Without effect on a listener of another source.  The fields of el stay; the
\* model clears them, nobody reads them before the next registration.
chEvtUnregister(c, s, e) ==
    /\ Caller(c)
    /\ e \in ToSet(list[s])
    /\ list' = [list EXCEPT ![s] = RemoveFirst(@, e)]
    /\ el' = [el EXCEPT ![e] = [listener |-> NoThread, events |-> {}, flags |-> {}, wflags |-> {}]]
    /\ taken' = [taken EXCEPT ![e] = {}]
    /\ UNCHANGED <<k, epending, ewmask, wait, loop>>

chEvtGetAndClearEvents(c, events) ==
    /\ Caller(c)
    /\ epending[k.current[c]] \intersect events # {}
    /\ epending' = [epending EXCEPT ![k.current[c]] = @ \ events]
    /\ Consume(k.current[c], epending[k.current[c]] \intersect events)
    /\ UNCHANGED <<k, ewmask, wait, list, el, loop>>

chEvtAddEvents(c, events) ==
    /\ Caller(c)
    /\ epending' = [epending EXCEPT ![k.current[c]] = @ \union events]
    /\ UNCHANGED <<k, ewmask, wait, list, el, loop, taken>>

\* Called by the thread that listens.
chEvtGetAndClearFlags(c, e) ==
    /\ Caller(c)
    /\ Registered(e) /\ el[e].listener = k.current[c]
    /\ el' = [el EXCEPT ![e].flags = {}]
    /\ taken' = [taken EXCEPT ![e] = {}]
    /\ UNCHANGED <<k, epending, ewmask, wait, list, loop>>

\* chEvtSignal() from a thread, chEvtSignalI() from a handler.
SignalThread(c, t, events, thread) ==
    LET x == chEvtSignalI(Now(IF thread THEN k ELSE EnterIsr(k, c)), c, t, events)
    IN  /\ IF thread THEN Caller(c) ELSE Unlocked
        /\ k' = IF thread THEN chSchRescheduleS(x.k, c) ELSE x.k
        /\ epending' = x.epending
        /\ ewmask' = x.ewmask
        /\ UNCHANGED <<wait, list, el, loop, taken>>

\* chEvtBroadcastFlags() from a thread, chEvtBroadcastFlagsI() from a handler.
Broadcast(c, s, flags, thread) ==
    /\ IF thread THEN Caller(c) ELSE Unlocked
    /\ k' = IF thread THEN k ELSE EnterIsr(k, c)
    /\ loop' = [op |-> IF thread THEN "thread" ELSE "handler", core |-> c,
                flags |-> flags, rest |-> list[s]]
    /\ UNCHANGED <<epending, ewmask, wait, list, el, taken>>

\* A source without flags tells all its listeners.
Announces(flags, wflags) == flags = {} \/ flags \intersect wflags # {}

\* One turn of the loop of chEvtBroadcastFlagsI().
chEvtBroadcastFlagsI ==
    LET e == Head(loop.rest)
        x == IF Announces(loop.flags, el[e].wflags)
               THEN chEvtSignalI(Now(k), loop.core, el[e].listener, el[e].events)
               ELSE Now(k)
    IN  /\ loop # NoLoop
        /\ loop.rest # <<>>
        /\ k' = x.k
        /\ epending' = x.epending
        /\ ewmask' = x.ewmask
        /\ el' = [el EXCEPT ![e].flags = @ \union loop.flags]
        /\ loop' = [loop EXCEPT !.rest = Tail(@)]
        /\ UNCHANGED <<wait, list, taken>>

\* Mutant: no reschedule follows the broadcast of a thread.
M_BroadcastEnd ==
    /\ loop # NoLoop
    /\ loop.rest = <<>>
    /\ k' = k
    /\ loop' = NoLoop
    /\ UNCHANGED <<epending, ewmask, wait, list, el, taken>>

BroadcastEnd ==
    /\ loop # NoLoop
    /\ loop.rest = <<>>
    /\ k' = IF loop.op = "thread" THEN chSchRescheduleS(k, loop.core) ELSE k
    /\ loop' = NoLoop
    /\ UNCHANGED <<epending, ewmask, wait, list, el, taken>>

-----------------------------------------------------------------------------
(* Waits: chEvtWaitOne/Any/All and the forms with a timeout *)

\* What a wait that is satisfied removes from the pending mask.
Served(kind, pending, events) ==
    CASE kind = "one" -> {Min(pending \intersect events)}
      [] kind = "any" -> pending \intersect events
      [] kind = "all" -> events

\* The end of a wait of t that is satisfied.
Serve(t, kind, events) ==
    LET m == Served(kind, epending[t], events)
    IN  /\ epending' = [epending EXCEPT ![t] = @ \ m]
        /\ Consume(t, m)

\* Nothing is waited for: the events are already pending.
WaitSatisfied(c, kind, events) ==
    /\ Caller(c)
    /\ Satisfied(kind, epending[k.current[c]], events)
    /\ Serve(k.current[c], kind, events)
    /\ UNCHANGED <<k, ewmask, wait, list, el, loop>>

\* Without the events the thread sleeps; TIME_IMMEDIATE would change nothing.
WaitSleep(c, kind, events, timed) ==
    LET currtp == k.current[c]
    IN  /\ Caller(c)
        /\ ~ Satisfied(kind, epending[currtp], events)
        /\ ewmask' = [ewmask EXCEPT ![currtp] = events]
        /\ wait' = [wait EXCEPT ![currtp] = [kind |-> kind, events |-> events]]
        /\ k' = chSchGoSleepTimeoutS(k, c, WaitState(kind), timed)
        /\ UNCHANGED <<epending, list, el, loop, taken>>

\* Mutant: the events that came after the timeout are thrown away.
M_WaitReturn(c) ==
    LET t == k.current[c]
        w == wait[t]
    IN  /\ Resuming(c)
        /\ wait' = [wait EXCEPT ![t] = NoWait]
        /\ \/ /\ k.rdymsg[t] = "TIMEOUT"
              /\ epending' = [epending EXCEPT ![t] = @ \ w.events]
              /\ UNCHANGED taken
           \/ /\ k.rdymsg[t] # "TIMEOUT"
              /\ Serve(t, w.kind, w.events)
        /\ UNCHANGED <<k, ewmask, list, el, loop>>

\* The second half of a wait, in the critical section the thread wakes up in:
\* a timeout returns 0 and leaves the pending events, else they are served.
WaitReturn(c) ==
    LET t == k.current[c]
        w == wait[t]
    IN  /\ Resuming(c)
        /\ wait' = [wait EXCEPT ![t] = NoWait]
        /\ \/ /\ k.rdymsg[t] = "TIMEOUT"
              /\ UNCHANGED <<epending, taken>>
           \/ /\ k.rdymsg[t] # "TIMEOUT"
              /\ Serve(t, w.kind, w.events)
        /\ UNCHANGED <<k, ewmask, list, el, loop>>

-----------------------------------------------------------------------------
(* Interrupts of the kernel *)

objs == <<epending, wait, list, el, loop, taken>>

chThdStartI(c, t) ==
    /\ Unlocked
    /\ k.state[t] = "WTSTART"
    /\ k' = ReadyWithMsg(EnterIsr(k, c), c, t, "OK")
    /\ UNCHANGED <<ewmask, objs>>

Expire(c, t) ==
    /\ Unlocked
    /\ TimerDueEnabled(k, c, t)
    /\ k' = TimerDue(k, c, t)
    /\ UNCHANGED <<ewmask, objs>>

\* The timeout callback: nothing to unlink for a thread that waits for events.
sch_wakeup(c) ==
    LET t == k.firing[c]
        kk == [k EXCEPT !.firing[c] = NoThread]
    IN  /\ Unlocked
        /\ t # NoThread
        /\ \/ /\ AlreadyReady(k, t)
              /\ k' = kk
              /\ UNCHANGED ewmask
           \/ /\ ~ AlreadyReady(k, t)
              /\ k' = sch_ready_behind([kk EXCEPT !.rdymsg[t] = "TIMEOUT"], t)
              /\ ewmask' = [ewmask EXCEPT ![t] = {}]
        /\ UNCHANGED objs

Notified(c) ==
    /\ Unlocked
    /\ c \in k.notified
    /\ k' = NotifyIrq(k, c)
    /\ UNCHANGED <<ewmask, objs>>

ExitIsr(c) ==
    /\ Unlocked
    /\ IsrExitEnabled(k, c)
    /\ k' = IsrExit(k, c)
    /\ UNCHANGED <<ewmask, objs>>

-----------------------------------------------------------------------------
ListenerCall(c) ==
    \E e \in Listeners :
        \/ \E s \in Sources :
              \/ \E args \in RegArgs : chEvtRegisterMaskWithFlags(c, s, e, args)
              \/ chEvtUnregister(c, s, e)
        \/ chEvtGetAndClearFlags(c, e)

EventCall(c) ==
    \/ \E events \in Given :
          \/ chEvtGetAndClearEvents(c, events)
          \/ chEvtAddEvents(c, events)
          \/ \E t \in UserThreads, thread \in BOOLEAN : SignalThread(c, t, events, thread)
    \/ \E w \in Waits :
          \/ WaitSatisfied(c, w.kind, w.events)
          \/ \E timed \in BOOLEAN : WaitSleep(c, w.kind, w.events, timed)
    \/ WaitReturn(c)
    \/ \E s \in Sources, flags \in SUBSET Flags, thread \in BOOLEAN : Broadcast(c, s, flags, thread)

KernelIrq(c) ==
    \/ \E t \in UserThreads : chThdStartI(c, t)
    \/ \E t \in Threads : Expire(c, t)
    \/ sch_wakeup(c)
    \/ Notified(c)
    \/ ExitIsr(c)

Next ==
    \/ \E c \in Cores : ListenerCall(c) \/ EventCall(c) \/ KernelIrq(c)
    \/ chEvtBroadcastFlagsI
    \/ BroadcastEnd

Spec == Init /\ [][Next]_vars

-----------------------------------------------------------------------------
(* Safety *)

\* No wakeup is lost and none is for nothing: a thread asleep in an event wait
\* has not got what it waits for, whoever signalled it and in whatever
\* state it was then; a thread woken with MSG_OK still finds it pending when
\* it runs, so no wait returns an empty mask except for a timeout.
EventWaitExact ==
    \A t \in Threads :
        LET w == wait[t]
        IN  w # NoWait =>
              IF k.state[t] \in {"WTOREVT", "WTANDEVT"}
                THEN /\ k.state[t] = WaitState(w.kind)
                     /\ ~ Satisfied(w.kind, epending[t], w.events)
                ELSE k.rdymsg[t] = "OK" => Satisfied(w.kind, epending[t], w.events)

\* A listener with flags its thread asked for has told the thread: each of its
\* events is pending, or the thread has consumed it and not yet read the
\* flags.  A thread that serves its events and then reads the flags misses
\* none, however broadcasts fall between the two.
FlagsAnnounced ==
    \A e \in Listeners :
        (Registered(e) /\ el[e].flags \intersect el[e].wflags # {})
            => el[e].events \subseteq (epending[el[e].listener] \union taken[e])

\* The scheduler structures are exact and out of the kernel the most important
\* ready thread of a core runs, although one broadcast wakes several threads.
KernelOK ==
    /\ ReadyListExact(k) /\ ReadyListSorted(k) /\ CurrentExact(k)
    /\ Unlocked => \A c \in Cores \ (k.isr \union k.notified) : PriorityOrder(k, c)

\* A wait that has been given what it waits for.
Granted(t) ==
    /\ wait[t] # NoWait
    /\ k.rdymsg[t] # "TIMEOUT"
    /\ Satisfied(wait[t].kind, epending[t], wait[t].events)

\* Once signals have given a wait its events it returns them: a timer that
\* expired before and whose callback comes late, a handler, a second signal or
\* another thread that runs first never turn the wait into a timeout and never
\* take the events away.
GrantedNotLost ==
    [][\A t \in Threads : Granted(t) => (Granted(t)' \/ wait'[t] = NoWait)]_vars
=============================================================================
