--------------------------- MODULE RtEventsProofs ---------------------------
(***************************************************************************)
(* RtEvents: no wakeup is lost and none is for nothing, flags that were    *)
(* asked for have been announced, a late timeout does not take what a wait *)
(* was given, and the kernel is exact, for every number of cores,          *)
(* threads, priorities, events, flags, sources and listeners.              *)
(***************************************************************************)
EXTENDS RtEvents, ChSchedProofs

\* The core whose order is restored by the caller at the end of the loop;
\* that of a handler is restored when the handler returns.
Busy(lp) == IF lp.op = "thread" THEN {lp.core} ELSE {}

\* A thread with state s, message m, wait w, pending events p and mask e: it
\* waits for exactly the events of its call, which have not all come, or has
\* been woken and finds what it waited for unless it is told otherwise.
WaitOK(s, m, w, p, e) ==
    /\ s \in {"WTOREVT", "WTANDEVT"} =>
          /\ w # NoWait /\ s = WaitState(w.kind) /\ e = w.events
          /\ ~ Satisfied(w.kind, p, w.events)
    /\ w # NoWait => s \in {"WTOREVT", "WTANDEVT", "READY", "CURRENT"}
    /\ (w # NoWait /\ s \in {"READY", "CURRENT"} /\ m = "OK") => Satisfied(w.kind, p, w.events)

WaitsOK(kk, wt, ep, em) ==
    \A t \in Threads : WaitOK(kk.state[t], kk.rdymsg[t], wt[t], ep[t], em[t])

\* A listener is in the list of one source, once, and belongs to a thread.
ListsOK(li, ls) ==
    /\ li \in [Sources -> Seq(Listeners)]
    /\ \A s \in Sources : NoDuplicates(li[s])
    /\ \A s, z \in Sources : s # z => ToSet(li[s]) \intersect ToSet(li[z]) = {}
    /\ \A s \in Sources : \A e \in ToSet(li[s]) : ls[e].listener \in Threads

\* What is still to be told is registered; the loop of a thread is not
\* executed in a handler, that of a handler is.
LoopOK(kk, li, lp) ==
    lp.op # "none" =>
        /\ \A e \in ToSet(lp.rest) : \E s \in Sources : e \in ToSet(li[s])
        /\ lp.op = "thread" => lp.core \notin kk.isr
        /\ lp.op = "handler" => lp.core \in kk.isr

IInv ==
    /\ TypeOK
    /\ Sound(k, Busy(loop))
    /\ WaitsOK(k, wait, epending, ewmask)
    /\ ListsOK(list, el)
    /\ LoopOK(k, list, loop)
    /\ FlagsAnnounced

-----------------------------------------------------------------------------
(* Lists of listeners                                                        *)

\* The rest of a list is part of it.
LEMMA RestOfList ==
    ASSUME NEW S, NEW q \in Seq(S), q # <<>>
    PROVE  Head(q) \in ToSet(q) /\ Head(q) \in S /\ Tail(q) \in Seq(S) /\ ToSet(Tail(q)) \subseteq ToSet(q)
<1>1. /\ DOMAIN q = 1 .. Len(q) /\ Len(q) \in Nat \ {0} /\ Head(q) = q[1]
      /\ Tail(q) \in Seq(S) /\ Len(Tail(q)) = Len(q) - 1
      /\ \A j \in 1 .. Len(q) - 1 : Tail(q)[j] = q[j + 1]
  BY EmptySeq, HeadTailProperties
<1>2. \A j \in 1 .. Len(q) - 1 : j + 1 \in DOMAIN q
  BY <1>1
<1>3. DOMAIN Tail(q) = 1 .. Len(q) - 1
  BY <1>1
<1>4. ToSet(Tail(q)) \subseteq ToSet(q)
  BY <1>1, <1>2, <1>3 DEF ToSet
<1>5. q[1] \in ToSet(q) /\ q[1] \in S
  BY <1>1 DEF ToSet
<1> QED BY <1>1, <1>4, <1>5

\* r is q with e put before it, without duplicates.
Prefixed(S, q, e, r) == r \in Seq(S) /\ ToSet(r) = ToSet(q) \union {e} /\ NoDuplicates(r)

\* A listener is registered first in the list.
LEMMA FirstInList ==
    ASSUME NEW S, NEW q \in Seq(S), NEW e \in S, e \notin ToSet(q), NoDuplicates(q),
           NEW r, r = <<e>> \o q
    PROVE  Prefixed(S, q, e, r)
<1>1. /\ r \in Seq(S) /\ Len(r) = Len(q) + 1 /\ Len(q) \in Nat
      /\ DOMAIN q = 1 .. Len(q) /\ DOMAIN r = 1 .. Len(q) + 1
      /\ r[1] = e /\ \A i \in 2 .. Len(q) + 1 : r[i] = q[i - 1]
  OBVIOUS
<1>2. \A i \in 1 .. Len(q) : q[i] = r[i + 1] /\ i + 1 \in DOMAIN r
  BY <1>1
<1>3. \A i \in DOMAIN r : i = 1 \/ (i - 1 \in DOMAIN q /\ r[i] = q[i - 1])
  BY <1>1
<1>4. ToSet(r) = ToSet(q) \union {e}
  <2>1. ToSet(r) \subseteq ToSet(q) \union {e}
    BY <1>1, <1>3 DEF ToSet
  <2>2. ASSUME NEW x \in ToSet(q) PROVE x \in ToSet(r)
    <3>1. PICK i \in 1 .. Len(q) : x = q[i]
      BY <1>1 DEF ToSet
    <3>2. x = r[i + 1] /\ i + 1 \in DOMAIN r
      BY <1>2, <3>1
    <3> QED BY <3>2 DEF ToSet
  <2>3. e \in ToSet(r)
    <3>1. 1 \in DOMAIN r
      BY <1>1
    <3> QED BY <1>1, <3>1 DEF ToSet
  <2> QED BY <2>1, <2>2, <2>3
<1>a. \A i, j \in 1 .. Len(q) : i < j => q[i] # q[j]
  BY DEF NoDuplicates, IsSorted
<1>5. ASSUME NEW i \in 1 .. Len(r), NEW j \in 1 .. Len(r), i < j
      PROVE  r[i] # r[j]
  <2>1. CASE i = 1
    <3>1. r[i] = e /\ j - 1 \in DOMAIN q /\ r[j] = q[j - 1]
      BY <1>1, <1>3, <1>5, <2>1
    <3> QED BY <3>1 DEF ToSet
  <2>2. CASE i # 1
    <3>1. /\ i - 1 \in DOMAIN q /\ r[i] = q[i - 1] /\ j - 1 \in DOMAIN q /\ r[j] = q[j - 1]
          /\ i - 1 < j - 1
      BY <1>1, <1>3, <1>5, <2>2
    <3> QED BY <1>1, <1>a, <3>1
  <2> QED BY <2>1, <2>2
<1>6. NoDuplicates(r)
  BY <1>5 DEF NoDuplicates, IsSorted
<1> QED BY <1>1, <1>4, <1>6 DEF Prefixed

-----------------------------------------------------------------------------
(* Waits, events and flags under the calls of the kernel                     *)

\* No thread begins or stops waiting.
LEMMA StillWaits ==
    ASSUME NEW kk, NEW r, Still(kk, r), NEW wt, NEW ep, NEW em, WaitsOK(kk, wt, ep, em)
    PROVE  WaitsOK(r, wt, ep, em)
<1>1. r.rdymsg = kk.rdymsg /\ Others(kk, r, {})
  BY DEF Still
<1>2. \A u \in Threads :
         \/ r.state[u] = kk.state[u]
         \/ kk.state[u] \in {"READY", "CURRENT"} /\ r.state[u] \in {"READY", "CURRENT"}
  BY <1>1 DEF Others
<1> SUFFICES ASSUME NEW u \in Threads
             PROVE  WaitOK(r.state[u], r.rdymsg[u], wt[u], ep[u], em[u])
  BY DEF WaitsOK
<1>3. WaitOK(kk.state[u], kk.rdymsg[u], wt[u], ep[u], em[u])
  BY DEF WaitsOK
<1> QED BY <1>1, <1>2, <1>3 DEF WaitOK

\* t stops waiting; what is told of t is the business of the caller.
LEMMA RousedWaits ==
    ASSUME NEW kk, NEW r, NEW X, Sound(kk, X), NEW t \in Threads, NEW m, Roused(kk, r, t, m),
           NEW wt, NEW ep, NEW em, NEW np, NEW nm, WaitsOK(kk, wt, ep, em),
           \A u \in Threads \ {t} : np[u] = ep[u] /\ nm[u] = em[u],
           (wt[t] # NoWait /\ m = "OK") => Satisfied(wt[t].kind, np[t], wt[t].events)
    PROVE  WaitsOK(r, wt, np, nm)
<1>1. /\ r.state[t] \in {"READY", "CURRENT"} /\ r.rdymsg = [kk.rdymsg EXCEPT ![t] = m]
      /\ Others(kk, r, {t})
  BY DEF Roused, Woken
<1>2. \A u \in Threads \ {t} :
         \/ r.state[u] = kk.state[u]
         \/ kk.state[u] \in {"READY", "CURRENT"} /\ r.state[u] \in {"READY", "CURRENT"}
  BY <1>1 DEF Others
<1>3. kk.rdymsg \in [Threads -> Messages]
  BY SoundFacts
<1>4. \A u \in Threads : r.rdymsg[u] = IF u = t THEN m ELSE kk.rdymsg[u]
  BY <1>1, <1>3
<1> SUFFICES ASSUME NEW u \in Threads
             PROVE  WaitOK(r.state[u], r.rdymsg[u], wt[u], np[u], nm[u])
  BY DEF WaitsOK
<1>5. WaitOK(kk.state[u], kk.rdymsg[u], wt[u], ep[u], em[u])
  BY DEF WaitsOK
<1>6. CASE u = t
  BY <1>1, <1>4, <1>6 DEF WaitOK
<1>7. CASE u # t
  BY <1>2, <1>4, <1>5, <1>7 DEF WaitOK
<1> QED BY <1>6, <1>7

\* The running thread t begins to wait for w.
LEMMA RestedWaits ==
    ASSUME NEW kk, NEW r, NEW t \in Threads, NEW ns, Rested(kk, r, t, ns),
           NEW wt, NEW ep, NEW em, NEW nw, NEW nm, WaitsOK(kk, wt, ep, em),
           \A u \in Threads \ {t} : nw[u] = wt[u] /\ nm[u] = em[u],
           NEW w \in WaitKinds, nw[t] = w, nm[t] = w.events, ns = WaitState(w.kind),
           ~ Satisfied(w.kind, ep[t], w.events)
    PROVE  WaitsOK(r, nw, ep, nm)
<1>1. r.state[t] = ns /\ r.rdymsg = kk.rdymsg /\ Others(kk, r, {t})
  BY DEF Rested, Asleep
<1>2. \A u \in Threads \ {t} :
         \/ r.state[u] = kk.state[u]
         \/ kk.state[u] \in {"READY", "CURRENT"} /\ r.state[u] \in {"READY", "CURRENT"}
  BY <1>1 DEF Others
<1>3. w # NoWait /\ ns \in {"WTOREVT", "WTANDEVT"}
  BY DEF WaitKinds, NoWait, WaitState
<1> SUFFICES ASSUME NEW u \in Threads
             PROVE  WaitOK(r.state[u], r.rdymsg[u], nw[u], ep[u], nm[u])
  BY DEF WaitsOK
<1>4. WaitOK(kk.state[u], kk.rdymsg[u], wt[u], ep[u], em[u])
  BY DEF WaitsOK
<1>5. CASE u = t
  BY <1>1, <1>3, <1>5 DEF WaitOK
<1>6. CASE u # t
  BY <1>1, <1>2, <1>4, <1>6 DEF WaitOK
<1> QED BY <1>5, <1>6

\* A thread outside any wait may have its events changed.
LEMMA AwakeWaits ==
    ASSUME NEW kk, NEW t \in Threads, kk.state[t] \notin {"WTOREVT", "WTANDEVT"},
           NEW wt, NEW ep, NEW em, WaitsOK(kk, wt, ep, em), NEW nw, NEW np,
           \A u \in Threads \ {t} : nw[u] = wt[u] /\ np[u] = ep[u], nw[t] = NoWait
    PROVE  WaitsOK(kk, nw, np, em)
<1> SUFFICES ASSUME NEW u \in Threads
             PROVE  WaitOK(kk.state[u], kk.rdymsg[u], nw[u], np[u], em[u])
  BY DEF WaitsOK
<1>1. WaitOK(kk.state[u], kk.rdymsg[u], wt[u], ep[u], em[u])
  BY DEF WaitsOK
<1>2. CASE u = t
  BY <1>2 DEF WaitOK
<1>3. CASE u # t
  BY <1>1, <1>3
<1> QED BY <1>2, <1>3

\* What a signal does to its thread: kernel, pending events and masks before
\* and after.
Signalled(kk, ep, em, r, np, nm, t, events) ==
    /\ np = [ep EXCEPT ![t] = @ \union events]
    /\ nm \in [Threads -> SUBSET Events]
    /\ NoSwitch(kk, r)
    /\ \A wt : WaitsOK(kk, wt, ep, em) => WaitsOK(r, wt, np, nm)

\* chEvtSignalI(): the thread is woken exactly when its wait is satisfied.
LEMMA SignalWaits ==
    ASSUME NEW kk, NEW X, Sound(kk, X), NEW c \in Cores, NEW t \in Threads,
           NEW ep \in [Threads -> SUBSET Events], NEW em \in [Threads -> SUBSET Events],
           NEW events \in SUBSET Events, NEW y,
           y = chEvtSignalI([k |-> kk, epending |-> ep, ewmask |-> em], c, t, events)
    PROVE  /\ Sound(y.k, X \union {c})
           /\ Signalled(kk, ep, em, y.k, y.epending, y.ewmask, t, events)
<1>1. PICK p : p = ep[t] \union events
  OBVIOUS
<1>2. PICK np : np = [ep EXCEPT ![t] = p]
  OBVIOUS
<1>3. y.epending = np
  BY <1>1, <1>2 DEF chEvtSignalI
<1>4. np = [ep EXCEPT ![t] = @ \union events] /\ np[t] = p /\ \A u \in Threads \ {t} : np[u] = ep[u]
  BY <1>1, <1>2
<1>5. "OK" \in Messages
  BY KernelAssumption
<1>6. CASE Wakes(kk.state[t], p, em[t])
  <2>1. y.k = ReadyWithMsg(kk, c, t, "OK") /\ y.ewmask = [em EXCEPT ![t] = {}]
    BY <1>1, <1>6 DEF chEvtSignalI
  <2>2. kk.state[t] \notin {"READY", "CURRENT"}
    BY <1>6 DEF Wakes
  <2>3. Sound(y.k, X \union {c})
    BY <1>5, <2>1, <2>2, RunReady
  <2>4. Roused(kk, y.k, t, "OK")
    BY <1>5, <2>1, <2>2, RunReady
  <2>5. NoSwitch(kk, y.k)
    BY <1>5, <2>1, <2>2, RunReady
  <2>6. y.ewmask \in [Threads -> SUBSET Events] /\ \A u \in Threads \ {t} : y.ewmask[u] = em[u]
    BY <2>1
  <2>7. ASSUME NEW wt, WaitsOK(kk, wt, ep, em) PROVE WaitsOK(y.k, wt, np, y.ewmask)
    <3>1. WaitOK(kk.state[t], kk.rdymsg[t], wt[t], ep[t], em[t])
      BY <2>7 DEF WaitsOK
    <3>2. Satisfied(wt[t].kind, np[t], wt[t].events)
      BY <1>4, <1>6, <3>1 DEF WaitOK, Wakes, WaitState, Satisfied
    <3>3. \A u \in Threads \ {t} : np[u] = ep[u] /\ y.ewmask[u] = em[u]
      BY <1>4, <2>6
    <3> QED BY <2>4, <2>7, <3>2, <3>3, RousedWaits
  <2> QED BY <1>3, <1>4, <2>3, <2>5, <2>6, <2>7 DEF Signalled
<1>7. CASE ~ Wakes(kk.state[t], p, em[t])
  <2>1. y.k = kk /\ y.ewmask = em
    BY <1>1, <1>7 DEF chEvtSignalI
  <2>2. Sound(kk, X \union {c})
    BY DEF Sound, OrderedBut
  <2>3. ASSUME NEW wt, WaitsOK(kk, wt, ep, em) PROVE WaitsOK(kk, wt, np, em)
    <3> SUFFICES ASSUME NEW u \in Threads
                 PROVE  WaitOK(kk.state[u], kk.rdymsg[u], wt[u], np[u], em[u])
      BY DEF WaitsOK
    <3>1. WaitOK(kk.state[u], kk.rdymsg[u], wt[u], ep[u], em[u])
      BY <2>3 DEF WaitsOK
    <3>2. CASE u = t
      BY <1>1, <1>4, <1>7, <3>1, <3>2 DEF WaitOK, Wakes, WaitState, Satisfied
    <3>3. CASE u # t
      BY <1>4, <3>1, <3>3
    <3> QED BY <3>2, <3>3
  <2>4. NoSwitch(kk, kk)
    BY DEF NoSwitch
  <2> QED BY <1>3, <1>4, <2>1, <2>2, <2>3, <2>4 DEF Signalled
<1> QED BY <1>6, <1>7

\* More events are pending than before.
LEMMA FlagsMore ==
    ASSUME FlagsAnnounced, UNCHANGED <<list, el, taken>>,
           \A t \in Threads : epending[t] \subseteq epending'[t],
           ListsOK(list, el)
    PROVE  FlagsAnnounced'
<1>1. \A e \in Listeners : Registered(e)' = Registered(e)
  BY DEF Registered
<1>2. \A e \in Listeners : Registered(e) => el[e].listener \in Threads
  BY DEF Registered, ListsOK
<1> QED BY <1>1, <1>2 DEF FlagsAnnounced

\* A thread consumes events: what leaves the mask is recorded.
LEMMA FlagsConsumed ==
    ASSUME TypeOK, FlagsAnnounced, ListsOK(list, el), UNCHANGED <<list, el>>, NEW t \in Threads, NEW m,
           epending' = [epending EXCEPT ![t] = @ \ m], Consume(t, m)
    PROVE  /\ FlagsAnnounced' /\ epending' \in [Threads -> SUBSET Events]
           /\ taken' \in [Listeners -> SUBSET Events]
<1>1. /\ epending \in [Threads -> SUBSET Events] /\ taken \in [Listeners -> SUBSET Events]
      /\ \A e \in Listeners : el[e].events \in SUBSET Events
  BY DEF TypeOK
<1>2. \A e \in Listeners :
         taken'[e] = IF el[e].listener = t THEN taken[e] \union (m \intersect el[e].events) ELSE taken[e]
  BY DEF Consume
<1>3. taken' \in [Listeners -> SUBSET Events]
  BY <1>1 DEF Consume
<1>4. epending' \in [Threads -> SUBSET Events] /\ epending'[t] = epending[t] \ m
      /\ \A u \in Threads \ {t} : epending'[u] = epending[u]
  BY <1>1
<1>5. ASSUME NEW e \in Listeners, Registered(e), el[e].flags \intersect el[e].wflags # {}
      PROVE  el[e].events \subseteq epending'[el[e].listener] \union taken'[e]
  <2>1. el[e].events \subseteq epending[el[e].listener] \union taken[e]
    BY <1>5 DEF FlagsAnnounced
  <2>2. el[e].listener \in Threads
    BY <1>5 DEF Registered, ListsOK
  <2>3. CASE el[e].listener = t
    BY <1>2, <1>4, <2>1, <2>3
  <2>4. CASE el[e].listener # t
    BY <1>2, <1>4, <2>1, <2>2, <2>4
  <2> QED BY <2>3, <2>4
<1>6. \A e \in Listeners : Registered(e)' = Registered(e)
  BY DEF Registered
<1> QED BY <1>3, <1>4, <1>5, <1>6 DEF FlagsAnnounced

-----------------------------------------------------------------------------
(* The steps                                                                 *)

ListenerType == [listener : Threads \union {NoThread}, events : SUBSET Events,
                 flags : SUBSET Flags, wflags : SUBSET Flags]

\* The types of all but the kernel, the lists and the loop.
Typed(wt, ep, em, ls, tk) ==
    /\ wt \in [Threads -> WaitKinds \union {NoWait}]
    /\ ep \in [Threads -> SUBSET Events] /\ em \in [Threads -> SUBSET Events]
    /\ ls \in [Listeners -> ListenerType] /\ tk \in [Listeners -> SUBSET Events]

\* The parts of the invariant, as the steps use them.
LEMMA Facts ==
    ASSUME IInv
    PROVE  /\ Typed(wait, epending, ewmask, el, taken)
           /\ Sound(k, Busy(loop)) /\ WaitsOK(k, wait, epending, ewmask)
           /\ ListsOK(list, el) /\ LoopOK(k, list, loop) /\ FlagsAnnounced
           /\ loop \in Loops \union {NoLoop}
           /\ \A c \in Cores : k.current[c] \in Threads /\ k.state[k.current[c]] = "CURRENT"
<1>1. \A c \in Cores : k.current[c] \in Threads /\ k.state[k.current[c]] = "CURRENT"
  BY SoundFacts DEF IInv
<1> QED BY <1>1 DEF IInv, TypeOK, Typed, ListenerType

\* Between two calls no core is in disorder.
LEMMA Quiet ==
    ASSUME IInv, loop = NoLoop
    PROVE  Sound(k, {})
<1>1. Busy(loop) = {}
  BY DEF Busy, NoLoop
<1>2. Sound(k, Busy(loop))
  BY Facts
<1> QED BY <1>1, <1>2

\* What a step outside the loop has to establish.
LEMMA Pieces ==
    ASSUME Sound(k', {}), loop' = NoLoop, Typed(wait', epending', ewmask', el', taken'),
           WaitsOK(k', wait', epending', ewmask'), ListsOK(list', el'), FlagsAnnounced'
    PROVE  IInv'
<1>1. k' \in KernelType
  BY SoundFacts
<1>2. Busy(loop') = {} /\ LoopOK(k', list', loop')
  BY DEF Busy, NoLoop, LoopOK
<1>3. list' \in [Sources -> Seq(Listeners)]
  BY DEF ListsOK
<1> QED BY <1>1, <1>2, <1>3 DEF IInv, TypeOK, Typed, ListenerType

LEMMA CallerFacts ==
    ASSUME IInv, NEW c \in Cores, Caller(c)
    PROVE  /\ loop = NoLoop /\ InThread(k, c) /\ c \notin k.isr /\ Sound(k, {})
           /\ k.current[c] \in Threads /\ k.state[k.current[c]] = "CURRENT"
           /\ wait[k.current[c]] = NoWait
<1>1. loop = NoLoop /\ InThread(k, c) /\ c \notin k.isr /\ wait[k.current[c]] = NoWait
  BY DEF Caller, Unlocked, InThread, Resuming
<1> QED BY <1>1, Quiet, Facts

\* Steps that wake nobody and change nothing but the kernel.
LEMMA StillInv ==
    ASSUME IInv, loop = NoLoop, Sound(k', {}), Still(k, k'), UNCHANGED <<ewmask, objs>>
    PROVE  IInv'
<1>1. UNCHANGED <<ewmask, epending, wait, list, el, loop, taken>>
  BY DEF objs
<1>2. WaitsOK(k', wait', epending', ewmask')
  <2>1. WaitsOK(k, wait, epending, ewmask)
    BY Facts
  <2>2. WaitsOK(k', wait, epending, ewmask)
    BY <2>1, StillWaits
  <2> QED BY <1>1, <2>2
<1>3. FlagsAnnounced' /\ ListsOK(list', el') /\ Typed(wait', epending', ewmask', el', taken')
  BY <1>1, Facts DEF FlagsAnnounced, Registered
<1> QED BY <1>1, <1>2, <1>3, Pieces

\* Interrupts and expiries.
LEMMA IrqInv ==
    ASSUME IInv, NEW c \in Cores,
           Notified(c) \/ ExitIsr(c) \/ \E t \in Threads : Expire(c, t)
    PROVE  IInv'
<1>1. loop = NoLoop /\ UNCHANGED <<ewmask, objs>>
  BY DEF Notified, ExitIsr, Expire, Unlocked
<1>2. Sound(k, {})
  BY <1>1, Quiet
<1>3. \/ k' = NotifyIrq(k, c)
      \/ \E t \in Threads : TimerDueEnabled(k, c, t) /\ k' = TimerDue(k, c, t)
      \/ IsrExitEnabled(k, c) /\ k' = IsrExit(k, c)
  BY DEF Notified, ExitIsr, Expire
<1>4. Sound(k', {})
  BY <1>2, <1>3, RunIrq
<1>5. Still(k, k')
  BY <1>2, <1>3, RunIrq
<1> QED BY <1>1, <1>4, <1>5, StillInv

\* A thread is woken by something else than an event.
LEMMA RousedInv ==
    ASSUME IInv, loop = NoLoop, Sound(k', {}), NEW t \in Threads, NEW m, Roused(k, k', t, m),
           wait[t] # NoWait => m # "OK", UNCHANGED objs,
           ewmask' \in [Threads -> SUBSET Events], \A u \in Threads \ {t} : ewmask'[u] = ewmask[u]
    PROVE  IInv'
<1>1. UNCHANGED <<epending, wait, list, el, loop, taken>>
  BY DEF objs
<1>2. WaitsOK(k', wait', epending', ewmask')
  <2>1. WaitsOK(k, wait, epending, ewmask) /\ Sound(k, {})
    BY Facts, Quiet
  <2>2. /\ \A u \in Threads \ {t} : epending[u] = epending[u] /\ ewmask'[u] = ewmask[u]
        /\ (wait[t] # NoWait /\ m = "OK") => Satisfied(wait[t].kind, epending[t], wait[t].events)
    OBVIOUS
  <2>3. WaitsOK(k', wait, epending, ewmask')
    BY <2>1, <2>2, RousedWaits
  <2> QED BY <1>1, <2>3
<1>3. FlagsAnnounced' /\ ListsOK(list', el') /\ Typed(wait', epending', ewmask', el', taken')
  BY <1>1, Facts DEF FlagsAnnounced, Registered, Typed
<1> QED BY <1>1, <1>2, <1>3, Pieces

\* A thread is started: it is inside no wait.
LEMMA StartInv ==
    ASSUME IInv, NEW c \in Cores, NEW t \in UserThreads, chThdStartI(c, t)
    PROVE  IInv'
<1>1. /\ loop = NoLoop /\ UNCHANGED <<ewmask, objs>> /\ k.state[t] = "WTSTART" /\ t \in Threads
      /\ k' = ReadyWithMsg(EnterIsr(k, c), c, t, "OK") /\ "OK" \in Messages
  BY KernelAssumption DEF chThdStartI, Unlocked, UserThreads
<1>2. Sound(k, {})
  BY <1>1, Quiet
<1>3. Sound(k', {})
  BY <1>1, <1>2, RunReadyI
<1>4. Roused(k, k', t, "OK")
  BY <1>1, <1>2, RunReadyI
<1>5. wait[t] = NoWait
  BY <1>1, Facts DEF WaitsOK, WaitOK
<1>6. ewmask' \in [Threads -> SUBSET Events] /\ \A u \in Threads \ {t} : ewmask'[u] = ewmask[u]
  BY <1>1, Facts DEF Typed
<1>7. (wait[t] # NoWait => "OK" # "OK") /\ UNCHANGED objs
  BY <1>1, <1>5
<1> QED BY <1>1, <1>3, <1>4, <1>6, <1>7, RousedInv

\* The timeout callback.
LEMMA TimeoutInv ==
    ASSUME IInv, NEW c \in Cores, sch_wakeup(c)
    PROVE  IInv'
<1>1. PICK t : t = k.firing[c]
  OBVIOUS
<1>2. loop = NoLoop /\ UNCHANGED objs /\ Sound(k, {})
  BY Quiet DEF sch_wakeup, Unlocked
<1>a. k.firing[c] # NoThread /\ k' = Callback(k, c)
  BY DEF sch_wakeup, Callback
<1>3. CalledBack(k, c, k')
  BY <1>2, <1>a, RunCallback
<1>4. t \in Threads /\ Sound(k', {})
  BY <1>1, <1>3 DEF CalledBack
<1>5. CASE AlreadyReady(k, t)
  <2>1. Still(k, k')
    BY <1>1, <1>3, <1>5 DEF CalledBack
  <2>2. UNCHANGED <<ewmask, objs>>
    BY <1>1, <1>2, <1>5 DEF sch_wakeup
  <2> QED BY <1>2, <1>4, <2>1, <2>2, StillInv
<1>6. CASE ~ AlreadyReady(k, t)
  <2>1. ewmask' = [ewmask EXCEPT ![t] = {}]
    BY <1>1, <1>6 DEF sch_wakeup
  <2>2. Roused(k, k', t, "TIMEOUT")
    BY <1>1, <1>3, <1>6 DEF CalledBack
  <2>3. ewmask' \in [Threads -> SUBSET Events] /\ \A u \in Threads \ {t} : ewmask'[u] = ewmask[u]
    BY <2>1, Facts DEF Typed
  <2>4. wait[t] # NoWait => "TIMEOUT" # "OK"
    OBVIOUS
  <2> QED BY <1>2, <1>4, <2>2, <2>3, <2>4, RousedInv
<1> QED BY <1>5, <1>6

\* A listener is registered with its fields, or reset.
LEMMA ListedInv ==
    ASSUME IInv, loop = NoLoop, UNCHANGED <<k, epending, ewmask, wait, loop>>,
           NEW e \in Listeners, NEW v \in ListenerType, v.flags = {},
           el' = [el EXCEPT ![e] = v], taken' = [taken EXCEPT ![e] = {}],
           ListsOK(list', el'),
           \A x \in Listeners \ {e} : Registered(x)' => Registered(x)
    PROVE  IInv'
<1>1. /\ Sound(k, {}) /\ WaitsOK(k, wait, epending, ewmask) /\ FlagsAnnounced
      /\ Typed(wait, epending, ewmask, el, taken)
  BY Quiet, Facts
<1>2. /\ el'[e] = v /\ \A x \in Listeners \ {e} : el'[x] = el[x] /\ taken'[x] = taken[x]
      /\ Typed(wait', epending', ewmask', el', taken')
  BY <1>1 DEF Typed
<1>3. FlagsAnnounced'
  BY <1>1, <1>2 DEF FlagsAnnounced
<1>4. Sound(k', {}) /\ loop' = NoLoop /\ WaitsOK(k', wait', epending', ewmask')
  BY <1>1
<1> QED BY <1>2, <1>3, <1>4, Pieces

LEMMA RegisterInv ==
    ASSUME IInv, NEW c \in Cores, NEW s \in Sources, NEW e \in Listeners, NEW args \in RegArgs,
           chEvtRegisterMaskWithFlags(c, s, e, args)
    PROVE  IInv'
<1>1. /\ loop = NoLoop /\ k.current[c] \in Threads
  BY CallerFacts DEF chEvtRegisterMaskWithFlags
<1>2. PICK v : v = [listener |-> k.current[c], events |-> args.events,
                    flags |-> {}, wflags |-> args.wflags]
  OBVIOUS
<1>3. args.events \in SUBSET Events /\ args.wflags \in SUBSET Flags
  BY EventsAssumption DEF Masks
<1>4. v \in ListenerType /\ v.flags = {} /\ v.listener \in Threads
  BY <1>1, <1>2, <1>3 DEF ListenerType
<1>5. /\ UNCHANGED <<k, epending, ewmask, wait, loop>> /\ el' = [el EXCEPT ![e] = v]
      /\ taken' = [taken EXCEPT ![e] = {}] /\ list' = [list EXCEPT ![s] = <<e>> \o @]
      /\ ~ Registered(e)
  BY <1>2 DEF chEvtRegisterMaskWithFlags
<1>6. /\ list \in [Sources -> Seq(Listeners)]
      /\ \A z \in Sources : NoDuplicates(list[z])
      /\ \A x, z \in Sources : x # z => ToSet(list[x]) \intersect ToSet(list[z]) = {}
      /\ \A z \in Sources : \A x \in ToSet(list[z]) : el[x].listener \in Threads
      /\ el \in [Listeners -> ListenerType]
  BY Facts DEF ListsOK, Typed
<1>7. \A z \in Sources : e \notin ToSet(list[z]) /\ ToSet(list[z]) \subseteq Listeners
  <2>1. \A z \in Sources : ToSet(list[z]) \subseteq Listeners
    BY <1>6 DEF ToSet
  <2> QED BY <1>5, <2>1 DEF Registered
<1>8. PICK q : q = <<e>> \o list[s]
  OBVIOUS
<1>9. q \in Seq(Listeners) /\ ToSet(q) = ToSet(list[s]) \union {e} /\ NoDuplicates(q)
  <2>1. list[s] \in Seq(Listeners) /\ NoDuplicates(list[s]) /\ e \notin ToSet(list[s])
    BY <1>6, <1>7
  <2>2. Prefixed(Listeners, list[s], e, q)
    BY <1>8, <2>1, FirstInList
  <2> QED BY <2>2 DEF Prefixed
<1>10. list' \in [Sources -> Seq(Listeners)] /\ list'[s] = q /\ \A z \in Sources \ {s} : list'[z] = list[z]
  BY <1>5, <1>6, <1>8, <1>9
<1>11. el'[e] = v /\ \A x \in Listeners \ {e} : el'[x] = el[x]
  BY <1>5, <1>6
<1>12. ListsOK(list', el')
  <2>1. \A z \in Sources : NoDuplicates(list'[z])
    BY <1>6, <1>9, <1>10
  <2>2. \A z \in Sources : ToSet(list'[z]) = IF z = s THEN ToSet(list[s]) \union {e} ELSE ToSet(list[z])
    BY <1>9, <1>10
  <2>3. \A x, z \in Sources : x # z => ToSet(list'[x]) \intersect ToSet(list'[z]) = {}
    BY <1>6, <1>7, <2>2
  <2>4. \A z \in Sources : \A x \in ToSet(list'[z]) : el'[x].listener \in Threads
    BY <1>4, <1>6, <1>7, <1>11, <2>2
  <2> QED BY <1>10, <2>1, <2>3, <2>4 DEF ListsOK
<1>13. \A x \in Listeners \ {e} : Registered(x)' => Registered(x)
  BY <1>9, <1>10 DEF Registered
<1> QED BY <1>1, <1>4, <1>5, <1>12, <1>13, ListedInv

LEMMA UnregisterInv ==
    ASSUME IInv, NEW c \in Cores, NEW s \in Sources, NEW e \in Listeners, chEvtUnregister(c, s, e)
    PROVE  IInv'
<1>1. /\ loop = NoLoop
  BY CallerFacts DEF chEvtUnregister
<1>2. PICK v : v = [listener |-> NoThread, events |-> {}, flags |-> {}, wflags |-> {}]
  OBVIOUS
<1>4. v \in ListenerType /\ v.flags = {}
  BY <1>2 DEF ListenerType
<1>5. /\ UNCHANGED <<k, epending, ewmask, wait, loop>> /\ el' = [el EXCEPT ![e] = v]
      /\ taken' = [taken EXCEPT ![e] = {}] /\ list' = [list EXCEPT ![s] = RemoveFirst(@, e)]
      /\ e \in ToSet(list[s])
  BY <1>2 DEF chEvtUnregister
<1>6. /\ list \in [Sources -> Seq(Listeners)]
      /\ \A z \in Sources : NoDuplicates(list[z])
      /\ \A x, z \in Sources : x # z => ToSet(list[x]) \intersect ToSet(list[z]) = {}
      /\ \A z \in Sources : \A x \in ToSet(list[z]) : el[x].listener \in Threads
      /\ el \in [Listeners -> ListenerType]
  BY Facts DEF ListsOK, Typed
<1>7. \A z \in Sources : ToSet(list[z]) \subseteq Listeners
  BY <1>6 DEF ToSet
<1>8. PICK q : q = RemoveFirst(list[s], e)
  OBVIOUS
<1>9. q \in Seq(Listeners) /\ ToSet(q) = ToSet(list[s]) \ {e} /\ NoDuplicates(q)
  <2>1. q = ch_queue_dequeue(list[s], e) /\ list[s] \in Seq(Listeners) /\ NoDuplicates(list[s])
    BY <1>6, <1>8 DEF ch_queue_dequeue
  <2> QED BY <1>5, <2>1, DequeueSet
<1>10. list' \in [Sources -> Seq(Listeners)] /\ list'[s] = q /\ \A z \in Sources \ {s} : list'[z] = list[z]
  BY <1>5, <1>6, <1>8, <1>9
<1>11. \A x \in Listeners \ {e} : el'[x] = el[x]
  BY <1>5, <1>6
<1>12. ListsOK(list', el')
  <2>1. \A z \in Sources : NoDuplicates(list'[z])
    BY <1>6, <1>9, <1>10
  <2>2. \A z \in Sources : ToSet(list'[z]) = IF z = s THEN ToSet(list[s]) \ {e} ELSE ToSet(list[z])
    BY <1>9, <1>10
  <2>3. \A x, z \in Sources : x # z => ToSet(list'[x]) \intersect ToSet(list'[z]) = {}
    BY <1>6, <2>2
  <2>4. \A z \in Sources : e \notin ToSet(list'[z]) /\ ToSet(list'[z]) \subseteq ToSet(list[z])
    BY <1>5, <1>6, <2>2
  <2>5. \A z \in Sources : \A x \in ToSet(list'[z]) : el'[x].listener \in Threads
    BY <1>6, <1>7, <1>11, <2>4
  <2> QED BY <1>10, <2>1, <2>3, <2>5 DEF ListsOK
<1>13. \A x \in Listeners \ {e} : Registered(x)' => Registered(x)
  BY <1>9, <1>10 DEF Registered
<1> QED BY <1>1, <1>4, <1>5, <1>12, <1>13, ListedInv

LEMMA ClearFlagsInv ==
    ASSUME IInv, NEW c \in Cores, NEW e \in Listeners, chEvtGetAndClearFlags(c, e)
    PROVE  IInv'
<1>1. /\ loop = NoLoop
  BY CallerFacts DEF chEvtGetAndClearFlags
<1>2. /\ UNCHANGED <<k, epending, ewmask, wait, list, loop>> /\ el' = [el EXCEPT ![e].flags = {}]
      /\ taken' = [taken EXCEPT ![e] = {}]
  BY DEF chEvtGetAndClearFlags
<1>3. PICK v : v = [el[e] EXCEPT !.flags = {}]
  OBVIOUS
<1>4. el \in [Listeners -> ListenerType] /\ ListsOK(list, el)
  BY Facts DEF Typed
<1>5. v \in ListenerType /\ v.flags = {} /\ v.listener = el[e].listener /\ el' = [el EXCEPT ![e] = v]
  BY <1>2, <1>3, <1>4 DEF ListenerType
<1>6. \A x \in Listeners : el'[x].listener = el[x].listener
  BY <1>4, <1>5
<1>7. ListsOK(list', el')
  <2>1. \A z \in Sources : ToSet(list[z]) \subseteq Listeners
    BY <1>4 DEF ToSet, ListsOK
  <2> QED BY <1>2, <1>4, <1>6, <2>1 DEF ListsOK
<1>8. \A x \in Listeners \ {e} : Registered(x)' => Registered(x)
  BY <1>2 DEF Registered
<1> QED BY <1>1, <1>2, <1>5, <1>7, <1>8, ListedInv

-----------------------------------------------------------------------------
\* The running thread t, or one that is finishing a wait, takes events m.
LEMMA TakenInv ==
    ASSUME IInv, NEW t \in Threads, k.state[t] = "CURRENT", NEW m,
           epending' = [epending EXCEPT ![t] = @ \ m], Consume(t, m),
           wait' = [wait EXCEPT ![t] = NoWait], UNCHANGED <<k, ewmask, list, el, loop>>
    PROVE  IInv'
<1>1. /\ Typed(wait, epending, ewmask, el, taken) /\ WaitsOK(k, wait, epending, ewmask)
      /\ ListsOK(list, el) /\ LoopOK(k, list, loop) /\ FlagsAnnounced /\ TypeOK
      /\ Sound(k, Busy(loop))
  BY Facts DEF IInv
<1>2. /\ FlagsAnnounced' /\ epending' \in [Threads -> SUBSET Events]
      /\ taken' \in [Listeners -> SUBSET Events]
  BY <1>1, FlagsConsumed
<1>3. /\ wait' \in [Threads -> WaitKinds \union {NoWait}] /\ wait'[t] = NoWait
      /\ \A u \in Threads \ {t} : wait'[u] = wait[u] /\ epending'[u] = epending[u]
  BY <1>1 DEF Typed
<1>4. WaitsOK(k, wait', epending', ewmask)
  <2>1. k.state[t] \notin {"WTOREVT", "WTANDEVT"}
    OBVIOUS
  <2>2. WaitsOK(k, wait, epending, ewmask) /\ wait'[t] = NoWait
    BY <1>1, <1>3
  <2>3. \A u \in Threads \ {t} : wait'[u] = wait[u] /\ epending'[u] = epending[u]
    BY <1>3
  <2>4. PICK nw, np : nw = wait' /\ np = epending'
    OBVIOUS
  <2>5. nw[t] = NoWait /\ \A u \in Threads \ {t} : nw[u] = wait[u] /\ np[u] = epending[u]
    BY <2>2, <2>3, <2>4
  <2>6. WaitsOK(k, nw, np, ewmask)
    BY <2>1, <2>2, <2>5, AwakeWaits
  <2> QED BY <2>4, <2>6
<1>5. TypeOK'
  BY <1>1, <1>2, <1>3 DEF TypeOK
<1> QED BY <1>1, <1>2, <1>4, <1>5 DEF IInv

LEMMA TakeInv ==
    ASSUME IInv, NEW c \in Cores,
           \/ \E events \in Given : chEvtGetAndClearEvents(c, events)
           \/ \E w \in Waits : WaitSatisfied(c, w.kind, w.events)
    PROVE  IInv'
<1>1. Caller(c) /\ UNCHANGED <<k, ewmask, wait, list, el, loop>>
  BY DEF chEvtGetAndClearEvents, WaitSatisfied
<1>2. PICK t : t = k.current[c]
  OBVIOUS
<1>3. t \in Threads /\ k.state[t] = "CURRENT" /\ wait[t] = NoWait
  BY <1>1, <1>2, CallerFacts
<1>4. wait' = [wait EXCEPT ![t] = NoWait]
  BY <1>1, <1>3, Facts DEF Typed
<1>5. \E m : epending' = [epending EXCEPT ![t] = @ \ m] /\ Consume(t, m)
  <2>1. CASE \E events \in Given : chEvtGetAndClearEvents(c, events)
    <3>1. PICK events \in Given : chEvtGetAndClearEvents(c, events)
      BY <2>1
    <3>2. PICK m : m = epending[t] \intersect events
      OBVIOUS
    <3>3. epending' = [epending EXCEPT ![t] = @ \ events] /\ Consume(t, m)
      BY <1>2, <3>1, <3>2 DEF chEvtGetAndClearEvents
    <3>4. epending[t] \ events = epending[t] \ m
      BY <3>2
    <3>5. epending' = [epending EXCEPT ![t] = @ \ m]
      BY <3>3, <3>4
    <3> QED BY <3>3, <3>5
  <2>2. CASE \E w \in Waits : WaitSatisfied(c, w.kind, w.events)
    BY <1>2, <2>2 DEF WaitSatisfied, Serve
  <2> QED BY <2>1, <2>2
<1> QED BY <1>1, <1>3, <1>4, <1>5, TakenInv

\* A wait ends: with the events, or with a timeout.
LEMMA ReturnInv ==
    ASSUME IInv, NEW c \in Cores, WaitReturn(c)
    PROVE  IInv'
<1>1. PICK t : t = k.current[c]
  OBVIOUS
<1>2. t \in Threads /\ k.state[t] = "CURRENT"
  BY <1>1, Facts
<1>3. UNCHANGED <<k, ewmask, list, el, loop>> /\ wait' = [wait EXCEPT ![t] = NoWait]
  BY <1>1 DEF WaitReturn
<1>4. CASE k.rdymsg[t] = "TIMEOUT"
  <2>1. UNCHANGED <<epending, taken>>
    BY <1>1, <1>4 DEF WaitReturn
  <2>2. /\ Typed(wait, epending, ewmask, el, taken) /\ WaitsOK(k, wait, epending, ewmask)
        /\ ListsOK(list, el) /\ LoopOK(k, list, loop) /\ FlagsAnnounced /\ TypeOK
        /\ Sound(k, Busy(loop))
    BY Facts DEF IInv
  <2>a. wait \in [Threads -> WaitKinds \union {NoWait}] /\ k.state[t] \notin {"WTOREVT", "WTANDEVT"}
    BY <1>2, <2>2 DEF Typed
  <2>3. /\ wait' \in [Threads -> WaitKinds \union {NoWait}] /\ wait'[t] = NoWait
        /\ \A u \in Threads \ {t} : wait'[u] = wait[u]
    BY <1>2, <1>3, <2>a
  <2>4. WaitsOK(k, wait', epending, ewmask)
    BY <1>2, <2>2, <2>a, <2>3, AwakeWaits
  <2>5. TypeOK' /\ FlagsAnnounced'
    BY <1>3, <2>1, <2>2, <2>3 DEF TypeOK, FlagsAnnounced, Registered
  <2> QED BY <1>3, <2>1, <2>2, <2>4, <2>5 DEF IInv
<1>5. CASE k.rdymsg[t] # "TIMEOUT"
  <2>1. \E m : epending' = [epending EXCEPT ![t] = @ \ m] /\ Consume(t, m)
    BY <1>1, <1>5 DEF WaitReturn, Serve
  <2> QED BY <1>2, <1>3, <2>1, TakenInv
<1> QED BY <1>4, <1>5

LEMMA AddEventsInv ==
    ASSUME IInv, NEW c \in Cores, NEW events \in Given, chEvtAddEvents(c, events)
    PROVE  IInv'
<1>1. PICK t : t = k.current[c]
  OBVIOUS
<1>2. /\ t \in Threads /\ k.state[t] = "CURRENT" /\ wait[t] = NoWait /\ loop = NoLoop
      /\ Sound(k, {})
  BY <1>1, CallerFacts DEF chEvtAddEvents
<1>3. /\ UNCHANGED <<k, ewmask, wait, list, el, loop, taken>>
      /\ epending' = [epending EXCEPT ![t] = @ \union events]
  BY <1>1 DEF chEvtAddEvents
<1>4. /\ Typed(wait, epending, ewmask, el, taken) /\ WaitsOK(k, wait, epending, ewmask)
      /\ ListsOK(list, el) /\ FlagsAnnounced
  BY Facts
<1>5. events \in SUBSET Events
  BY EventsAssumption DEF Masks
<1>6. PICK np : np = epending'
  OBVIOUS
<1>7. /\ np \in [Threads -> SUBSET Events] /\ \A u \in Threads \ {t} : np[u] = epending[u]
      /\ \A u \in Threads : epending[u] \subseteq np[u]
  BY <1>3, <1>4, <1>5, <1>6 DEF Typed
<1>8. WaitsOK(k, wait, np, ewmask)
  <2>1. /\ k.state[t] \notin {"WTOREVT", "WTANDEVT"} /\ wait[t] = NoWait
        /\ \A u \in Threads \ {t} : wait[u] = wait[u] /\ np[u] = epending[u]
    BY <1>2, <1>7
  <2> QED BY <1>2, <1>4, <2>1, AwakeWaits
<1>9. FlagsAnnounced'
  BY <1>3, <1>4, <1>6, <1>7, FlagsMore
<1>10. Typed(wait', epending', ewmask', el', taken')
  BY <1>3, <1>4, <1>6, <1>7 DEF Typed
<1>11. /\ Sound(k', {}) /\ loop' = NoLoop /\ WaitsOK(k', wait', epending', ewmask')
       /\ ListsOK(list', el')
  BY <1>2, <1>3, <1>4, <1>6, <1>8
<1> QED BY <1>9, <1>10, <1>11, Pieces

\* A thread has been signalled, outside a broadcast: x is the state between
\* the signal and the end of the call.
LEMMA SignalledInv ==
    ASSUME IInv, loop = NoLoop, NEW kk, Still(k, kk), NEW t \in Threads, NEW events \in SUBSET Events,
           NEW r, NEW nm, Signalled(kk, epending, ewmask, r, epending', nm, t, events),
           Sound(k', {}), r = k' \/ Still(r, k'), ewmask' = nm,
           UNCHANGED <<wait, list, el, loop, taken>>
    PROVE  IInv'
<1>1. /\ Typed(wait, epending, ewmask, el, taken) /\ WaitsOK(k, wait, epending, ewmask)
      /\ ListsOK(list, el) /\ FlagsAnnounced
  BY Facts
<1>2. WaitsOK(kk, wait, epending, ewmask)
  BY <1>1, StillWaits
<1>3. /\ epending' = [epending EXCEPT ![t] = @ \union events] /\ nm \in [Threads -> SUBSET Events]
      /\ WaitsOK(r, wait, epending', nm)
  BY <1>2 DEF Signalled
<1>4. WaitsOK(k', wait, epending', nm)
  BY <1>3, StillWaits
<1>5. /\ epending' \in [Threads -> SUBSET Events]
      /\ \A u \in Threads : epending[u] \subseteq epending'[u]
  BY <1>1, <1>3 DEF Typed
<1>6. FlagsAnnounced'
  BY <1>1, <1>5, FlagsMore
<1>7. Typed(wait', epending', ewmask', el', taken')
  BY <1>1, <1>3, <1>5 DEF Typed
<1>8. loop' = NoLoop /\ WaitsOK(k', wait', epending', ewmask') /\ ListsOK(list', el')
  BY <1>1, <1>4
<1> QED BY <1>6, <1>7, <1>8, Pieces

LEMMA SignalInv ==
    ASSUME IInv, NEW c \in Cores, NEW t \in UserThreads, NEW events \in Given,
           NEW thread \in BOOLEAN, SignalThread(c, t, events, thread)
    PROVE  IInv'
<1>1. /\ t \in Threads /\ events \in SUBSET Events
  BY EventsAssumption DEF Masks, UserThreads
<1>2. epending \in [Threads -> SUBSET Events] /\ ewmask \in [Threads -> SUBSET Events]
  BY Facts DEF Typed
<1>3. UNCHANGED <<wait, list, el, loop, taken>>
  BY DEF SignalThread
<1>4. CASE thread
  <2>1. PICK y : y = chEvtSignalI([k |-> k, epending |-> epending, ewmask |-> ewmask], c, t, events)
    OBVIOUS
  <2>2. /\ Caller(c) /\ k' = chSchRescheduleS(y.k, c) /\ epending' = y.epending /\ ewmask' = y.ewmask
    BY <1>4, <2>1 DEF SignalThread, Now
  <2>3. loop = NoLoop /\ c \notin k.isr /\ Sound(k, {})
    BY <2>2, CallerFacts
  <2>4. Sound(y.k, {} \union {c})
    BY <1>1, <1>2, <2>1, <2>3, SignalWaits
  <2>5. Signalled(k, epending, ewmask, y.k, y.epending, y.ewmask, t, events)
    BY <1>1, <1>2, <2>1, <2>3, SignalWaits
  <2>6. Sound(y.k, {c}) /\ c \notin y.k.isr
    <3>1. {} \union {c} = {c}
      OBVIOUS
    <3>2. NoSwitch(k, y.k)
      BY <2>5 DEF Signalled
    <3> QED BY <2>3, <2>4, <3>1, <3>2 DEF NoSwitch
  <2>7. Sound(k', {})
    BY <2>2, <2>6, RunReschedule
  <2>8. Still(y.k, k')
    BY <2>2, <2>6, RunReschedule
  <2>9. Still(k, k)
    BY DEF Still, Others
  <2> QED BY <1>1, <1>3, <2>2, <2>3, <2>5, <2>7, <2>8, <2>9, SignalledInv
<1>5. CASE ~ thread
  <2>0. PICK kk : kk = EnterIsr(k, c)
    OBVIOUS
  <2>1. PICK y : y = chEvtSignalI([k |-> kk, epending |-> epending, ewmask |-> ewmask], c, t, events)
    OBVIOUS
  <2>2. /\ loop = NoLoop /\ k' = y.k /\ epending' = y.epending /\ ewmask' = y.ewmask
    BY <1>5, <2>0, <2>1 DEF SignalThread, Now, Unlocked
  <2>3. Sound(k, {})
    BY <2>2, Quiet
  <2>4. Sound(kk, {})
    BY <2>0, <2>3, RunIrq
  <2>5. Still(k, kk)
    BY <2>0, <2>3, RunIrq
  <2>6. c \in kk.isr
    <3>1. KInv(k) /\ OrderedBut(k, {})
      BY <2>3 DEF Sound
    <3>2. kk.isr = k.isr \union {c}
      BY <2>0, <3>1, EnterIsrOrder
    <3> QED BY <3>2
  <2>7. Sound(y.k, {} \union {c})
    BY <1>1, <1>2, <2>1, <2>4, SignalWaits
  <2>8. Signalled(kk, epending, ewmask, y.k, y.epending, y.ewmask, t, events)
    BY <1>1, <1>2, <2>1, <2>4, SignalWaits
  <2>9. Sound(y.k, {c}) /\ c \in y.k.isr
    <3>1. {} \union {c} = {c}
      OBVIOUS
    <3>2. NoSwitch(kk, y.k)
      BY <2>8 DEF Signalled
    <3> QED BY <2>6, <2>7, <3>1, <3>2 DEF NoSwitch
  <2>10. Sound(k', {})
    BY <2>2, <2>9, SoundIsr
  <2> QED BY <1>1, <1>3, <2>2, <2>5, <2>8, <2>10, SignalledInv
<1> QED BY <1>4, <1>5

\* A wait that finds nothing: the thread sleeps.
LEMMA SleepInv ==
    ASSUME IInv, NEW c \in Cores, NEW w \in Waits, NEW timed \in BOOLEAN,
           WaitSleep(c, w.kind, w.events, timed)
    PROVE  IInv'
<1>1. PICK t, ns : t = k.current[c] /\ ns = WaitState(w.kind)
  OBVIOUS
<1>2. /\ t \in Threads /\ loop = NoLoop /\ Sound(k, {}) /\ InThread(k, c)
  BY <1>1, CallerFacts DEF WaitSleep
<1>3. /\ ~ Satisfied(w.kind, epending[t], w.events) /\ ewmask' = [ewmask EXCEPT ![t] = w.events]
      /\ wait' = [wait EXCEPT ![t] = [kind |-> w.kind, events |-> w.events]]
      /\ k' = chSchGoSleepTimeoutS(k, c, ns, timed)
      /\ UNCHANGED <<epending, list, el, loop, taken>>
  BY <1>1 DEF WaitSleep
<1>4. w \in WaitKinds /\ w.events \in SUBSET Events
  BY EventsAssumption DEF WaitKinds, Masks
<1>5. [kind |-> w.kind, events |-> w.events] = w
  BY <1>4 DEF WaitKinds
<1>6. ns \in TimedStates \ {"READY"}
  BY <1>1 DEF WaitState, TimedStates, States
<1>7. Sound(k', {})
  BY <1>2, <1>3, <1>6, RunSleep
<1>8. Rested(k, k', t, ns)
  BY <1>1, <1>2, <1>3, <1>6, RunSleep
<1>9. /\ Typed(wait, epending, ewmask, el, taken) /\ WaitsOK(k, wait, epending, ewmask)
      /\ ListsOK(list, el) /\ FlagsAnnounced
  BY Facts
<1>10. PICK nw, nm : nw = wait' /\ nm = ewmask'
  OBVIOUS
<1>11. wait \in [Threads -> WaitKinds \union {NoWait}] /\ ewmask \in [Threads -> SUBSET Events]
  BY <1>9 DEF Typed
<1>12. /\ nw \in [Threads -> WaitKinds \union {NoWait}] /\ nm \in [Threads -> SUBSET Events]
       /\ nw[t] = w /\ nm[t] = w.events
       /\ \A u \in Threads \ {t} : nw[u] = wait[u] /\ nm[u] = ewmask[u]
  BY <1>2, <1>3, <1>4, <1>5, <1>10, <1>11
<1>13. WaitsOK(k', nw, epending, nm)
  BY <1>1, <1>2, <1>3, <1>4, <1>8, <1>9, <1>12, RestedWaits
<1>14. Typed(wait', epending', ewmask', el', taken')
  BY <1>3, <1>9, <1>10, <1>12 DEF Typed
<1>15. FlagsAnnounced' /\ loop' = NoLoop /\ WaitsOK(k', wait', epending', ewmask') /\ ListsOK(list', el')
  BY <1>2, <1>3, <1>9, <1>10, <1>13 DEF FlagsAnnounced, Registered
<1> QED BY <1>7, <1>14, <1>15, Pieces

-----------------------------------------------------------------------------
(* The broadcast                                                             *)

LEMMA BroadcastInv ==
    ASSUME IInv, NEW c \in Cores, NEW s \in Sources, NEW flags \in SUBSET Flags,
           NEW thread \in BOOLEAN, Broadcast(c, s, flags, thread)
    PROVE  IInv'
<1>1. UNCHANGED <<epending, ewmask, wait, list, el, taken>> /\ loop = NoLoop
  BY DEF Broadcast, Caller, Unlocked
<1>2. /\ Typed(wait, epending, ewmask, el, taken) /\ WaitsOK(k, wait, epending, ewmask)
      /\ ListsOK(list, el) /\ FlagsAnnounced /\ Sound(k, {}) /\ TypeOK
  BY <1>1, Facts, Quiet DEF IInv
<1>3. list[s] \in Seq(Listeners)
  BY <1>2 DEF ListsOK
<1>4. CASE thread
  <2>1. /\ k' = k /\ loop' = [op |-> "thread", core |-> c, flags |-> flags, rest |-> list[s]]
        /\ c \notin k.isr
    BY <1>4, CallerFacts DEF Broadcast
  <2>2. loop' \in Loops /\ loop'.op = "thread" /\ loop'.core = c /\ loop'.rest = list[s]
    BY <1>3, <2>1 DEF Loops
  <2>3. Busy(loop') = {c}
    BY <2>2 DEF Busy
  <2>4. Sound(k', Busy(loop'))
    BY <1>2, <2>1, <2>3, SoundMore
  <2>5. LoopOK(k', list', loop')
    BY <1>1, <2>1, <2>2 DEF LoopOK
  <2>6. TypeOK' /\ FlagsAnnounced'
    BY <1>1, <1>2, <2>1, <2>2 DEF TypeOK, FlagsAnnounced, Registered
  <2> QED BY <1>1, <1>2, <2>1, <2>4, <2>5, <2>6 DEF IInv
<1>5. CASE ~ thread
  <2>1. /\ k' = EnterIsr(k, c)
        /\ loop' = [op |-> "handler", core |-> c, flags |-> flags, rest |-> list[s]]
    BY <1>5 DEF Broadcast
  <2>2. loop' \in Loops /\ loop'.op = "handler" /\ loop'.core = c /\ loop'.rest = list[s]
    BY <1>3, <2>1 DEF Loops
  <2>3. Busy(loop') = {}
    BY <2>2 DEF Busy
  <2>4. Sound(k', {})
    BY <1>2, <2>1, RunIrq
  <2>5. Still(k, k')
    BY <1>2, <2>1, RunIrq
  <2>6. c \in k'.isr
    <3>1. KInv(k) /\ OrderedBut(k, {})
      BY <1>2 DEF Sound
    <3>2. k'.isr = k.isr \union {c}
      BY <2>1, <3>1, EnterIsrOrder
    <3> QED BY <3>2
  <2>7. LoopOK(k', list', loop')
    BY <1>1, <2>2, <2>6 DEF LoopOK
  <2>8. k' \in KernelType /\ WaitsOK(k', wait, epending, ewmask)
    BY <1>2, <2>4, <2>5, SoundFacts, StillWaits
  <2>9. TypeOK' /\ FlagsAnnounced'
    BY <1>1, <1>2, <2>2, <2>8 DEF TypeOK, FlagsAnnounced, Registered
  <2> QED BY <1>1, <1>2, <2>3, <2>4, <2>7, <2>8, <2>9 DEF IInv
<1> QED BY <1>4, <1>5

\* The loop and the core that executes it.
LEMMA LoopFacts ==
    ASSUME IInv, loop # NoLoop, NEW c, c = loop.core
    PROVE  /\ loop \in Loops /\ c \in Cores /\ Sound(k, Busy(loop)) /\ loop.rest \in Seq(Listeners)
           /\ \A e \in ToSet(loop.rest) : Registered(e) /\ el[e].listener \in Threads
           /\ \/ loop.op = "thread" /\ c \notin k.isr /\ Busy(loop) = {c}
              \/ loop.op = "handler" /\ c \in k.isr /\ Busy(loop) = {}
<1>1. loop \in Loops /\ LoopOK(k, list, loop) /\ ListsOK(list, el) /\ Sound(k, Busy(loop))
  BY Facts
<1>2. c \in Cores /\ loop.op \in {"thread", "handler"} /\ loop.rest \in Seq(Listeners)
  BY <1>1 DEF Loops
<1>3. \A e \in ToSet(loop.rest) : \E s \in Sources : e \in ToSet(list[s])
  BY <1>1, <1>2 DEF LoopOK
<1>4. \A e \in ToSet(loop.rest) : Registered(e) /\ el[e].listener \in Threads
  BY <1>1, <1>3 DEF ListsOK, Registered
<1>5. \/ loop.op = "thread" /\ c \notin k.isr /\ Busy(loop) = {c}
      \/ loop.op = "handler" /\ c \in k.isr /\ Busy(loop) = {}
  BY <1>1, <1>2 DEF LoopOK, Busy
<1> QED BY <1>1, <1>2, <1>4, <1>5

\* The first listener of the rest is told, if it has to be: kernel, events and
\* masks after it.
Told(c, e) ==
    /\ Sound(k', Busy(loop)) /\ NoSwitch(k, k') /\ WaitsOK(k', wait, epending', ewmask')
    /\ epending' \in [Threads -> SUBSET Events] /\ ewmask' \in [Threads -> SUBSET Events]
    /\ \A u \in Threads : epending[u] \subseteq epending'[u]
    /\ loop.flags \intersect el[e].wflags # {} => el[e].events \subseteq epending'[el[e].listener]

LEMMA ToldStep ==
    ASSUME IInv, chEvtBroadcastFlagsI, NEW e, e = Head(loop.rest), NEW c, c = loop.core
    PROVE  Told(c, e)
<1>1. loop # NoLoop /\ loop.rest # <<>>
  BY DEF chEvtBroadcastFlagsI
<1>2. /\ loop \in Loops /\ c \in Cores /\ Sound(k, Busy(loop)) /\ loop.rest \in Seq(Listeners)
      /\ \A x \in ToSet(loop.rest) : Registered(x) /\ el[x].listener \in Threads
  BY <1>1, LoopFacts
<1>3. \/ loop.op = "thread" /\ c \notin k.isr /\ Busy(loop) = {c}
      \/ loop.op = "handler" /\ c \in k.isr /\ Busy(loop) = {}
  BY <1>1, LoopFacts
<1>4. e \in ToSet(loop.rest) /\ e \in Listeners
  BY <1>1, <1>2, RestOfList
<1>5. /\ epending \in [Threads -> SUBSET Events] /\ ewmask \in [Threads -> SUBSET Events]
      /\ el[e].events \in SUBSET Events /\ WaitsOK(k, wait, epending, ewmask)
  BY <1>4, Facts DEF Typed, ListenerType
<1>6. PICK t, events : t = el[e].listener /\ events = el[e].events
  OBVIOUS
<1>7. t \in Threads /\ events \in SUBSET Events
  BY <1>2, <1>4, <1>5, <1>6
<1>8. CASE Announces(loop.flags, el[e].wflags)
  <2>1. PICK y : y = chEvtSignalI([k |-> k, epending |-> epending, ewmask |-> ewmask], c, t, events)
    OBVIOUS
  <2>2. k' = y.k /\ epending' = y.epending /\ ewmask' = y.ewmask
    BY <1>6, <1>8, <2>1 DEF chEvtBroadcastFlagsI, Now
  <2>3. Sound(y.k, Busy(loop) \union {c})
    BY <1>2, <1>5, <1>7, <2>1, SignalWaits
  <2>4. Signalled(k, epending, ewmask, y.k, y.epending, y.ewmask, t, events)
    BY <1>2, <1>5, <1>7, <2>1, SignalWaits
  <2>5. /\ epending' = [epending EXCEPT ![t] = @ \union events]
        /\ ewmask' \in [Threads -> SUBSET Events]
        /\ NoSwitch(k, k') /\ WaitsOK(k', wait, epending', ewmask')
    BY <1>5, <2>2, <2>4 DEF Signalled
  <2>6. Sound(k', Busy(loop))
    <3>1. CASE Busy(loop) = {c}
      <4>1. Busy(loop) \union {c} = Busy(loop)
        BY <3>1
      <4> QED BY <2>2, <2>3, <4>1
    <3>2. CASE c \in k.isr /\ Busy(loop) = {}
      <4>1. Busy(loop) \union {c} = {c}
        BY <3>2
      <4>2. c \in k'.isr /\ Sound(k', {c})
        BY <2>2, <2>3, <2>5, <3>2, <4>1 DEF NoSwitch
      <4> QED BY <3>2, <4>2, SoundIsr
    <3> QED BY <1>3, <3>1, <3>2
  <2>7. /\ epending' \in [Threads -> SUBSET Events] /\ events \subseteq epending'[t]
        /\ \A u \in Threads : epending[u] \subseteq epending'[u]
    BY <1>5, <1>7, <2>5
  <2> QED BY <1>6, <2>5, <2>6, <2>7 DEF Told
<1>9. CASE ~ Announces(loop.flags, el[e].wflags)
  <2>1. k' = k /\ epending' = epending /\ ewmask' = ewmask
    BY <1>9 DEF chEvtBroadcastFlagsI, Now
  <2>2. loop.flags \intersect el[e].wflags = {}
    BY <1>9 DEF Announces
  <2> QED BY <1>2, <1>5, <2>1, <2>2 DEF Told, NoSwitch
<1> QED BY <1>8, <1>9

LEMMA LoopStepInv ==
    ASSUME IInv, chEvtBroadcastFlagsI
    PROVE  IInv'
<1>1. PICK c, e : c = loop.core /\ e = Head(loop.rest)
  OBVIOUS
<1>2. /\ loop # NoLoop /\ loop.rest # <<>> /\ UNCHANGED <<wait, list, taken>>
      /\ el' = [el EXCEPT ![e].flags = @ \union loop.flags]
      /\ loop' = [loop EXCEPT !.rest = Tail(@)]
  BY <1>1 DEF chEvtBroadcastFlagsI
<1>3. /\ loop \in Loops /\ c \in Cores /\ loop.rest \in Seq(Listeners)
      /\ \A x \in ToSet(loop.rest) : Registered(x) /\ el[x].listener \in Threads
  BY <1>1, <1>2, LoopFacts
<1>4. Told(c, e)
  BY <1>1, ToldStep
<1>5. e \in Listeners /\ Tail(loop.rest) \in Seq(Listeners)
      /\ ToSet(Tail(loop.rest)) \subseteq ToSet(loop.rest)
  BY <1>1, <1>2, <1>3, RestOfList
<1>6. /\ loop' \in Loops /\ loop'.op = loop.op /\ loop'.core = loop.core
      /\ loop'.rest = Tail(loop.rest)
  BY <1>2, <1>3, <1>5 DEF Loops
<1>7. Busy(loop') = Busy(loop)
  BY <1>6 DEF Busy
<1>8. LoopOK(k', list', loop')
  <2>1. NoSwitch(k, k')
    BY <1>4 DEF Told
  <2>2. LoopOK(k, list, loop) /\ loop.op # "none"
    BY <1>3, Facts DEF Loops
  <2> QED BY <1>2, <1>5, <1>6, <2>1, <2>2 DEF LoopOK, NoSwitch
<1>9. /\ Typed(wait, epending, ewmask, el, taken) /\ ListsOK(list, el) /\ FlagsAnnounced
  BY Facts
<1>10. /\ el' \in [Listeners -> ListenerType]
       /\ \A x \in Listeners \ {e} : el'[x] = el[x]
       /\ el'[e].listener = el[e].listener /\ el'[e].events = el[e].events
       /\ el'[e].wflags = el[e].wflags /\ el'[e].flags = el[e].flags \union loop.flags
  <2>1. el \in [Listeners -> ListenerType] /\ loop.flags \in SUBSET Flags
    BY <1>3, <1>9 DEF Typed, Loops
  <2> QED BY <1>2, <1>5, <2>1 DEF ListenerType
<1>11. ListsOK(list', el')
  <2>1. \A z \in Sources : ToSet(list[z]) \subseteq Listeners
    BY <1>9 DEF ToSet, ListsOK
  <2>2. \A x \in Listeners : el'[x].listener = el[x].listener
    BY <1>10
  <2> QED BY <1>2, <1>9, <2>1, <2>2 DEF ListsOK
<1>12. FlagsAnnounced'
  <2>1. \A x \in Listeners : Registered(x)' = Registered(x)
    BY <1>2 DEF Registered
  <2>2. \A x \in Listeners : Registered(x) => el[x].listener \in Threads
    BY <1>9 DEF Registered, ListsOK
  <2>3. ASSUME NEW x \in Listeners, Registered(x), el'[x].flags \intersect el'[x].wflags # {}
        PROVE  el'[x].events \subseteq epending'[el'[x].listener] \union taken[x]
    <3>1. el[x].listener \in Threads /\ \A u \in Threads : epending[u] \subseteq epending'[u]
      BY <1>4, <2>2, <2>3 DEF Told
    <3>2. CASE el[x].flags \intersect el[x].wflags # {}
      <4>1. el[x].events \subseteq epending[el[x].listener] \union taken[x]
        BY <1>9, <2>3, <3>2 DEF FlagsAnnounced
      <4>2. el'[x].events = el[x].events /\ el'[x].listener = el[x].listener
        BY <1>10
      <4> QED BY <3>1, <4>1, <4>2
    <3>3. CASE el[x].flags \intersect el[x].wflags = {}
      <4>1. x = e
        BY <1>10, <2>3, <3>3
      <4>2. loop.flags \intersect el[e].wflags # {}
        BY <1>10, <2>3, <3>3, <4>1
      <4> QED BY <1>4, <1>10, <4>1, <4>2 DEF Told
    <3> QED BY <3>2, <3>3
  <2> QED BY <1>2, <2>1, <2>3 DEF FlagsAnnounced
<1>13. Sound(k', Busy(loop')) /\ WaitsOK(k', wait', epending', ewmask')
  BY <1>2, <1>4, <1>7 DEF Told
<1>14. TypeOK'
  <2>1. k' \in KernelType
    BY <1>13, SoundFacts
  <2>2. epending' \in [Threads -> SUBSET Events] /\ ewmask' \in [Threads -> SUBSET Events]
    BY <1>4 DEF Told
  <2>3. list' \in [Sources -> Seq(Listeners)]
    BY <1>11 DEF ListsOK
  <2>4. wait' \in [Threads -> WaitKinds \union {NoWait}] /\ taken' \in [Listeners -> SUBSET Events]
    BY <1>2, <1>9 DEF Typed
  <2> QED BY <1>6, <1>10, <2>1, <2>2, <2>3, <2>4 DEF TypeOK, ListenerType
<1> QED BY <1>8, <1>11, <1>12, <1>13, <1>14 DEF IInv

\* All the listeners are told: the thread reschedules, a handler goes on.
LEMMA LoopEndInv ==
    ASSUME IInv, BroadcastEnd
    PROVE  IInv'
<1>1. PICK c : c = loop.core
  OBVIOUS
<1>2. loop # NoLoop /\ loop' = NoLoop /\ UNCHANGED <<epending, ewmask, wait, list, el, taken>>
  BY DEF BroadcastEnd
<1>3. c \in Cores /\ Sound(k, Busy(loop))
  BY <1>1, <1>2, LoopFacts
<1>4. \/ loop.op = "thread" /\ c \notin k.isr /\ Busy(loop) = {c}
      \/ loop.op = "handler" /\ c \in k.isr /\ Busy(loop) = {}
  BY <1>1, <1>2, LoopFacts
<1>5. Sound(k', {}) /\ Still(k, k')
  <2>1. CASE loop.op = "thread"
    <3>1. k' = chSchRescheduleS(k, c) /\ Sound(k, {c}) /\ c \notin k.isr
      BY <1>1, <1>3, <1>4, <2>1 DEF BroadcastEnd
    <3>2. Sound(k', {})
      BY <1>3, <3>1, RunReschedule
    <3>3. Still(k, k')
      BY <1>3, <3>1, RunReschedule
    <3> QED BY <3>2, <3>3
  <2>2. CASE loop.op = "handler"
    <3>1. k' = k /\ Sound(k, {})
      BY <1>3, <1>4, <2>2 DEF BroadcastEnd
    <3> QED BY <3>1 DEF Still, Others
  <2> QED BY <1>4, <2>1, <2>2
<1>6. WaitsOK(k', wait', epending', ewmask')
  <2>1. WaitsOK(k, wait, epending, ewmask)
    BY Facts
  <2>2. WaitsOK(k', wait, epending, ewmask)
    BY <1>5, <2>1, StillWaits
  <2> QED BY <1>2, <2>2
<1>7. FlagsAnnounced' /\ ListsOK(list', el') /\ Typed(wait', epending', ewmask', el', taken')
  BY <1>2, Facts DEF FlagsAnnounced, Registered
<1> QED BY <1>2, <1>5, <1>6, <1>7, Pieces

-----------------------------------------------------------------------------
(* The theorems                                                              *)

\* The invariant holds in every reachable state, whatever the events, flags,
\* sources and listeners: one case per action of RtEvents.
THEOREM Inductive == Spec => []IInv
<1>1. Init => IInv
  <2> SUFFICES ASSUME Init PROVE IInv
    OBVIOUS
  <2>1. Prio \in [Threads -> Prios] /\ k = KernelInit(Prio)
    BY EventsAssumption DEF Init
  <2>2. Sound(k, {}) /\ k \in KernelType
    BY <2>1, RunInit, SoundFacts
  <2>3. k.state = [t \in Threads |-> IF t \in UserThreads THEN "WTSTART" ELSE "CURRENT"]
    BY <2>1 DEF KernelInit
  <2>4. \A t \in Threads : k.state[t] \in {"WTSTART", "CURRENT"}
    BY <2>3
  <2>5. loop = NoLoop /\ loop.op = "none" /\ Busy(loop) = {}
    BY DEF Init, NoLoop, Busy
  <2>6. WaitsOK(k, wait, epending, ewmask)
    BY <2>4 DEF WaitsOK, WaitOK, Init
  <2>7. NoDuplicates(<<>>) /\ ToSet(<<>>) = {}
    BY DEF NoDuplicates, IsSorted, ToSet
  <2>8. list \in [Sources -> Seq(Listeners)] /\ \A s \in Sources : list[s] = <<>>
    BY DEF Init
  <2>9. ListsOK(list, el)
    BY <2>7, <2>8 DEF ListsOK
  <2>10. FlagsAnnounced
    BY <2>7, <2>8 DEF FlagsAnnounced, Registered
  <2>11. TypeOK
    BY <2>2, <2>5, <2>8 DEF TypeOK, Init
  <2> QED BY <2>2, <2>5, <2>6, <2>9, <2>10, <2>11 DEF IInv, LoopOK
<1>2. IInv /\ [Next]_vars => IInv'
  <2> SUFFICES ASSUME IInv, [Next]_vars PROVE IInv'
    OBVIOUS
  <2>1. CASE UNCHANGED vars
    BY <2>1 DEF vars, IInv, TypeOK, FlagsAnnounced, Registered
  <2>2. ASSUME NEW c \in Cores, ListenerCall(c) PROVE IInv'
    BY <2>2, RegisterInv, UnregisterInv, ClearFlagsInv DEF ListenerCall
  <2>3. ASSUME NEW c \in Cores, EventCall(c) PROVE IInv'
    <3>1. CASE \/ \E events \in Given : chEvtGetAndClearEvents(c, events)
               \/ \E w \in Waits : WaitSatisfied(c, w.kind, w.events)
      BY <3>1, TakeInv
    <3>2. CASE \E events \in Given : chEvtAddEvents(c, events)
      BY <3>2, AddEventsInv
    <3>3. CASE \E events \in Given : \E t \in UserThreads, thread \in BOOLEAN :
                   SignalThread(c, t, events, thread)
      BY <3>3, SignalInv
    <3>4. CASE \E w \in Waits : \E timed \in BOOLEAN : WaitSleep(c, w.kind, w.events, timed)
      BY <3>4, SleepInv
    <3>5. CASE WaitReturn(c)
      BY <3>5, ReturnInv
    <3>6. CASE \E s \in Sources, flags \in SUBSET Flags, thread \in BOOLEAN :
                   Broadcast(c, s, flags, thread)
      BY <3>6, BroadcastInv
    <3> QED BY <2>3, <3>1, <3>2, <3>3, <3>4, <3>5, <3>6 DEF EventCall
  <2>4. ASSUME NEW c \in Cores, KernelIrq(c) PROVE IInv'
    BY <2>4, StartInv, IrqInv, TimeoutInv DEF KernelIrq
  <2>5. CASE chEvtBroadcastFlagsI \/ BroadcastEnd
    BY <2>5, LoopStepInv, LoopEndInv
  <2> QED BY <2>1, <2>2, <2>3, <2>4, <2>5 DEF Next
<1> QED BY <1>1, <1>2, PTL DEF Spec

\* No wakeup is lost and none is for nothing: chEvtSignalI() and the loops of
\* chEvtBroadcastFlagsI() wake a thread exactly when its wait is satisfied,
\* and what woke it is still pending when it runs.
THEOREM WaitsExact == Spec => []EventWaitExact
<1>1. IInv => EventWaitExact
  BY DEF IInv, WaitsOK, WaitOK, EventWaitExact
<1> QED BY <1>1, Inductive, PTL

\* A listener with flags its thread asked for has told the thread, and the
\* thread has not forgotten it before it reads the flags.
THEOREM Announced == Spec => []FlagsAnnounced
<1>1. IInv => FlagsAnnounced
  BY DEF IInv
<1> QED BY <1>1, Inductive, PTL

\* The ready lists and the running threads are exact under the events, and
\* out of the kernel lock the most important ready thread of a core runs.
THEOREM KernelSound == Spec => []KernelOK
<1>1. IInv => KernelOK
  <2> SUFFICES ASSUME IInv PROVE KernelOK
    OBVIOUS
  <2>1. Sound(k, Busy(loop))
    BY Facts
  <2>2. /\ ReadyListExact(k) /\ ReadyListSorted(k) /\ CurrentExact(k)
        /\ \A c \in Cores \ (k.isr \union k.notified \union Busy(loop)) : PriorityOrder(k, c)
    BY <2>1, SoundImplies
  <2>3. Unlocked => Busy(loop) = {}
    BY DEF Unlocked, Busy, NoLoop
  <2> QED BY <2>2, <2>3 DEF KernelOK
<1> QED BY <1>1, Inductive, PTL

-----------------------------------------------------------------------------
(* A timeout against a signal                                                *)

Awake == {"READY", "CURRENT"}

\* The message of a thread that has been woken, from kk to r.
SameMessage(kk, r, t) == kk.state[t] \in Awake => r.state[t] \in Awake /\ r.rdymsg[t] = kk.rdymsg[t]

LEMMA StillMessage ==
    ASSUME NEW kk, NEW r, Still(kk, r), NEW t \in Threads
    PROVE  SameMessage(kk, r, t)
BY DEF Still, Others, SameMessage, Awake

\* Only a thread that still waits is woken.
LEMMA RousedMessage ==
    ASSUME NEW kk, NEW X, Sound(kk, X), NEW r, NEW u \in Threads, NEW m, Roused(kk, r, u, m),
           kk.state[u] \notin Awake, NEW t \in Threads
    PROVE  SameMessage(kk, r, t)
<1>1. kk.rdymsg \in [Threads -> Messages]
  BY SoundFacts
<1> QED BY <1>1 DEF Roused, Woken, Others, SameMessage, Awake

\* chEvtSignalI() gives no message to a thread that is awake.
LEMMA SignalMessage ==
    ASSUME NEW kk, NEW X, Sound(kk, X), NEW c \in Cores, NEW u \in Threads,
           NEW ep, NEW em, NEW events, NEW y,
           y = chEvtSignalI([k |-> kk, epending |-> ep, ewmask |-> em], c, u, events),
           NEW t \in Threads
    PROVE  SameMessage(kk, y.k, t)
<1>1. PICK p : p = ep[u] \union events
  OBVIOUS
<1>2. CASE Wakes(kk.state[u], p, em[u])
  <2>1. y.k = ReadyWithMsg(kk, c, u, "OK") /\ "OK" \in Messages
    BY <1>1, <1>2, KernelAssumption DEF chEvtSignalI
  <2>2. kk.state[u] \notin {"READY", "CURRENT"} /\ kk.state[u] \notin Awake
    BY <1>2 DEF Wakes, Awake
  <2>3. Roused(kk, y.k, u, "OK")
    BY <2>1, <2>2, RunReady
  <2> QED BY <2>2, <2>3, RousedMessage
<1>3. CASE ~ Wakes(kk.state[u], p, em[u])
  <2>1. y.k = kk
    BY <1>1, <1>3 DEF chEvtSignalI
  <2> QED BY <2>1 DEF SameMessage
<1> QED BY <1>2, <1>3

LEMMA SameMessageTwice ==
    ASSUME NEW kk, NEW x, NEW r, NEW t, SameMessage(kk, x, t), SameMessage(x, r, t)
    PROVE  SameMessage(kk, r, t)
BY DEF SameMessage

\* A step that leaves the wait of t alone leaves its events and, once it has
\* been woken, its message.
Untouched(t) ==
    wait'[t] = wait[t] /\ epending[t] \subseteq epending'[t] /\ SameMessage(k, k', t)

\* Steps of the kernel: only the callback of a thread that waits gives a
\* message.
LEMMA IrqUntouched ==
    ASSUME IInv, NEW c \in Cores, KernelIrq(c), NEW t \in Threads
    PROVE  Untouched(t)
<1>1. loop = NoLoop /\ wait' = wait /\ epending' = epending
  BY DEF KernelIrq, chThdStartI, Expire, sch_wakeup, Notified, ExitIsr, Unlocked, objs
<1>2. Sound(k, {})
  BY <1>1, Quiet
<1>3. CASE \E u \in UserThreads : chThdStartI(c, u)
  <2>1. PICK u \in UserThreads : chThdStartI(c, u)
    BY <1>3
  <2>2. /\ u \in Threads /\ k.state[u] \notin {"READY", "CURRENT"} /\ "OK" \in Messages
        /\ k' = ReadyWithMsg(EnterIsr(k, c), c, u, "OK")
    BY <2>1, KernelAssumption DEF chThdStartI, UserThreads
  <2>3. Roused(k, k', u, "OK")
    BY <1>2, <2>2, RunReadyI
  <2>4. SameMessage(k, k', t)
    BY <1>2, <2>2, <2>3, RousedMessage DEF Awake
  <2> QED BY <1>1, <2>4 DEF Untouched
<1>4. CASE sch_wakeup(c)
  <2>1. PICK u : u = k.firing[c]
    OBVIOUS
  <2>2. k.firing[c] # NoThread /\ k' = Callback(k, c)
    BY <1>4 DEF sch_wakeup, Callback
  <2>3. CalledBack(k, c, k')
    BY <1>2, <2>2, RunCallback
  <2>4. u \in Threads /\ k.state[u] # "CURRENT"
    BY <2>1, <2>3 DEF CalledBack, TimedStates
  <2>5. CASE AlreadyReady(k, u)
    <3>1. Still(k, k')
      BY <2>1, <2>3, <2>5 DEF CalledBack
    <3>2. SameMessage(k, k', t)
      BY <3>1, StillMessage
    <3> QED BY <1>1, <3>2 DEF Untouched
  <2>6. CASE ~ AlreadyReady(k, u)
    <3>1. Roused(k, k', u, "TIMEOUT") /\ k.state[u] \notin Awake
      BY <2>1, <2>3, <2>4, <2>6 DEF CalledBack, AlreadyReady, Awake
    <3>2. SameMessage(k, k', t)
      BY <1>2, <2>4, <3>1, RousedMessage
    <3> QED BY <1>1, <3>2 DEF Untouched
  <2> QED BY <2>5, <2>6
<1>5. CASE Notified(c) \/ ExitIsr(c) \/ \E u \in Threads : Expire(c, u)
  <2>1. \/ k' = NotifyIrq(k, c)
        \/ \E u \in Threads : TimerDueEnabled(k, c, u) /\ k' = TimerDue(k, c, u)
        \/ IsrExitEnabled(k, c) /\ k' = IsrExit(k, c)
    BY <1>5 DEF Notified, ExitIsr, Expire
  <2>2. Still(k, k')
    BY <1>2, <2>1, RunIrq
  <2>3. SameMessage(k, k', t)
    BY <2>2, StillMessage
  <2> QED BY <1>1, <2>3 DEF Untouched
<1> QED BY <1>3, <1>4, <1>5 DEF KernelIrq

\* Signals and the steps of a broadcast add events.
LEMMA SignalUntouched ==
    ASSUME IInv, NEW c \in Cores, NEW u \in UserThreads, NEW events \in Given,
           NEW thread \in BOOLEAN, SignalThread(c, u, events, thread), NEW t \in Threads
    PROVE  Untouched(t)
<1>1. u \in Threads /\ epending \in [Threads -> SUBSET Events] /\ wait' = wait /\ loop = NoLoop
  BY Facts DEF UserThreads, Typed, SignalThread, Caller, Unlocked
<1>2. Sound(k, {})
  BY <1>1, Quiet
<1>3. PICK kk : kk = IF thread THEN k ELSE EnterIsr(k, c)
  OBVIOUS
<1>4. PICK y : y = chEvtSignalI([k |-> kk, epending |-> epending, ewmask |-> ewmask], c, u, events)
  OBVIOUS
<1>5. /\ k' = (IF thread THEN chSchRescheduleS(y.k, c) ELSE y.k) /\ epending' = y.epending
      /\ thread => Caller(c)
  BY <1>3, <1>4 DEF SignalThread, Now
<1>6. epending[t] \subseteq epending'[t]
  BY <1>1, <1>4, <1>5 DEF chEvtSignalI
<1>7. Sound(kk, {}) /\ Still(k, kk)
  <2>1. CASE thread
    BY <1>2, <1>3, <2>1 DEF Still, Others
  <2>2. CASE ~ thread
    <3>1. kk = EnterIsr(k, c)
      BY <1>3, <2>2
    <3>2. Sound(kk, {})
      BY <1>2, <3>1, RunIrq
    <3>3. Still(k, kk)
      BY <1>2, <3>1, RunIrq
    <3> QED BY <3>2, <3>3
  <2> QED BY <2>1, <2>2
<1>8. SameMessage(k, kk, t)
  BY <1>7, StillMessage
<1>9. SameMessage(kk, y.k, t)
  BY <1>1, <1>4, <1>7, SignalMessage
<1>10. SameMessage(y.k, k', t)
  <2>1. CASE thread
    <3>1. events \in SUBSET Events /\ ewmask \in [Threads -> SUBSET Events] /\ c \notin k.isr /\ kk = k
      BY <1>3, <1>5, <2>1, Facts, CallerFacts, EventsAssumption DEF Masks, Typed
    <3>2. Sound(y.k, {} \union {c})
      BY <1>1, <1>4, <1>7, <3>1, SignalWaits
    <3>3. Signalled(kk, epending, ewmask, y.k, y.epending, y.ewmask, u, events)
      BY <1>1, <1>4, <1>7, <3>1, SignalWaits
    <3>4. Sound(y.k, {c}) /\ c \notin y.k.isr
      <4>1. {} \union {c} = {c}
        OBVIOUS
      <4> QED BY <3>1, <3>2, <3>3, <4>1 DEF Signalled, NoSwitch
    <3>5. k' = chSchRescheduleS(y.k, c)
      BY <1>5, <2>1
    <3>6. Still(y.k, k')
      BY <3>4, <3>5, RunReschedule
    <3> QED BY <3>6, StillMessage
  <2>2. CASE ~ thread
    BY <1>5, <2>2 DEF SameMessage
  <2> QED BY <2>1, <2>2
<1>11. SameMessage(k, k', t)
  BY <1>8, <1>9, <1>10, SameMessageTwice
<1> QED BY <1>1, <1>6, <1>11 DEF Untouched

LEMMA LoopUntouched ==
    ASSUME IInv, chEvtBroadcastFlagsI \/ BroadcastEnd, NEW t \in Threads
    PROVE  Untouched(t)
<1>1. PICK c, e : c = loop.core /\ e = Head(loop.rest)
  OBVIOUS
<1>2. loop # NoLoop /\ wait' = wait
  BY DEF chEvtBroadcastFlagsI, BroadcastEnd
<1>3. c \in Cores /\ Sound(k, Busy(loop)) /\ loop.rest \in Seq(Listeners)
      /\ \A x \in ToSet(loop.rest) : Registered(x) /\ el[x].listener \in Threads
  BY <1>1, <1>2, LoopFacts
<1>4. CASE chEvtBroadcastFlagsI
  <2>1. Told(c, e) /\ loop.rest # <<>>
    BY <1>1, <1>4, ToldStep DEF chEvtBroadcastFlagsI
  <2>2. epending[t] \subseteq epending'[t]
    BY <2>1 DEF Told
  <2>3. e \in ToSet(loop.rest)
    BY <1>1, <1>3, <2>1, RestOfList
  <2>4. SameMessage(k, k', t)
    <3>1. CASE Announces(loop.flags, el[e].wflags)
      <4>1. PICK u : u = el[e].listener
        OBVIOUS
      <4>2. PICK y : y = chEvtSignalI([k |-> k, epending |-> epending, ewmask |-> ewmask],
                                      c, u, el[e].events)
        OBVIOUS
      <4>3. k' = y.k /\ u \in Threads
        BY <1>1, <1>3, <1>4, <2>3, <3>1, <4>1, <4>2 DEF chEvtBroadcastFlagsI, Now
      <4>4. SameMessage(k, y.k, t)
        BY <1>3, <4>2, <4>3, SignalMessage
      <4> QED BY <4>3, <4>4
    <3>2. CASE ~ Announces(loop.flags, el[e].wflags)
      <4>1. k' = k
        BY <1>1, <1>4, <3>2 DEF chEvtBroadcastFlagsI, Now
      <4> QED BY <4>1 DEF SameMessage
    <3> QED BY <3>1, <3>2
  <2> QED BY <1>2, <2>2, <2>4 DEF Untouched
<1>5. CASE BroadcastEnd
  <2>1. epending' = epending
    BY <1>5 DEF BroadcastEnd
  <2>2. Still(k, k')
    <3>1. CASE loop.op = "thread"
      <4>1. k' = chSchRescheduleS(k, c)
        BY <1>1, <1>5, <3>1 DEF BroadcastEnd
      <4>2. Busy(loop) = {c} /\ c \notin k.isr
        BY <1>1, <1>2, <3>1, LoopFacts
      <4>3. Sound(k, {c})
        BY <1>3, <4>2
      <4> QED BY <1>3, <4>1, <4>2, <4>3, RunReschedule
    <3>2. CASE loop.op # "thread"
      BY <1>5, <3>2 DEF BroadcastEnd, Still, Others
    <3> QED BY <3>1, <3>2
  <2>3. SameMessage(k, k', t)
    BY <2>2, StillMessage
  <2> QED BY <1>2, <2>1, <2>3 DEF Untouched
<1> QED BY <1>4, <1>5

\* The calls of the running thread, which is inside no wait.
LEMMA CallUntouched ==
    ASSUME IInv, NEW c \in Cores,
           \/ ListenerCall(c)
           \/ \E events \in Given : chEvtGetAndClearEvents(c, events) \/ chEvtAddEvents(c, events)
           \/ \E w \in Waits : WaitSatisfied(c, w.kind, w.events)
           \/ \E s \in Sources, flags \in SUBSET Flags, thread \in BOOLEAN :
                 Broadcast(c, s, flags, thread),
           NEW t \in Threads, wait[t] # NoWait
    PROVE  Untouched(t)
<1>0. epending \in [Threads -> SUBSET Events]
  BY Facts DEF Typed
<1>1. CASE ListenerCall(c)
  <2>1. UNCHANGED <<k, epending, wait>>
    BY <1>1 DEF ListenerCall, chEvtRegisterMaskWithFlags, chEvtUnregister, chEvtGetAndClearFlags
  <2> QED BY <2>1 DEF Untouched, SameMessage
<1>2. CASE \/ \E events \in Given : chEvtGetAndClearEvents(c, events) \/ chEvtAddEvents(c, events)
           \/ \E w \in Waits : WaitSatisfied(c, w.kind, w.events)
  <2>1. /\ Caller(c) /\ UNCHANGED <<k, wait>>
        /\ \E p : epending' = [epending EXCEPT ![k.current[c]] = p]
    BY <1>2 DEF chEvtGetAndClearEvents, chEvtAddEvents, WaitSatisfied, Serve
  <2>2. t # k.current[c]
    BY <2>1, CallerFacts
  <2>3. epending'[t] = epending[t]
    BY <1>0, <2>1, <2>2
  <2> QED BY <2>1, <2>3 DEF Untouched, SameMessage
<1>3. CASE \E s \in Sources, flags \in SUBSET Flags, thread \in BOOLEAN :
              Broadcast(c, s, flags, thread)
  <2>1. UNCHANGED <<epending, wait>> /\ loop = NoLoop /\ (k' = k \/ k' = EnterIsr(k, c))
    BY <1>3 DEF Broadcast, Caller, Unlocked
  <2>2. Sound(k, {})
    BY <2>1, Quiet
  <2>3. k' = k \/ Still(k, k')
    BY <2>1, <2>2, RunIrq
  <2>4. SameMessage(k, k', t)
    BY <2>3, StillMessage DEF SameMessage
  <2> QED BY <2>1, <2>4 DEF Untouched
<1> QED BY <1>1, <1>2, <1>3

\* Another thread goes to sleep.
LEMMA SleepUntouched ==
    ASSUME IInv, NEW c \in Cores, NEW w \in Waits, NEW timed \in BOOLEAN,
           WaitSleep(c, w.kind, w.events, timed), NEW t \in Threads, wait[t] # NoWait
    PROVE  Untouched(t)
<1>1. PICK u, ns : u = k.current[c] /\ ns = WaitState(w.kind)
  OBVIOUS
<1>2. u \in Threads /\ Sound(k, {}) /\ InThread(k, c) /\ t # u
  BY <1>1, CallerFacts DEF WaitSleep
<1>3. /\ wait' = [wait EXCEPT ![u] = [kind |-> w.kind, events |-> w.events]]
      /\ k' = chSchGoSleepTimeoutS(k, c, ns, timed) /\ epending' = epending
  BY <1>1 DEF WaitSleep
<1>4. ns \in TimedStates \ {"READY"}
  BY <1>1 DEF WaitState, TimedStates, States
<1>5. Rested(k, k', u, ns)
  BY <1>1, <1>2, <1>3, <1>4, RunSleep
<1>6. SameMessage(k, k', t)
  BY <1>2, <1>5 DEF Rested, Asleep, Others, SameMessage, Awake
<1>7. wait'[t] = wait[t]
  BY <1>2, <1>3, Facts DEF Typed
<1> QED BY <1>3, <1>6, <1>7 DEF Untouched

\* The end of a wait.
LEMMA ReturnUntouched ==
    ASSUME IInv, NEW c \in Cores, WaitReturn(c), NEW t \in Threads
    PROVE  wait'[t] = NoWait \/ Untouched(t)
<1>1. wait \in [Threads -> WaitKinds \union {NoWait}] /\ epending \in [Threads -> SUBSET Events]
  BY Facts DEF Typed
<1>2. /\ wait' = [wait EXCEPT ![k.current[c]] = NoWait] /\ k' = k
      /\ epending' = epending \/ \E p : epending' = [epending EXCEPT ![k.current[c]] = p]
  BY DEF WaitReturn, Serve
<1> QED BY <1>1, <1>2 DEF Untouched, SameMessage

\* Events that have been given to a wait are returned by it: the message of a
\* woken thread is not overwritten by the late callback of its timeout (the
\* test of __sch_wakeup() on CH_STATE_READY), and nobody but the thread itself
\* clears its pending events.
THEOREM NotLost == Spec => GrantedNotLost
<1>1. ASSUME IInv, [Next]_vars
      PROVE  [\A t \in Threads : Granted(t) => (Granted(t)' \/ wait'[t] = NoWait)]_vars
  <2>1. CASE UNCHANGED vars
    BY <2>1
  <2>2. CASE Next
    <3>1. ASSUME NEW t \in Threads, Granted(t), wait'[t] # NoWait PROVE Granted(t)'
      <4>1. wait[t] # NoWait
        BY <3>1 DEF Granted
      <4>2. ASSUME NEW c \in Cores, ListenerCall(c) PROVE Untouched(t)
        BY <1>1, <4>1, <4>2, CallUntouched
      <4>3. ASSUME NEW c \in Cores, EventCall(c) PROVE Untouched(t)
        BY <1>1, <3>1, <4>1, <4>3, CallUntouched, SignalUntouched, SleepUntouched, ReturnUntouched
           DEF EventCall
      <4>4. ASSUME NEW c \in Cores, KernelIrq(c) PROVE Untouched(t)
        BY <1>1, <4>4, IrqUntouched
      <4>5. ASSUME chEvtBroadcastFlagsI \/ BroadcastEnd PROVE Untouched(t)
        BY <1>1, <4>5, LoopUntouched
      <4>6. Untouched(t)
        BY <2>2, <4>2, <4>3, <4>4, <4>5 DEF Next
      <4>7. k.state[t] \in Awake
        BY <1>1, <3>1, Facts DEF WaitsOK, WaitOK, Granted, Awake
      <4>8. k'.rdymsg[t] = k.rdymsg[t] /\ wait'[t] = wait[t] /\ epending[t] \subseteq epending'[t]
        BY <4>6, <4>7 DEF Untouched, SameMessage
      <4> QED BY <3>1, <4>8 DEF Granted, Satisfied
    <3> QED BY <3>1
  <2> QED BY <1>1, <2>1, <2>2
<1> QED BY <1>1, Inductive, PTL DEF Spec, GrantedNotLost
=============================================================================
