-------------------------- MODULE RtThreadsProofs --------------------------
(***************************************************************************)
(* RtThreads: the ready lists are exact, the most important thread runs,   *)
(* the references and the queues hold exactly the threads that wait on     *)
(* them, a timeout never outlives its stack frame, a wakeup message never  *)
(* changes and a preempted thread keeps its turn, for every number of      *)
(* cores, threads, priorities, references, queues and ticks of a quantum.  *)
(***************************************************************************)
EXTENDS RtThreads, ChSchedProofs

\* The core whose order is restored by the caller at the end of the loop;
\* that of a handler is restored when the handler returns.
Busy(lp) == IF lp.op = "thread" THEN {lp.core} ELSE {}

\* The references hold exactly the suspended threads, and a waiting thread
\* knows an object of the kind its state says.
Links(kk, tr, wt) ==
    /\ tr \in [Refs -> Threads \union {NoThread}]
    /\ wt \in [Threads -> Refs \union Queues \union {NoObj}]
    /\ \A r \in Refs, t \in Threads :
          (tr[r] = t) <=> (kk.state[t] = "SUSPENDED" /\ wt[t] = r)
    /\ \A t \in Threads : /\ kk.state[t] = "SUSPENDED" => wt[t] \in Refs
                          /\ kk.state[t] = "QUEUED" => wt[t] \in Queues

\* The loop of a thread is not executed in a handler, that of a handler is.
LoopOK(kk, lp) ==
    /\ lp.op = "thread" => lp.core \notin kk.isr
    /\ lp.op = "handler" => lp.core \in kk.isr

IInv ==
    /\ TypeOK
    /\ Sound(k, Busy(loop))
    /\ QueuesExact(k, tqueue, wtobj, Queues, "QUEUED", FALSE)
    /\ Links(k, trp, wtobj)
    /\ LoopOK(k, loop)

-----------------------------------------------------------------------------
(* What the calls of the kernel do to the parts of the invariant             *)

\* The threads in Y, none of which waits on an object before or after, aside,
\* nobody begins or stops waiting.
LEMMA LinksSame ==
    ASSUME NEW kk, NEW r, NEW tr, NEW wt, Links(kk, tr, wt), NEW Y, Others(kk, r, Y),
           \A t \in Threads \intersect Y : /\ kk.state[t] \notin {"SUSPENDED", "QUEUED"}
                                           /\ r.state[t] \notin {"SUSPENDED", "QUEUED"}
    PROVE  Links(r, tr, wt)
<1>1. \A t \in Threads : /\ (r.state[t] = "SUSPENDED") <=> (kk.state[t] = "SUSPENDED")
                         /\ (r.state[t] = "QUEUED") <=> (kk.state[t] = "QUEUED")
  BY DEF Others
<1> QED BY <1>1 DEF Links

\* t leaves its queue, or its reference s.
LEMMA LinksOut ==
    ASSUME NEW kk, NEW r, NEW tr, NEW wt, Links(kk, tr, wt), NEW t \in Threads, Woken(kk, r, t)
    PROVE  /\ kk.state[t] = "QUEUED" => Links(r, tr, [wt EXCEPT ![t] = NoObj])
           /\ kk.state[t] = "SUSPENDED" =>
                 \A s \in Refs : wt[t] = s =>
                     Links(r, [tr EXCEPT ![s] = NoThread], [wt EXCEPT ![t] = NoObj])
<1>1. /\ \A u \in Threads \ {t} : /\ (r.state[u] = "SUSPENDED") <=> (kk.state[u] = "SUSPENDED")
                                  /\ (r.state[u] = "QUEUED") <=> (kk.state[u] = "QUEUED")
      /\ r.state[t] \notin {"SUSPENDED", "QUEUED"}
  BY DEF Woken, Others
<1>2. /\ tr \in [Refs -> Threads \union {NoThread}]
      /\ wt \in [Threads -> Refs \union Queues \union {NoObj}]
      /\ \A x \in Refs, u \in Threads :
            (tr[x] = u) <=> (kk.state[u] = "SUSPENDED" /\ wt[u] = x)
      /\ \A u \in Threads : /\ kk.state[u] = "SUSPENDED" => wt[u] \in Refs
                            /\ kk.state[u] = "QUEUED" => wt[u] \in Queues
  BY DEF Links
<1> DEFINE nw == [wt EXCEPT ![t] = NoObj]
<1>3. /\ nw \in [Threads -> Refs \union Queues \union {NoObj}] /\ nw[t] = NoObj
      /\ \A u \in Threads \ {t} : nw[u] = wt[u]
  BY <1>2
<1>4. \A u \in Threads : /\ r.state[u] = "SUSPENDED" => nw[u] \in Refs
                         /\ r.state[u] = "QUEUED" => nw[u] \in Queues
  BY <1>1, <1>2, <1>3
<1> HIDE DEF nw
<1>5. ASSUME kk.state[t] = "QUEUED"
      PROVE  Links(r, tr, nw)
  <2>1. ASSUME NEW x \in Refs, NEW u \in Threads
        PROVE  (tr[x] = u) <=> (r.state[u] = "SUSPENDED" /\ nw[u] = x)
    BY <1>1, <1>2, <1>3, <1>5
  <2> QED BY <1>2, <1>3, <1>4, <2>1 DEF Links
<1>6. ASSUME kk.state[t] = "SUSPENDED", NEW s \in Refs, wt[t] = s
      PROVE  Links(r, [tr EXCEPT ![s] = NoThread], nw)
  <2>1. tr[s] = t
    BY <1>2, <1>6
  <2>2. /\ [tr EXCEPT ![s] = NoThread] \in [Refs -> Threads \union {NoThread}]
        /\ [tr EXCEPT ![s] = NoThread][s] = NoThread
        /\ \A x \in Refs \ {s} : [tr EXCEPT ![s] = NoThread][x] = tr[x]
    BY <1>2
  <2>3. ASSUME NEW x \in Refs, NEW u \in Threads
        PROVE  ([tr EXCEPT ![s] = NoThread][x] = u) <=> (r.state[u] = "SUSPENDED" /\ nw[u] = x)
    <3>1. CASE x = s
      BY <1>1, <1>2, <1>3, <2>1, <2>2, <3>1, KernelAssumption
    <3>2. CASE x # s
      <4>1. CASE u = t
        BY <1>1, <1>2, <1>3, <1>6, <2>1, <2>2, <3>2, <4>1
      <4>2. CASE u # t
        BY <1>1, <1>2, <1>3, <2>2, <3>2, <4>2
      <4> QED BY <4>1, <4>2
    <3> QED BY <3>1, <3>2
  <2> QED BY <1>3, <1>4, <2>2, <2>3 DEF Links
<1> QED BY <1>5, <1>6 DEF nw

\* The running thread t suspends itself on s, or goes into the queue q.
LEMMA LinksIn ==
    ASSUME NEW kk, NEW r, NEW tr, NEW wt, Links(kk, tr, wt), NEW t \in Threads,
           kk.state[t] = "CURRENT"
    PROVE  /\ \A q \in Queues : Asleep(kk, r, t, "QUEUED") => Links(r, tr, [wt EXCEPT ![t] = q])
           /\ \A s \in Refs : (Asleep(kk, r, t, "SUSPENDED") /\ tr[s] = NoThread)
                 => Links(r, [tr EXCEPT ![s] = t], [wt EXCEPT ![t] = s])
<1>2. /\ tr \in [Refs -> Threads \union {NoThread}]
      /\ wt \in [Threads -> Refs \union Queues \union {NoObj}]
      /\ \A x \in Refs, u \in Threads :
            (tr[x] = u) <=> (kk.state[u] = "SUSPENDED" /\ wt[u] = x)
      /\ \A u \in Threads : /\ kk.state[u] = "SUSPENDED" => wt[u] \in Refs
                            /\ kk.state[u] = "QUEUED" => wt[u] \in Queues
  BY DEF Links
<1>3. ASSUME NEW ns, Asleep(kk, r, t, ns)
      PROVE  /\ r.state[t] = ns
             /\ \A u \in Threads \ {t} : /\ (r.state[u] = "SUSPENDED") <=> (kk.state[u] = "SUSPENDED")
                                         /\ (r.state[u] = "QUEUED") <=> (kk.state[u] = "QUEUED")
  BY <1>3 DEF Asleep, Others
<1>4. ASSUME NEW q \in Refs \union Queues
      PROVE  /\ [wt EXCEPT ![t] = q] \in [Threads -> Refs \union Queues \union {NoObj}]
             /\ [wt EXCEPT ![t] = q][t] = q
             /\ \A u \in Threads \ {t} : [wt EXCEPT ![t] = q][u] = wt[u]
  BY <1>2
<1>5. ASSUME NEW q \in Queues, Asleep(kk, r, t, "QUEUED")
      PROVE  Links(r, tr, [wt EXCEPT ![t] = q])
  <2>1. PICK nw : nw = [wt EXCEPT ![t] = q]
    OBVIOUS
  <2>2. /\ nw \in [Threads -> Refs \union Queues \union {NoObj}] /\ nw[t] = q
        /\ \A u \in Threads \ {t} : nw[u] = wt[u]
    BY <1>4, <2>1
  <2>3. \A u \in Threads : /\ r.state[u] = "SUSPENDED" => nw[u] \in Refs
                           /\ r.state[u] = "QUEUED" => nw[u] \in Queues
    BY <1>2, <1>3, <1>5, <2>2
  <2>4. \A x \in Refs, u \in Threads : (tr[x] = u) <=> (r.state[u] = "SUSPENDED" /\ nw[u] = x)
    BY <1>2, <1>3, <1>5, <2>2
  <2>5. Links(r, tr, nw)
    BY <1>2, <2>2, <2>3, <2>4 DEF Links
  <2> QED BY <2>1, <2>5
<1>6. ASSUME NEW s \in Refs, Asleep(kk, r, t, "SUSPENDED"), tr[s] = NoThread
      PROVE  Links(r, [tr EXCEPT ![s] = t], [wt EXCEPT ![t] = s])
  <2>1. PICK nw, nt : nw = [wt EXCEPT ![t] = s] /\ nt = [tr EXCEPT ![s] = t]
    OBVIOUS
  <2>2. /\ nw \in [Threads -> Refs \union Queues \union {NoObj}] /\ nw[t] = s
        /\ \A u \in Threads \ {t} : nw[u] = wt[u]
    BY <1>4, <2>1
  <2>3. /\ nt \in [Refs -> Threads \union {NoThread}] /\ nt[s] = t
        /\ \A x \in Refs \ {s} : nt[x] = tr[x]
    BY <1>2, <2>1
  <2>4. \A u \in Threads : /\ r.state[u] = "SUSPENDED" => nw[u] \in Refs
                           /\ r.state[u] = "QUEUED" => nw[u] \in Queues
    BY <1>2, <1>3, <1>6, <2>2
  <2>5. ASSUME NEW x \in Refs, NEW u \in Threads
        PROVE  (nt[x] = u) <=> (r.state[u] = "SUSPENDED" /\ nw[u] = x)
    <3>1. CASE u = t
      BY <1>2, <1>3, <1>6, <2>2, <2>3, <3>1
    <3>2. CASE u # t
      BY <1>2, <1>3, <1>6, <2>2, <2>3, <3>2, KernelAssumption
    <3> QED BY <3>1, <3>2
  <2>6. Links(r, nt, nw)
    BY <2>2, <2>3, <2>4, <2>5 DEF Links
  <2> QED BY <2>1, <2>6
<1> QED BY <1>5, <1>6

-----------------------------------------------------------------------------
(* The steps                                                                 *)

LEMMA Facts ==
    ASSUME IInv
    PROVE  /\ k \in KernelType /\ Sound(k, Busy(loop))
           /\ QueuesExact(k, tqueue, wtobj, Queues, "QUEUED", FALSE)
           /\ Links(k, trp, wtobj) /\ LoopOK(k, loop)
           /\ loop \in Loops \union {NoLoop}
           /\ trp \in [Refs -> Threads \union {NoThread}]
           /\ tqueue \in [Queues -> Seq(Threads)]
           /\ wtobj \in [Threads -> Refs \union Queues \union {NoObj}]
BY DEF IInv, TypeOK

\* Between two calls no core is in disorder.
LEMMA Quiet ==
    ASSUME IInv, loop = NoLoop
    PROVE  Sound(k, {})
<1>1. Busy(loop) = {}
  BY DEF Busy, NoLoop
<1> QED BY <1>1, Facts

\* What a step outside the loop has to establish.
LEMMA Pieces ==
    ASSUME Sound(k', {}), loop' = NoLoop,
           QueuesExact(k', tqueue', wtobj', Queues, "QUEUED", FALSE), Links(k', trp', wtobj')
    PROVE  IInv'
<1>1. k' \in KernelType
  BY SoundFacts
<1>2. Busy(loop') = {} /\ LoopOK(k', loop')
  BY DEF Busy, NoLoop, LoopOK
<1>3. tqueue' \in [Queues -> Seq(Threads)]
  BY DEF QueuesExact
<1>4. /\ trp' \in [Refs -> Threads \union {NoThread}]
      /\ wtobj' \in [Threads -> Refs \union Queues \union {NoObj}]
  BY DEF Links
<1> QED BY <1>1, <1>2, <1>3, <1>4 DEF IInv, TypeOK

LEMMA CallerFacts ==
    ASSUME IInv, NEW c \in Cores, Caller(c)
    PROVE  /\ loop = NoLoop /\ InThread(k, c) /\ c \notin k.isr /\ Sound(k, {})
           /\ k.current[c] \in Threads /\ k.state[k.current[c]] = "CURRENT"
<1>1. loop = NoLoop /\ InThread(k, c) /\ c \notin k.isr
  BY DEF Caller, Unlocked, InThread
<1>2. Sound(k, {})
  BY <1>1, Quiet
<1> QED BY <1>1, <1>2, SoundFacts

\* No object changes, and no thread that waits on one before or after does.
LEMMA AsideInv ==
    ASSUME IInv, loop = NoLoop, Sound(k', {}), NEW Y, Others(k, k', Y), UNCHANGED objs,
           \A t \in Threads \intersect Y : /\ k.state[t] \notin {"SUSPENDED", "QUEUED"}
                                           /\ k'.state[t] \notin {"SUSPENDED", "QUEUED"}
    PROVE  IInv'
<1>1. UNCHANGED <<trp, tqueue, wtobj, loop>>
  BY DEF objs
<1>2. QueuesExact(k, tqueue, wtobj, Queues, "QUEUED", FALSE) /\ Links(k, trp, wtobj)
  BY Facts
<1>3. \A t \in Threads \intersect Y : k.state[t] # "QUEUED" /\ k'.state[t] # "QUEUED"
  OBVIOUS
<1>4. QueuesExact(k', tqueue, wtobj, Queues, "QUEUED", FALSE)
  BY <1>2, <1>3, QueueSame
<1>5. Links(k', trp, wtobj)
  BY <1>2, LinksSame
<1> QED BY <1>1, <1>4, <1>5, Pieces

\* Steps that wake nobody and put nobody to sleep.
LEMMA StillInv ==
    ASSUME IInv, loop = NoLoop, Sound(k', {}), Still(k, k'), UNCHANGED objs
    PROVE  IInv'
<1>1. Others(k, k', {})
  BY DEF Still
<1> QED BY <1>1, AsideInv

\* A thread that waits on no object is woken.
LEMMA RousedInv ==
    ASSUME IInv, loop = NoLoop, Sound(k', {}), NEW t \in Threads, NEW m, Roused(k, k', t, m),
           k.state[t] \notin {"SUSPENDED", "QUEUED"}, UNCHANGED objs
    PROVE  IInv'
<1>1. Others(k, k', {t}) /\ k'.state[t] \notin {"SUSPENDED", "QUEUED"}
  BY DEF Roused, Woken
<1> QED BY <1>1, AsideInv

\* A suspended thread is woken and taken out of its reference.
LEMMA ReleaseInv ==
    ASSUME IInv, loop = NoLoop, Sound(k', {}), NEW s \in Refs, NEW t \in Threads, NEW m,
           Roused(k, k', t, m), k.state[t] = "SUSPENDED", wtobj[t] = s,
           trp' = [trp EXCEPT ![s] = NoThread], wtobj' = [wtobj EXCEPT ![t] = NoObj],
           UNCHANGED <<tqueue, loop>>
    PROVE  IInv'
<1>1. Woken(k, k', t) /\ Others(k, k', {t}) /\ k'.state[t] # "QUEUED" /\ k.state[t] # "QUEUED"
  BY DEF Roused, Woken
<1>2. QueuesExact(k, tqueue, wtobj, Queues, "QUEUED", FALSE) /\ Links(k, trp, wtobj)
  BY Facts
<1>3. QueuesExact(k', tqueue, [wtobj EXCEPT ![t] = NoObj], Queues, "QUEUED", FALSE)
  BY <1>1, <1>2, QueueAside
<1>4. Links(k', [trp EXCEPT ![s] = NoThread], [wtobj EXCEPT ![t] = NoObj])
  BY <1>1, <1>2, LinksOut
<1> QED BY <1>3, <1>4, Pieces

\* A queued thread is woken and taken out of its queue: the parts.
LEMMA DequeueParts ==
    ASSUME IInv, NEW q \in Queues, NEW t \in ToSet(tqueue[q]), NEW m, NEW r, Roused(k, r, t, m),
           NEW nq, QueueLess(k, tqueue[q], nq, t, FALSE)
    PROVE  /\ QueuesExact(r, [tqueue EXCEPT ![q] = nq], [wtobj EXCEPT ![t] = NoObj],
                          Queues, "QUEUED", FALSE)
           /\ Links(r, trp, [wtobj EXCEPT ![t] = NoObj])
<1>1. Woken(k, r, t)
  BY DEF Roused
<1>2. QueuesExact(k, tqueue, wtobj, Queues, "QUEUED", FALSE) /\ Links(k, trp, wtobj)
  BY Facts
<1>3. t \in Threads /\ k.state[t] = "QUEUED"
  BY <1>2 DEF QueuesExact
<1>4. QueuesExact(r, [tqueue EXCEPT ![q] = nq], [wtobj EXCEPT ![t] = NoObj],
                  Queues, "QUEUED", FALSE)
  BY <1>1, <1>2, QueueOut
<1>5. Links(r, trp, [wtobj EXCEPT ![t] = NoObj])
  BY <1>1, <1>2, <1>3, LinksOut
<1> QED BY <1>4, <1>5

\* Interrupts and expiries.
LEMMA IrqInv ==
    ASSUME IInv, NEW c \in Cores,
           Tick(c) \/ Notified(c) \/ ExitIsr(c) \/ \E t \in Threads : Expire(c, t)
    PROVE  IInv'
<1>1. loop = NoLoop /\ UNCHANGED objs
  BY DEF Notified, ExitIsr, Expire, Unlocked, Tick
<1>2. Sound(k, {})
  BY <1>1, Quiet
<1>3. CASE Tick(c)
  <2>1. k' = chSysTimerHandlerI(k, c)
    BY <1>3 DEF Tick
  <2>2. Sound(k', {})
    BY <1>2, <2>1, RunTick
  <2>3. Still(k, k')
    BY <1>2, <2>1, RunTick
  <2> QED BY <1>1, <2>2, <2>3, StillInv
<1>4. CASE Notified(c) \/ ExitIsr(c) \/ \E t \in Threads : Expire(c, t)
  <2>1. \/ k' = NotifyIrq(k, c)
        \/ \E t \in Threads : TimerDueEnabled(k, c, t) /\ k' = TimerDue(k, c, t)
        \/ IsrExitEnabled(k, c) /\ k' = IsrExit(k, c)
    BY <1>4 DEF Notified, ExitIsr, Expire
  <2>2. Sound(k', {})
    BY <1>2, <2>1, RunIrq
  <2>3. Still(k, k')
    BY <1>2, <2>1, RunIrq
  <2> QED BY <1>1, <2>2, <2>3, StillInv
<1> QED BY <1>3, <1>4

\* A thread is started, by a thread or a handler.
LEMMA StartInv ==
    ASSUME IInv, NEW c \in Cores, NEW t \in UserThreads, chThdStart(c, t) \/ chThdStartI(c, t)
    PROVE  IInv'
<1>1. /\ loop = NoLoop /\ UNCHANGED objs /\ k.state[t] = "WTSTART" /\ t \in Threads
      /\ "OK" \in Messages
  BY KernelAssumption DEF chThdStart, chThdStartI, Caller, Unlocked, UserThreads
<1>2. Sound(k, {})
  BY <1>1, Quiet
<1>3. Sound(k', {}) /\ Roused(k, k', t, "OK")
  <2>1. CASE chThdStart(c, t)
    <3>1. c \notin k.isr /\ k' = chSchWakeupS(k, c, t, "OK")
      BY <2>1 DEF chThdStart, Caller, InThread
    <3>2. Sound(k', {})
      BY <1>1, <1>2, <3>1, RunWakeup
    <3>3. Roused(k, k', t, "OK")
      BY <1>1, <1>2, <3>1, RunWakeup
    <3> QED BY <3>2, <3>3
  <2>2. CASE chThdStartI(c, t)
    <3>1. k' = ReadyWithMsg(EnterIsr(k, c), c, t, "OK")
      BY <2>2 DEF chThdStartI
    <3>2. Sound(k', {})
      BY <1>1, <1>2, <3>1, RunReadyI
    <3>3. Roused(k, k', t, "OK")
      BY <1>1, <1>2, <3>1, RunReadyI
    <3> QED BY <3>2, <3>3
  <2> QED BY <2>1, <2>2
<1> QED BY <1>1, <1>3, RousedInv

\* A thread is resumed, by a thread or a handler.
LEMMA ResumeInv ==
    ASSUME IInv, NEW c \in Cores, NEW s \in Refs, chThdResumeS(c, s) \/ chThdResumeI(c, s)
    PROVE  IInv'
<1>1. PICK t : t = trp[s]
  OBVIOUS
<1>2. /\ loop = NoLoop /\ t # NoThread /\ "OK" \in Messages
      /\ trp' = [trp EXCEPT ![s] = NoThread] /\ wtobj' = [wtobj EXCEPT ![t] = NoObj]
      /\ UNCHANGED <<tqueue, loop>>
  BY <1>1, KernelAssumption DEF chThdResumeS, chThdResumeI, Caller, Unlocked
<1>3. t \in Threads /\ k.state[t] = "SUSPENDED" /\ wtobj[t] = s
  BY <1>1, <1>2, Facts DEF Links
<1>4. Sound(k, {}) /\ k.state[t] \notin {"READY", "CURRENT"}
  BY <1>2, <1>3, Quiet
<1>5. Sound(k', {}) /\ Roused(k, k', t, "OK")
  <2>1. CASE chThdResumeS(c, s)
    <3>1. c \notin k.isr /\ k' = chSchWakeupS(k, c, t, "OK")
      BY <1>1, <2>1 DEF chThdResumeS, Caller, InThread
    <3>2. Sound(k', {})
      BY <1>2, <1>3, <1>4, <3>1, RunWakeup
    <3>3. Roused(k, k', t, "OK")
      BY <1>2, <1>3, <1>4, <3>1, RunWakeup
    <3> QED BY <3>2, <3>3
  <2>2. CASE chThdResumeI(c, s)
    <3>1. k' = ReadyWithMsg(EnterIsr(k, c), c, t, "OK")
      BY <1>1, <2>2 DEF chThdResumeI
    <3>2. Sound(k', {})
      BY <1>2, <1>3, <1>4, <3>1, RunReadyI
    <3>3. Roused(k, k', t, "OK")
      BY <1>2, <1>3, <1>4, <3>1, RunReadyI
    <3> QED BY <3>2, <3>3
  <2> QED BY <2>1, <2>2
<1> QED BY <1>2, <1>3, <1>5, ReleaseInv

\* chSchGoSleepTimeoutS() in a step of the running thread.
Sleeps(c, ns, timed) == k' = chSchGoSleepTimeoutS(k, c, ns, timed)

LEMMA SleepsRun ==
    ASSUME IInv, NEW c \in Cores, Caller(c), NEW timed \in BOOLEAN,
           NEW ns \in {"SUSPENDED", "QUEUED", "SLEEPING"}, Sleeps(c, ns, timed)
    PROVE  /\ Sound(k', {}) /\ Asleep(k, k', k.current[c], ns) /\ k'.rdymsg = k.rdymsg
<1>1. Sound(k, {}) /\ InThread(k, c) /\ {} \subseteq {c}
  BY CallerFacts
<1>2. ns \in TimedStates \ {"READY"}
  BY DEF TimedStates, States
<1>3. k' = chSchGoSleepTimeoutS(k, c, ns, timed)
  BY DEF Sleeps
<1>4. Sound(k', {})
  BY <1>1, <1>2, <1>3, RunSleep
<1>5. Rested(k, k', k.current[c], ns)
  BY <1>1, <1>2, <1>3, RunSleep
<1> QED BY <1>4, <1>5 DEF Rested

\* The running thread suspends itself.
LEMMA SuspendInv ==
    ASSUME IInv, NEW c \in Cores, NEW s \in Refs, NEW timed \in BOOLEAN,
           chThdSuspendTimeoutS(c, s, timed)
    PROVE  IInv'
<1>1. /\ Caller(c) /\ trp[s] = NoThread /\ Sleeps(c, "SUSPENDED", timed)
      /\ trp' = [trp EXCEPT ![s] = k.current[c]] /\ wtobj' = [wtobj EXCEPT ![k.current[c]] = s]
      /\ UNCHANGED <<tqueue, loop>>
  BY DEF chThdSuspendTimeoutS, Sleeps
<1>2. PICK t \in Threads : t = k.current[c] /\ k.state[t] = "CURRENT" /\ loop = NoLoop
  BY <1>1, CallerFacts
<1>3. Sound(k', {}) /\ Asleep(k, k', t, "SUSPENDED")
  BY <1>1, <1>2, SleepsRun
<1>4. QueuesExact(k, tqueue, wtobj, Queues, "QUEUED", FALSE) /\ Links(k, trp, wtobj)
  BY Facts
<1>5. Others(k, k', {t}) /\ k'.state[t] # "QUEUED" /\ k.state[t] # "QUEUED"
  BY <1>2, <1>3 DEF Asleep
<1>6. QueuesExact(k', tqueue, [wtobj EXCEPT ![t] = s], Queues, "QUEUED", FALSE)
  BY <1>4, <1>5, QueueAside
<1>7. Links(k', [trp EXCEPT ![s] = t], [wtobj EXCEPT ![t] = s])
  BY <1>1, <1>2, <1>3, <1>4, LinksIn
<1> QED BY <1>1, <1>2, <1>3, <1>6, <1>7, Pieces

\* The running thread goes into a queue.
LEMMA EnqueueInv ==
    ASSUME IInv, NEW c \in Cores, NEW q \in Queues, NEW timed \in BOOLEAN,
           chThdEnqueueTimeoutS(c, q, timed)
    PROVE  IInv'
<1>1. /\ Caller(c) /\ Sleeps(c, "QUEUED", timed)
      /\ tqueue' = [tqueue EXCEPT ![q] = ch_queue_insert(@, k.current[c])]
      /\ wtobj' = [wtobj EXCEPT ![k.current[c]] = q]
      /\ UNCHANGED <<trp, loop>>
  BY DEF chThdEnqueueTimeoutS, Sleeps
<1>2. PICK t \in Threads : t = k.current[c] /\ k.state[t] = "CURRENT" /\ loop = NoLoop
  BY <1>1, CallerFacts
<1>3. Sound(k', {}) /\ Asleep(k, k', t, "QUEUED")
  BY <1>1, <1>2, SleepsRun
<1>4. /\ QueuesExact(k, tqueue, wtobj, Queues, "QUEUED", FALSE) /\ Links(k, trp, wtobj)
      /\ k \in KernelType
  BY Facts
<1>5. PICK nq : nq = ch_queue_insert(tqueue[q], t)
  OBVIOUS
<1>6. tqueue' = [tqueue EXCEPT ![q] = nq] /\ wtobj' = [wtobj EXCEPT ![t] = q]
  BY <1>1, <1>2, <1>5
<1>7. QueueMore(k, tqueue[q], nq, t, FALSE)
  <2>1. nq = IF FALSE THEN ch_sch_prio_insert(tqueue[q], t, k.prio) ELSE ch_queue_insert(tqueue[q], t)
    BY <1>5
  <2>2. k.state[t] # "QUEUED" /\ FALSE \in BOOLEAN
    BY <1>2
  <2> QED BY <1>4, <2>1, <2>2, QueueJoin
<1>8. k.state[t] # "QUEUED"
  BY <1>2
<1>9. QueuesExact(k', [tqueue EXCEPT ![q] = nq], [wtobj EXCEPT ![t] = q], Queues, "QUEUED", FALSE)
  BY <1>3, <1>4, <1>7, <1>8, QueueIn
<1>10. Links(k', trp, [wtobj EXCEPT ![t] = q])
  BY <1>2, <1>3, <1>4, LinksIn
<1> QED BY <1>1, <1>2, <1>3, <1>6, <1>9, <1>10, Pieces

\* The running thread sleeps, or gives up its core to a peer.
LEMMA SleepYieldInv ==
    ASSUME IInv, NEW c \in Cores, chThdSleepS(c) \/ chThdYield(c)
    PROVE  IInv'
<1>1. Caller(c) /\ UNCHANGED objs
  BY DEF chThdSleepS, chThdYield
<1>2. PICK t \in Threads : t = k.current[c] /\ k.state[t] = "CURRENT"
  BY <1>1, CallerFacts
<1>3. loop = NoLoop /\ Sound(k, {}) /\ c \notin k.isr
  BY <1>1, CallerFacts
<1>4. CASE chThdSleepS(c)
  <2>1. Sleeps(c, "SLEEPING", TRUE)
    BY <1>4 DEF chThdSleepS, Sleeps
  <2>2. Sound(k', {}) /\ Asleep(k, k', t, "SLEEPING")
    BY <1>1, <1>2, <2>1, SleepsRun
  <2>3. /\ Others(k, k', {t})
        /\ k.state[t] \notin {"SUSPENDED", "QUEUED"} /\ k'.state[t] \notin {"SUSPENDED", "QUEUED"}
    BY <1>2, <2>2 DEF Asleep
  <2> QED BY <1>1, <1>3, <2>2, <2>3, AsideInv
<1>5. CASE chThdYield(c)
  <2>1. k' = chSchDoYieldS(k, c)
    BY <1>5 DEF chThdYield
  <2>2. Sound(k', {})
    BY <1>3, <2>1, RunYield
  <2>3. Still(k, k')
    BY <1>3, <2>1, RunYield
  <2> QED BY <1>1, <1>3, <2>2, <2>3, StillInv
<1> QED BY <1>4, <1>5

\* A handler wakes the first thread of a queue.
LEMMA DequeueNextInv ==
    ASSUME IInv, NEW c \in Cores, NEW q \in Queues, chThdDequeueNextI(c, q)
    PROVE  IInv'
<1>1. loop = NoLoop /\ tqueue[q] # <<>>
  BY DEF chThdDequeueNextI, Unlocked
<1>2. PICK t, nq : t = Head(tqueue[q]) /\ nq = ch_queue_fifo_remove(tqueue[q])
  OBVIOUS
<1>3. /\ tqueue' = [tqueue EXCEPT ![q] = nq] /\ wtobj' = [wtobj EXCEPT ![t] = NoObj]
      /\ UNCHANGED <<trp, loop>> /\ k' = ReadyWithMsg(EnterIsr(k, c), c, t, "RESET")
  BY <1>2 DEF chThdDequeueNextI, chThdDoDequeueNextI
<1>4. QueuesExact(k, tqueue, wtobj, Queues, "QUEUED", FALSE) /\ k \in KernelType
  BY Facts
<1>5. t \in ToSet(tqueue[q]) /\ t \in Threads /\ k.state[t] = "QUEUED"
  <2>1. tqueue[q] \in Seq(Threads) /\ NoDuplicates(tqueue[q])
    BY <1>4 DEF QueuesExact
  <2>2. t \in ToSet(tqueue[q])
    BY <1>1, <1>2, <2>1, FifoRemoveSet
  <2> QED BY <1>4, <2>2 DEF QueuesExact
<1>6. QueueLess(k, tqueue[q], nq, t, FALSE)
  BY <1>1, <1>2, <1>4, QueueHead
<1>7. Sound(k, {}) /\ k.state[t] \notin {"READY", "CURRENT"} /\ "RESET" \in Messages
  BY <1>1, <1>5, Quiet, KernelAssumption
<1>8. Sound(k', {})
  BY <1>3, <1>5, <1>7, RunReadyI
<1>9. Roused(k, k', t, "RESET")
  BY <1>3, <1>5, <1>7, RunReadyI
<1>10. QueuesExact(k', [tqueue EXCEPT ![q] = nq], [wtobj EXCEPT ![t] = NoObj], Queues, "QUEUED", FALSE)
  BY <1>5, <1>6, <1>9, DequeueParts
<1>11. Links(k', trp, [wtobj EXCEPT ![t] = NoObj])
  BY <1>5, <1>6, <1>9, DequeueParts
<1> QED BY <1>1, <1>3, <1>8, <1>10, <1>11, Pieces

\* A thread, or a handler, begins to wake all the threads of a queue.
LEMMA LoopStartInv ==
    ASSUME IInv, NEW c \in Cores, NEW q \in Queues, ThdDequeueAll(c, q) \/ chThdDequeueAllI(c, q)
    PROVE  IInv'
<1>1. loop = NoLoop /\ UNCHANGED <<trp, tqueue, wtobj>>
  BY DEF ThdDequeueAll, chThdDequeueAllI, Caller, Unlocked
<1>2. /\ QueuesExact(k, tqueue, wtobj, Queues, "QUEUED", FALSE) /\ Links(k, trp, wtobj)
      /\ TypeOK /\ Sound(k, {})
  BY <1>1, Facts, Quiet DEF IInv
<1>3. CASE ThdDequeueAll(c, q)
  <2>1. loop' = [op |-> "thread", core |-> c, queue |-> q] /\ k' = k /\ c \notin k.isr
    BY <1>3 DEF ThdDequeueAll, Caller, InThread
  <2>2. Busy(loop') = {c} /\ LoopOK(k', loop') /\ loop' \in Loops
    BY <2>1 DEF Busy, LoopOK, Loops
  <2>3. Sound(k', {c})
    BY <1>2, <2>1, SoundMore
  <2> QED BY <1>1, <1>2, <2>1, <2>2, <2>3 DEF IInv, TypeOK
<1>4. CASE chThdDequeueAllI(c, q)
  <2>1. loop' = [op |-> "handler", core |-> c, queue |-> q] /\ k' = EnterIsr(k, c)
    BY <1>4 DEF chThdDequeueAllI
  <2>2. Sound(k', {})
    BY <1>2, <2>1, RunIrq
  <2>3. Still(k, k')
    BY <1>2, <2>1, RunIrq
  <2>4. Others(k, k', {}) /\ k' \in KernelType
    BY <2>2, <2>3, SoundFacts DEF Still
  <2>5. QueuesExact(k', tqueue, wtobj, Queues, "QUEUED", FALSE)
    BY <1>2, <2>4, QueueSame
  <2>6. Links(k', trp, wtobj)
    BY <1>2, <2>4, LinksSame
  <2>7. c \in k'.isr
    BY <1>2, <2>1, SoundFacts DEF EnterIsr, KernelType
  <2>8. Busy(loop') = {} /\ LoopOK(k', loop') /\ loop' \in Loops
    BY <2>1, <2>7 DEF Busy, LoopOK, Loops
  <2> QED BY <1>1, <1>2, <2>2, <2>4, <2>5, <2>6, <2>8 DEF IInv, TypeOK
<1> QED BY <1>3, <1>4

\* An iteration of the loop.
LEMMA LoopStepInv ==
    ASSUME IInv, DequeueAllStep
    PROVE  IInv'
<1>1. PICK q \in Queues, c \in Cores : q = loop.queue /\ c = loop.core
  BY Facts DEF DequeueAllStep, Loops
<1>2. loop \in Loops /\ tqueue[q] # <<>>
  BY <1>1, Facts DEF DequeueAllStep
<1>3. PICK t, nq : t = Head(tqueue[q]) /\ nq = ch_queue_fifo_remove(tqueue[q])
  OBVIOUS
<1>4. /\ tqueue' = [tqueue EXCEPT ![q] = nq] /\ wtobj' = [wtobj EXCEPT ![t] = NoObj]
      /\ UNCHANGED <<trp, loop>> /\ k' = ReadyWithMsg(k, c, t, "RESET")
  BY <1>1, <1>3 DEF DequeueAllStep, chThdDoDequeueNextI
<1>5. QueuesExact(k, tqueue, wtobj, Queues, "QUEUED", FALSE) /\ k \in KernelType /\ LoopOK(k, loop)
  BY Facts
<1>6. t \in ToSet(tqueue[q]) /\ t \in Threads /\ k.state[t] = "QUEUED"
  <2>1. tqueue[q] \in Seq(Threads) /\ NoDuplicates(tqueue[q])
    BY <1>5 DEF QueuesExact
  <2>2. t \in ToSet(tqueue[q])
    BY <1>2, <1>3, <2>1, FifoRemoveSet
  <2> QED BY <1>5, <2>2 DEF QueuesExact
<1>7. QueueLess(k, tqueue[q], nq, t, FALSE)
  BY <1>2, <1>3, <1>5, QueueHead
<1>8. Sound(k, Busy(loop)) /\ k.state[t] \notin {"READY", "CURRENT"} /\ "RESET" \in Messages
  BY <1>6, Facts, KernelAssumption
<1>9. Sound(k', Busy(loop) \union {c})
  BY <1>4, <1>6, <1>8, RunReady
<1>10. Roused(k, k', t, "RESET")
  BY <1>4, <1>6, <1>8, RunReady
<1>11. NoSwitch(k, k')
  BY <1>4, <1>6, <1>8, RunReady
<1>12. k'.isr = k.isr
  BY <1>11 DEF NoSwitch
<1>13. LoopOK(k', loop')
  BY <1>4, <1>5, <1>12 DEF LoopOK
<1>14. QueuesExact(k', [tqueue EXCEPT ![q] = nq], [wtobj EXCEPT ![t] = NoObj], Queues, "QUEUED", FALSE)
  BY <1>6, <1>7, <1>10, DequeueParts
<1>15. Links(k', trp, [wtobj EXCEPT ![t] = NoObj])
  BY <1>6, <1>7, <1>10, DequeueParts
<1>16. Sound(k', Busy(loop'))
  <2>1. CASE loop.op = "thread"
    <3>1. Busy(loop) \union {c} = Busy(loop) /\ loop' = loop
      BY <1>1, <1>4, <2>1 DEF Busy
    <3> QED BY <1>9, <3>1
  <2>2. CASE loop.op = "handler"
    <3>1. Busy(loop) \union {c} = {c} /\ Busy(loop') = {} /\ c \in k'.isr
      BY <1>1, <1>4, <1>5, <1>12, <2>2 DEF Busy, LoopOK
    <3>2. Sound(k', {c})
      BY <1>9, <3>1
    <3>3. Sound(k', {})
      BY <3>1, <3>2, SoundIsr
    <3> QED BY <3>1, <3>3
  <2> QED BY <1>2, <2>1, <2>2 DEF Loops
<1>17. k' \in KernelType
  BY <1>9, SoundFacts
<1>18. /\ QueuesExact(k', tqueue', wtobj', Queues, "QUEUED", FALSE) /\ Links(k', trp', wtobj')
       /\ loop' \in Loops
  BY <1>2, <1>4, <1>14, <1>15
<1> QED BY <1>13, <1>16, <1>17, <1>18 DEF IInv, TypeOK, Links, QueuesExact

\* The end of the loop: the caller restores the order of its core.
LEMMA LoopEndInv ==
    ASSUME IInv, DequeueAllEnd
    PROVE  IInv'
<1>1. PICK c \in Cores : c = loop.core
  BY Facts DEF DequeueAllEnd, Loops
<1>2. /\ loop \in Loops /\ UNCHANGED <<trp, tqueue, wtobj>> /\ loop' = NoLoop
      /\ k' = IF loop.op = "thread" THEN chSchRescheduleS(k, c) ELSE k
  BY <1>1, Facts DEF DequeueAllEnd
<1>3. /\ QueuesExact(k, tqueue, wtobj, Queues, "QUEUED", FALSE) /\ LoopOK(k, loop)
      /\ Sound(k, Busy(loop)) /\ Links(k, trp, wtobj)
  BY Facts
<1>4. Sound(k', {}) /\ Still(k, k')
  <2>1. CASE loop.op = "thread"
    <3>1. Busy(loop) \subseteq {c} /\ c \notin k.isr /\ k' = chSchRescheduleS(k, c)
      BY <1>1, <1>2, <1>3, <2>1 DEF Busy, LoopOK
    <3>2. Sound(k', {})
      BY <1>3, <3>1, RunReschedule
    <3>3. Still(k, k')
      BY <1>3, <3>1, RunReschedule
    <3> QED BY <3>2, <3>3
  <2>2. CASE loop.op # "thread"
    BY <1>2, <1>3, <2>2 DEF Busy, Still, Others
  <2> QED BY <2>1, <2>2
<1>5. Others(k, k', {})
  BY <1>4 DEF Still
<1>6. QueuesExact(k', tqueue, wtobj, Queues, "QUEUED", FALSE)
  BY <1>3, <1>5, QueueSame
<1>7. Links(k', trp, wtobj)
  BY <1>3, <1>5, LinksSame
<1> QED BY <1>2, <1>4, <1>6, <1>7, Pieces

\* The timeout callback.
LEMMA TimeoutRun ==
    ASSUME IInv, NEW c \in Cores, sch_wakeup(c)
    PROVE  loop = NoLoop /\ CalledBack(k, c, k') /\ k' = Callback(k, c)
<1>1. loop = NoLoop /\ k.firing[c] # NoThread
  BY DEF sch_wakeup, Unlocked
<1>2. Sound(k, {})
  BY <1>1, Quiet
<1>3. PICK t : t = k.firing[c]
  OBVIOUS
<1>4. PICK kk : kk = [k EXCEPT !.firing[c] = NoThread]
  OBVIOUS
<1>5. k' = IF AlreadyReady(k, t) THEN kk ELSE Timeout(c, t)
  <2>1. CASE k.state[t] = "READY"
    BY <1>3, <1>4, <2>1 DEF sch_wakeup, AlreadyReady
  <2>2. CASE k.state[t] = "SUSPENDED"
    BY <1>3, <2>2 DEF sch_wakeup, AlreadyReady
  <2>3. CASE k.state[t] = "QUEUED"
    BY <1>3, <2>3 DEF sch_wakeup, AlreadyReady
  <2>4. CASE k.state[t] \notin {"READY", "SUSPENDED", "QUEUED"}
    BY <1>3, <2>4 DEF sch_wakeup, AlreadyReady
  <2> QED BY <2>1, <2>2, <2>3, <2>4
<1>6. Timeout(c, t) = sch_ready_behind([kk EXCEPT !.rdymsg[t] = "TIMEOUT"], t)
  <2>1. [k EXCEPT !.firing[c] = NoThread, !.rdymsg[t] = "TIMEOUT"] = [kk EXCEPT !.rdymsg[t] = "TIMEOUT"]
    BY <1>4, Facts DEF KernelType
  <2> QED BY <2>1 DEF Timeout
<1>7. k' = Callback(k, c)
  BY <1>3, <1>4, <1>5, <1>6 DEF Callback
<1>8. CalledBack(k, c, k')
  BY <1>1, <1>2, <1>7, RunCallback
<1> QED BY <1>1, <1>7, <1>8

LEMMA TimeoutInv ==
    ASSUME IInv, NEW c \in Cores, sch_wakeup(c)
    PROVE  IInv'
<1>1. PICK t : t = k.firing[c]
  OBVIOUS
<1>2. loop = NoLoop /\ CalledBack(k, c, k')
  BY TimeoutRun
<1>3. t \in Threads /\ Sound(k', {})
  BY <1>1, <1>2 DEF CalledBack
<1>4. QueuesExact(k, tqueue, wtobj, Queues, "QUEUED", FALSE) /\ Links(k, trp, wtobj) /\ k \in KernelType
  BY Facts
<1>5. CASE AlreadyReady(k, t)
  <2>1. Still(k, k')
    BY <1>1, <1>2, <1>5 DEF CalledBack
  <2>2. UNCHANGED objs
    BY <1>1, <1>5 DEF sch_wakeup, AlreadyReady
  <2> QED BY <1>2, <1>3, <2>1, <2>2, StillInv
<1>6. CASE ~ AlreadyReady(k, t)
  <2>1. Roused(k, k', t, "TIMEOUT")
    BY <1>1, <1>2, <1>6 DEF CalledBack
  <2>2. CASE k.state[t] = "SUSPENDED"
    <3>1. PICK s \in Refs : s = wtobj[t]
      BY <1>3, <1>4, <2>2 DEF Links
    <3>2. /\ trp' = [trp EXCEPT ![s] = NoThread] /\ wtobj' = [wtobj EXCEPT ![t] = NoObj]
          /\ UNCHANGED <<tqueue, loop>>
      BY <1>1, <1>6, <2>2, <3>1 DEF sch_wakeup
    <3> QED BY <1>2, <1>3, <2>1, <2>2, <3>1, <3>2, ReleaseInv
  <2>3. CASE k.state[t] = "QUEUED"
    <3>1. PICK q \in Queues : q = wtobj[t]
      BY <1>3, <1>4, <2>3 DEF Links
    <3>2. PICK nq : nq = ch_queue_dequeue(tqueue[q], t)
      OBVIOUS
    <3>3. /\ tqueue' = [tqueue EXCEPT ![q] = nq] /\ wtobj' = [wtobj EXCEPT ![t] = NoObj]
          /\ UNCHANGED <<trp, loop>>
      BY <1>1, <1>6, <2>3, <3>1, <3>2 DEF sch_wakeup
    <3>4. t \in ToSet(tqueue[q])
      BY <1>3, <1>4, <2>3, <3>1 DEF QueuesExact
    <3>5. QueueLess(k, tqueue[q], nq, t, FALSE)
      BY <1>4, <3>2, <3>4, QueueMember
    <3>6. QueuesExact(k', [tqueue EXCEPT ![q] = nq], [wtobj EXCEPT ![t] = NoObj], Queues, "QUEUED", FALSE)
      BY <2>1, <3>4, <3>5, DequeueParts
    <3>7. Links(k', trp, [wtobj EXCEPT ![t] = NoObj])
      BY <2>1, <3>4, <3>5, DequeueParts
    <3> QED BY <1>2, <1>3, <3>3, <3>6, <3>7, Pieces
  <2>4. CASE k.state[t] \notin {"SUSPENDED", "QUEUED"}
    <3>1. UNCHANGED objs
      BY <1>1, <1>6, <2>4 DEF sch_wakeup
    <3> QED BY <1>2, <1>3, <2>1, <2>4, <3>1, RousedInv
  <2> QED BY <2>2, <2>3, <2>4
<1> QED BY <1>5, <1>6

-----------------------------------------------------------------------------
(* The theorems                                                              *)

\* Every state of every instance satisfies the inductive invariant: the
\* suspends, resumes, sleeps, queue operations, yields, ticks and timeouts of
\* chthreads.c, in threads and handlers of any number of cores.
THEOREM Inductive == Spec => []IInv
<1>1. Init => IInv
  <2> SUFFICES ASSUME Init PROVE IInv
    OBVIOUS
  <2>1. /\ k = KernelInit(Prio) /\ trp = [r \in Refs |-> NoThread]
        /\ tqueue = [q \in Queues |-> <<>>] /\ wtobj = [t \in Threads |-> NoObj]
        /\ loop = NoLoop
    BY DEF Init
  <2>2. Sound(k, {})
    <3>1. Prio \in [Threads -> Prios]
      BY ThreadsAssumption
    <3> QED BY <2>1, <3>1, RunInit
  <2>3. k \in KernelType /\ k.state = [t \in Threads |-> IF t \in UserThreads THEN "WTSTART" ELSE "CURRENT"]
    BY <2>1, <2>2, SoundFacts DEF KernelInit
  <2>4. Links(k, trp, wtobj)
    BY <2>1, <2>3, KernelAssumption DEF Links
  <2>5. QueuesExact(k, tqueue, wtobj, Queues, "QUEUED", FALSE)
    <3>1. <<>> \in Seq(Threads) /\ NoDuplicates(<<>>) /\ ToSet(<<>>) = {}
      BY DEF NoDuplicates, SortedByPrio, IsSorted, ToSet
    <3>2. \A t \in Threads : k.state[t] # "QUEUED"
      BY <2>3
    <3> QED BY <2>1, <3>1, <3>2 DEF QueuesExact
  <2>6. Busy(loop) = {} /\ LoopOK(k, loop)
    BY <2>1 DEF Busy, LoopOK, NoLoop
  <2> QED BY <2>1, <2>2, <2>3, <2>4, <2>5, <2>6 DEF IInv, TypeOK, Links, QueuesExact
<1>2. IInv /\ [Next]_vars => IInv'
  <2> SUFFICES ASSUME IInv, [Next]_vars PROVE IInv'
    OBVIOUS
  <2>1. ASSUME NEW c \in Cores, ThreadStep(c) PROVE IInv'
    BY <2>1, StartInv, SuspendInv, ResumeInv, SleepYieldInv, EnqueueInv, LoopStartInv DEF ThreadStep
  <2>2. ASSUME NEW c \in Cores, IsrCall(c) PROVE IInv'
    BY <2>2, StartInv, ResumeInv, DequeueNextInv, LoopStartInv DEF IsrCall
  <2>3. ASSUME NEW c \in Cores, KernelIrq(c) PROVE IInv'
    BY <2>3, IrqInv, TimeoutInv DEF KernelIrq
  <2>4. CASE UNCHANGED vars
    BY <2>4 DEF vars, IInv, TypeOK
  <2> QED BY <2>1, <2>2, <2>3, <2>4, LoopStepInv, LoopEndInv DEF Next
<1> QED BY <1>1, <1>2, PTL DEF Spec

\* The ready list of every core is exact and in priority order, and every
\* core runs one thread of its own: chSchReadyI(), chSchWakeupS(),
\* chSchGoSleepTimeoutS() and chSchDoPreemption() keep it so.
THEOREM ReadyLists == Spec => []ReadyListOK
<1>1. IInv => ReadyListOK
  BY Facts, SoundImplies DEF ReadyListOK
<1> QED BY <1>1, Inductive, PTL

\* The assertion of chSysUnlock(): out of the lock, the handlers and a
\* pending reschedule order, a core runs a most important ready thread.
THEOREM HighestRuns == Spec => []HighestPriorityRuns
<1>1. IInv => HighestPriorityRuns
  <2> SUFFICES ASSUME IInv, Unlocked PROVE \A c \in Cores \ (k.isr \union k.notified) : PriorityOrder(k, c)
    BY DEF HighestPriorityRuns
  <2>1. Sound(k, {})
    BY Quiet DEF Unlocked
  <2>2. \A c \in Cores \ (k.isr \union k.notified \union {}) : PriorityOrder(k, c)
    BY <2>1, SoundImplies
  <2> QED BY <2>2
<1> QED BY <1>1, Inductive, PTL

\* No reference and no queue keeps a thread that has been resumed, dequeued
\* or timed out, and none loses one that waits.
THEOREM Linked == Spec => []WaitersLinked
<1>1. IInv => WaitersLinked
  BY Facts, ThreadsAssumption DEF WaitersLinked, Links, QueuesExact
<1> QED BY <1>1, Inductive, PTL

\* The timer in the stack frame of chSchGoSleepTimeoutS() is neither armed
\* nor firing when its thread runs.
THEOREM FrameAlive == Spec => []TimerFrameAlive
<1>1. IInv => TimerFrameAlive
  <2> SUFFICES ASSUME IInv, NEW t \in Threads, k.state[t] = "CURRENT"
               PROVE  t \notin k.armed /\ \A c \in Cores : k.firing[c] # t
    BY DEF TimerFrameAlive
  <2>1. \A u \in Pending(k) : k.state[u] \in TimedStates
    BY Facts, SoundFacts
  <2>2. t \notin Pending(k)
    BY <2>1 DEF TimedStates
  <2> QED BY <2>2 DEF Pending
<1> QED BY <1>1, Inductive, PTL

-----------------------------------------------------------------------------
(* The message a thread is woken with                                        *)

\* No message of a ready thread changes.
Kept == \A t \in Threads : k.state[t] = "READY" => k'.rdymsg[t] = k.rdymsg[t]

LEMMA KeptIf ==
    ASSUME IInv,
           \/ Still(k, k')
           \/ k'.rdymsg = k.rdymsg
           \/ \E m : \E t \in Threads : Roused(k, k', t, m) /\ k.state[t] # "READY"
    PROVE  Kept
<1>1. k.rdymsg \in [Threads -> Messages]
  BY Facts, SoundFacts
<1>2. ASSUME NEW t \in Threads, NEW m, Roused(k, k', t, m), k.state[t] # "READY"
      PROVE  Kept
  BY <1>1, <1>2 DEF Kept, Roused
<1> QED BY <1>2 DEF Kept, Still

LEMMA KernelIrqKept ==
    ASSUME IInv, NEW c \in Cores, KernelIrq(c)
    PROVE  Kept
<1>1. loop = NoLoop
  BY DEF KernelIrq, Notified, ExitIsr, Expire, Unlocked, Tick, sch_wakeup
<1>2. Sound(k, {})
  BY <1>1, Quiet
<1>3. CASE Tick(c)
  <2>1. k' = chSysTimerHandlerI(k, c)
    BY <1>3 DEF Tick
  <2>2. Still(k, k')
    BY <1>2, <2>1, RunTick
  <2> QED BY <2>2, KeptIf
<1>4. CASE Notified(c) \/ ExitIsr(c) \/ \E t \in Threads : Expire(c, t)
  <2>1. \/ k' = NotifyIrq(k, c)
        \/ \E t \in Threads : TimerDueEnabled(k, c, t) /\ k' = TimerDue(k, c, t)
        \/ IsrExitEnabled(k, c) /\ k' = IsrExit(k, c)
    BY <1>4 DEF Notified, ExitIsr, Expire
  <2>2. Still(k, k')
    BY <1>2, <2>1, RunIrq
  <2> QED BY <2>2, KeptIf
<1>5. CASE sch_wakeup(c)
  <2>1. CalledBack(k, c, k')
    BY <1>5, TimeoutRun
  <2>2. PICK t : t = k.firing[c]
    OBVIOUS
  <2>3. t \in Threads /\ IF AlreadyReady(k, t) THEN Still(k, k') ELSE Roused(k, k', t, "TIMEOUT")
    BY <2>1, <2>2 DEF CalledBack
  <2> QED BY <2>3, KeptIf DEF AlreadyReady
<1> QED BY <1>3, <1>4, <1>5 DEF KernelIrq

\* Wakes that are not timeouts: whom they wake was waiting.
LEMMA WakeKept ==
    ASSUME IInv, NEW c \in Cores, NEW t \in Threads, NEW m \in Messages, loop = NoLoop,
           k.state[t] \notin {"READY", "CURRENT"},
           \/ k' = ReadyWithMsg(EnterIsr(k, c), c, t, m)
           \/ c \notin k.isr /\ k' = chSchWakeupS(k, c, t, m)
    PROVE  Kept
<1>1. Sound(k, {})
  BY Quiet
<1>2. CASE k' = ReadyWithMsg(EnterIsr(k, c), c, t, m)
  <2>1. Roused(k, k', t, m)
    BY <1>1, <1>2, RunReadyI
  <2> QED BY <2>1, KeptIf
<1>3. CASE c \notin k.isr /\ k' = chSchWakeupS(k, c, t, m)
  <2>1. Roused(k, k', t, m)
    BY <1>1, <1>3, RunWakeup
  <2> QED BY <2>1, KeptIf
<1> QED BY <1>2, <1>3

LEMMA NextKept ==
    ASSUME IInv, Next
    PROVE  Kept
<1>m. "OK" \in Messages /\ "RESET" \in Messages
  BY KernelAssumption
<1>q. ASSUME NEW q \in Queues, tqueue[q] # <<>>
      PROVE  Head(tqueue[q]) \in Threads /\ k.state[Head(tqueue[q])] = "QUEUED"
  <2>1. /\ tqueue[q] \in Seq(Threads) /\ NoDuplicates(tqueue[q])
        /\ ToSet(tqueue[q]) = {t \in Threads : k.state[t] = "QUEUED" /\ wtobj[t] = q}
    BY <1>q, Facts DEF QueuesExact
  <2>2. Head(tqueue[q]) \in ToSet(tqueue[q])
    BY <1>q, <2>1, FifoRemoveSet
  <2> QED BY <2>1, <2>2
<1>1. ASSUME NEW c \in Cores, NEW t \in UserThreads, chThdStart(c, t) \/ chThdStartI(c, t)
      PROVE  Kept
  <2>1. /\ loop = NoLoop /\ t \in Threads /\ k.state[t] \notin {"READY", "CURRENT"}
        /\ \/ k' = ReadyWithMsg(EnterIsr(k, c), c, t, "OK")
           \/ c \notin k.isr /\ k' = chSchWakeupS(k, c, t, "OK")
    BY <1>1 DEF chThdStart, chThdStartI, Caller, Unlocked, InThread, UserThreads
  <2> QED BY <1>m, <2>1, WakeKept
<1>2. ASSUME NEW c \in Cores, NEW s \in Refs, chThdResumeS(c, s) \/ chThdResumeI(c, s)
      PROVE  Kept
  <2>1. PICK t : t = trp[s]
    OBVIOUS
  <2>2. /\ loop = NoLoop /\ t # NoThread
        /\ \/ k' = ReadyWithMsg(EnterIsr(k, c), c, t, "OK")
           \/ c \notin k.isr /\ k' = chSchWakeupS(k, c, t, "OK")
    BY <1>2, <2>1 DEF chThdResumeS, chThdResumeI, Caller, Unlocked, InThread
  <2>3. t \in Threads /\ k.state[t] \notin {"READY", "CURRENT"}
    BY <2>1, <2>2, Facts DEF Links
  <2> QED BY <1>m, <2>2, <2>3, WakeKept
<1>3. ASSUME NEW c \in Cores, NEW q \in Queues, chThdDequeueNextI(c, q)
      PROVE  Kept
  <2>1. PICK t : t = Head(tqueue[q])
    OBVIOUS
  <2>2. loop = NoLoop /\ tqueue[q] # <<>> /\ k' = ReadyWithMsg(EnterIsr(k, c), c, t, "RESET")
    BY <1>3, <2>1 DEF chThdDequeueNextI, chThdDoDequeueNextI, Unlocked
  <2>3. t \in Threads /\ k.state[t] \notin {"READY", "CURRENT"}
    BY <1>q, <2>1, <2>2
  <2> QED BY <1>m, <2>2, <2>3, WakeKept
<1>4. ASSUME NEW c \in Cores, NEW q \in Queues, ThdDequeueAll(c, q) \/ chThdDequeueAllI(c, q)
      PROVE  Kept
  <2>1. k' = k \/ k' = EnterIsr(k, c)
    BY <1>4 DEF ThdDequeueAll, chThdDequeueAllI
  <2>2. k'.rdymsg = k.rdymsg
    BY <2>1, Facts DEF EnterIsr, KernelType
  <2> QED BY <2>2, KeptIf
<1>5. ASSUME NEW c \in Cores, Caller(c), NEW timed \in BOOLEAN,
             NEW ns \in {"SUSPENDED", "QUEUED", "SLEEPING"}, Sleeps(c, ns, timed)
      PROVE  Kept
  <2>1. k'.rdymsg = k.rdymsg
    BY <1>5, SleepsRun
  <2> QED BY <2>1, KeptIf
<1>6. ASSUME NEW c \in Cores, chThdYield(c)
      PROVE  Kept
  <2>1. k' = chSchDoYieldS(k, c) /\ Caller(c)
    BY <1>6 DEF chThdYield
  <2>2. Sound(k, {}) /\ c \notin k.isr
    BY <2>1, CallerFacts
  <2>3. Still(k, k')
    BY <2>1, <2>2, RunYield
  <2> QED BY <2>3, KeptIf
<1>7. ASSUME NEW c \in Cores, ThreadStep(c)
      PROVE  Kept
  <2>1. ASSUME NEW s \in Refs, NEW timed \in BOOLEAN, chThdSuspendTimeoutS(c, s, timed)
        PROVE  Kept
    BY <1>5, <2>1 DEF chThdSuspendTimeoutS, Sleeps
  <2>2. ASSUME NEW q \in Queues, NEW timed \in BOOLEAN, chThdEnqueueTimeoutS(c, q, timed)
        PROVE  Kept
    BY <1>5, <2>2 DEF chThdEnqueueTimeoutS, Sleeps
  <2>3. CASE chThdSleepS(c)
    BY <1>5, <2>3 DEF chThdSleepS, Sleeps
  <2> QED BY <1>1, <1>2, <1>4, <1>6, <1>7, <2>1, <2>2, <2>3 DEF ThreadStep
<1>8. ASSUME NEW c \in Cores, IsrCall(c)
      PROVE  Kept
  BY <1>1, <1>2, <1>3, <1>4, <1>8 DEF IsrCall
<1>9. CASE DequeueAllStep
  <2>a. PICK q \in Queues, c \in Cores : q = loop.queue /\ c = loop.core
    BY <1>9, Facts DEF DequeueAllStep, Loops
  <2>b. PICK t : t = Head(tqueue[q])
    OBVIOUS
  <2>1. q = loop.queue /\ c = loop.core /\ t = Head(tqueue[q])
    BY <2>a, <2>b
  <2>2. tqueue[q] # <<>> /\ k' = ReadyWithMsg(k, c, t, "RESET")
    BY <1>9, <2>1 DEF DequeueAllStep, chThdDoDequeueNextI
  <2>3. t \in Threads /\ k.state[t] \notin {"READY", "CURRENT"}
    BY <1>q, <2>1, <2>2
  <2>4. Sound(k, Busy(loop))
    BY Facts
  <2>5. Roused(k, k', t, "RESET")
    BY <1>m, <2>2, <2>3, <2>4, RunReady
  <2> QED BY <2>3, <2>5, KeptIf
<1>10. CASE DequeueAllEnd
  <2>1. PICK c \in Cores : c = loop.core
    BY <1>10, Facts DEF DequeueAllEnd, Loops
  <2>2. CASE loop.op = "thread"
    <3>1. Sound(k, Busy(loop)) /\ LoopOK(k, loop)
      BY Facts
    <3>2. Busy(loop) \subseteq {c} /\ c \notin k.isr /\ k' = chSchRescheduleS(k, c)
      BY <1>10, <2>1, <2>2, <3>1 DEF Busy, LoopOK, DequeueAllEnd
    <3>3. Still(k, k')
      BY <3>1, <3>2, RunReschedule
    <3> QED BY <3>3, KeptIf
  <2>3. CASE loop.op # "thread"
    BY <1>10, <2>3, KeptIf DEF DequeueAllEnd
  <2> QED BY <2>2, <2>3
<1> QED BY <1>7, <1>8, <1>9, <1>10, KernelIrqKept DEF Next

\* A thread that was made ready keeps the message it was woken with until it
\* runs: a timeout whose callback comes too late is not reported, the early
\* return of __sch_wakeup().
THEOREM MessageStable == Spec => WakeMessageStable
<1>1. IInv /\ [Next]_vars => [\A t \in Threads :
         (k.state[t] = "READY" /\ k'.state[t] = "READY") => k'.rdymsg[t] = k.rdymsg[t]]_vars
  BY NextKept DEF Kept
<1> QED BY <1>1, Inductive, PTL DEF Spec, WakeMessageStable

-----------------------------------------------------------------------------
(* Round robin: the turn of a preempted thread                               *)

\* The threads that have used part of their time quantum.
Partial(kk) == {t \in Threads : kk.ticks[t] < Quantum}

\* The pairs of threads that a ready list may hold in this order.
Turn(prio, P) == {x \in Threads \X Threads : ~ (x[2] \in P /\ prio[x[1]] = prio[x[2]])}

\* The members of P come before their peers in q.
First(q, prio, P) == \A j, h \in 1 .. Len(q) : j < h => <<q[j], q[h]>> \in Turn(prio, P)

\* A thread with a partial quantum runs, or was preempted: it is the first
\* of its level, and less important than the thread that runs instead.
Turns(kk) ==
    /\ \A c \in Cores : First(kk.ready[c], kk.prio, Partial(kk))
    /\ \A t \in Partial(kk) :
          /\ kk.state[t] \in {"READY", "CURRENT"}
          /\ kk.state[t] = "READY" => kk.prio[t] < kk.prio[kk.current[Owner[t]]]

LEMMA FirstBehind ==
    ASSUME NEW q \in Seq(Threads), NEW e \in Threads, NEW prio \in [Threads -> Nat], NEW P,
           SortedByPrio(q, prio), First(q, prio, P), e \notin P,
           NEW r, r = ch_pqueue_insert_behind(q, e, prio)
    PROVE  First(r, prio, P)
<1>1. PICK i \in 1 .. Len(q) + 1 :
          /\ r = InsertAt(q, i, e)
          /\ \A j \in 1 .. i - 1 : prio[q[j]] >= prio[e]
          /\ i <= Len(q) => prio[q[i]] < prio[e]
  BY InsertBehindPlace
<1>2. \A j \in 1 .. Len(q) : q[j] \in Threads
  OBVIOUS
<1>3. \A j \in 1 .. i - 1 : <<q[j], e>> \in Turn(prio, P)
  BY <1>2 DEF Turn
<1>4. ASSUME NEW j \in i .. Len(q)
      PROVE  <<e, q[j]>> \in Turn(prio, P)
  <2>1. j \in 1 .. Len(q) /\ i \in 1 .. Len(q) /\ i <= j
    BY <1>4, LenProperties
  <2>2. prio[q[j]] < prio[e]
    <3>1. CASE i = j
      BY <1>1, <2>1, <3>1
    <3>2. CASE i < j
      <4>1. prio[q[i]] >= prio[q[j]]
        BY <2>1, <3>2 DEF SortedByPrio, IsSorted
      <4>2. prio[q[i]] < prio[e] /\ prio[q[i]] \in Nat /\ prio[q[j]] \in Nat /\ prio[e] \in Nat
        BY <1>1, <1>2, <2>1
      <4> QED BY <4>1, <4>2
    <3> QED BY <2>1, <3>1, <3>2
  <2>3. prio[q[j]] # prio[e] /\ q[j] \in Threads
    <3>1. q[j] \in Threads /\ prio[q[j]] \in Nat /\ prio[e] \in Nat
      BY <1>2, <2>1
    <3> QED BY <2>2, <3>1
  <2> QED BY <2>3 DEF Turn
<1>5. \A j, h \in 1 .. Len(q) : j < h => <<q[j], q[h]>> \in Turn(prio, P)
  BY DEF First
<1>6. \A j, h \in 1 .. Len(InsertAt(q, i, e)) :
         j < h => <<InsertAt(q, i, e)[j], InsertAt(q, i, e)[h]>> \in Turn(prio, P)
  BY <1>3, <1>4, <1>5, InsertAtPairs
<1> QED BY <1>1, <1>6 DEF First

LEMMA FirstAhead ==
    ASSUME NEW q \in Seq(Threads), NEW e \in Threads, NEW prio \in [Threads -> Nat], NEW P,
           First(q, prio, P), \A u \in ToSet(q) : u \in P => prio[u] # prio[e],
           NEW r, r = ch_pqueue_insert_ahead(q, e, prio)
    PROVE  First(r, prio, P)
<1>1. PICK i \in 1 .. Len(q) + 1 :
          /\ r = InsertAt(q, i, e)
          /\ \A j \in 1 .. i - 1 : prio[q[j]] > prio[e]
          /\ i <= Len(q) => prio[q[i]] <= prio[e]
  BY InsertAheadPlace
<1>2. \A j \in 1 .. Len(q) : q[j] \in Threads /\ q[j] \in ToSet(q)
  BY DEF ToSet
<1>3. ASSUME NEW j \in 1 .. i - 1
      PROVE  <<q[j], e>> \in Turn(prio, P)
  <2>1. j \in 1 .. Len(q)
    BY LenProperties
  <2>2. prio[q[j]] > prio[e] /\ q[j] \in Threads
    BY <1>1, <1>2, <2>1
  <2>3. prio[q[j]] # prio[e]
    <3>1. prio[q[j]] \in Nat /\ prio[e] \in Nat
      BY <2>2
    <3> QED BY <2>2, <3>1
  <2> QED BY <2>2, <2>3 DEF Turn
<1>4. ASSUME NEW j \in i .. Len(q)
      PROVE  <<e, q[j]>> \in Turn(prio, P)
  <2>1. j \in 1 .. Len(q)
    BY <1>4, LenProperties
  <2> QED BY <1>2, <2>1 DEF Turn
<1>5. \A j, h \in 1 .. Len(q) : j < h => <<q[j], q[h]>> \in Turn(prio, P)
  BY DEF First
<1>6. \A j, h \in 1 .. Len(InsertAt(q, i, e)) :
         j < h => <<InsertAt(q, i, e)[j], InsertAt(q, i, e)[h]>> \in Turn(prio, P)
  BY <1>3, <1>4, <1>5, InsertAtPairs
<1> QED BY <1>1, <1>6 DEF First

LEMMA FirstTail ==
    ASSUME NEW q \in Seq(Threads), q # <<>>, NEW prio, NEW P, First(q, prio, P)
    PROVE  /\ First(Tail(q), prio, P)
           /\ \A u \in ToSet(Tail(q)) : u \in P => prio[u] # prio[Head(q)]
<1>1. /\ Len(Tail(q)) = Len(q) - 1 /\ Len(q) \in Nat /\ Tail(q) \in Seq(Threads)
      /\ \A j \in 1 .. Len(q) - 1 : Tail(q)[j] = q[j + 1]
      /\ Head(q) = q[1]
  BY EmptySeq, HeadTailProperties
<1>2. First(Tail(q), prio, P)
  BY <1>1 DEF First
<1>3. ASSUME NEW u \in ToSet(Tail(q)), u \in P
      PROVE  prio[u] # prio[Head(q)]
  <2>1. PICK j \in 1 .. Len(q) - 1 : u = q[j + 1]
    BY <1>1, <1>3 DEF ToSet
  <2>2. <<q[1], q[j + 1]>> \in Turn(prio, P)
    BY <1>1, <2>1 DEF First
  <2> QED BY <1>1, <1>3, <2>1, <2>2 DEF Turn
<1> QED BY <1>2, <1>3

LEMMA FirstLess ==
    ASSUME NEW q \in Seq(Threads), NEW prio, NEW P, First(q, prio, P), NEW Q,
           \A u \in ToSet(q) : u \in Q => u \in P
    PROVE  First(q, prio, Q)
<1>1. \A j \in 1 .. Len(q) : q[j] \in ToSet(q)
  BY DEF ToSet
<1> QED BY <1>1 DEF First, Turn

\* A change of nothing that the turns depend on.
SameLists(kk, r) ==
    /\ r.ready = kk.ready /\ r.state = kk.state /\ r.current = kk.current
    /\ r.prio = kk.prio /\ r.ticks = kk.ticks

LEMMA SameTurns ==
    ASSUME NEW kk, NEW r, SameLists(kk, r), Turns(kk)
    PROVE  Turns(r)
<1>1. Partial(r) = Partial(kk)
  BY DEF Partial, SameLists
<1> QED BY <1>1 DEF Turns, SameLists

\* What the kernel invariant says of the list of a core.
LEMMA ListFacts ==
    ASSUME NEW kk, KInv(kk)
    PROVE  /\ kk \in KernelType /\ kk.prio \in [Threads -> Nat] /\ kk.ticks \in [Threads -> 0 .. Quantum]
           /\ kk.state \in [Threads -> States] /\ kk.current \in [Cores -> Threads]
           /\ kk.ready \in [Cores -> Seq(Threads)]
           /\ \A c \in Cores :
                 /\ SortedByPrio(kk.ready[c], kk.prio) /\ NoDuplicates(kk.ready[c])
                 /\ ToSet(kk.ready[c]) = {t \in Threads : kk.state[t] = "READY" /\ Owner[t] = c}
                 /\ Owner[kk.current[c]] = c /\ kk.state[kk.current[c]] = "CURRENT"
BY DEF KInv, KInvX, KernelType, Prios

\* A thread with a full quantum becomes ready, behind its peers.
Joined(kk, r, t) ==
    /\ r.ready = [kk.ready EXCEPT ![Owner[t]] = ch_pqueue_insert_behind(@, t, kk.prio)]
    /\ r.state = [kk.state EXCEPT ![t] = "READY"]
    /\ r.current = kk.current /\ r.prio = kk.prio /\ r.ticks = kk.ticks

LEMMA JoinedTurns ==
    ASSUME NEW kk, KInv(kk), Turns(kk), NEW t \in Threads, t \notin Partial(kk),
           NEW r, Joined(kk, r, t)
    PROVE  Turns(r)
<1>1. Partial(r) = Partial(kk)
  BY DEF Partial, Joined
<1>2. ASSUME NEW c \in Cores
      PROVE  First(r.ready[c], r.prio, Partial(r))
  <2>1. /\ kk.ready[c] \in Seq(Threads) /\ kk.prio \in [Threads -> Nat]
        /\ SortedByPrio(kk.ready[c], kk.prio) /\ First(kk.ready[c], kk.prio, Partial(kk))
    BY ListFacts DEF Turns
  <2>2. CASE Owner[t] = c
    <3>1. r.ready[c] = ch_pqueue_insert_behind(kk.ready[c], t, kk.prio)
      BY <2>2, ListFacts DEF Joined
    <3>2. First(r.ready[c], kk.prio, Partial(kk))
      BY <2>1, <3>1, FirstBehind
    <3> QED BY <1>1, <3>2 DEF Joined
  <2>3. CASE Owner[t] # c
    <3>1. r.ready[c] = kk.ready[c] /\ r.prio = kk.prio
      BY <2>3, ListFacts DEF Joined
    <3> QED BY <1>1, <2>1, <3>1
  <2> QED BY <2>2, <2>3
<1>3. ASSUME NEW u \in Partial(r)
      PROVE  /\ r.state[u] \in {"READY", "CURRENT"}
             /\ r.state[u] = "READY" => r.prio[u] < r.prio[r.current[Owner[u]]]
  <2>1. u # t /\ u \in Partial(kk) /\ u \in Threads
    BY <1>1 DEF Partial
  <2>2. r.state[u] = kk.state[u]
    BY <2>1, ListFacts DEF Joined
  <2> QED BY <2>1, <2>2 DEF Turns, Joined
<1> QED BY <1>2, <1>3 DEF Turns

\* The running thread of c leaves it to the first ready thread h; the list
\* of c is then q.
Handed(kk, r, c, h, q) ==
    LET otp == kk.current[c]
    IN  /\ kk.ready[c] # <<>> /\ h = Head(kk.ready[c])
        /\ r.ready[c] = q /\ \A d \in Cores \ {c} : r.ready[d] = kk.ready[d]
        /\ r.current[c] = h /\ \A d \in Cores \ {c} : r.current[d] = kk.current[d]
        /\ r.state[h] = "CURRENT" /\ \A u \in Threads \ {h, otp} : r.state[u] = kk.state[u]
        /\ r.prio = kk.prio /\ \A u \in Threads \ {otp} : r.ticks[u] = kk.ticks[u]

LEMMA HandedTurns ==
    ASSUME NEW kk, KInv(kk), Turns(kk), NEW c \in Cores, NEW h, NEW q, NEW r, Handed(kk, r, c, h, q),
           First(q, kk.prio, Partial(r)),
           \/ r.ticks[kk.current[c]] = Quantum
           \/ r.state[kk.current[c]] = "READY" /\ kk.prio[kk.current[c]] < kk.prio[h]
    PROVE  Turns(r)
<1>1. PICK otp \in Threads : otp = kk.current[c] /\ Owner[otp] = c /\ kk.state[otp] = "CURRENT"
  BY ListFacts
<1>2. /\ h \in Threads /\ kk.state[h] = "READY" /\ Owner[h] = c /\ h # otp
      /\ \A t \in Threads : (kk.state[t] = "READY" /\ Owner[t] = c) => kk.prio[t] <= kk.prio[h]
  <2>1. KInvX(kk, {}) /\ kk.ready[c] # <<>> /\ h = Head(kk.ready[c])
    BY DEF KInv, Handed
  <2>2. h \in Threads /\ kk.state[h] = "READY" /\ Owner[h] = c
    BY <2>1, FirstIsMax
  <2>3. \A t \in Threads \ {} : (kk.state[t] = "READY" /\ Owner[t] = c) => kk.prio[t] <= kk.prio[h]
    BY <2>1, FirstIsMax
  <2> QED BY <1>1, <2>2, <2>3
<1>3. \A u \in Partial(r) : u \in Threads /\ (u # otp => u \in Partial(kk))
  BY <1>1 DEF Handed, Partial
<1>4. ASSUME NEW d \in Cores
      PROVE  First(r.ready[d], r.prio, Partial(r))
  <2>1. CASE d = c
    BY <2>1 DEF Handed
  <2>2. CASE d # c
    <3>1. /\ r.ready[d] = kk.ready[d] /\ r.prio = kk.prio /\ kk.ready[d] \in Seq(Threads)
          /\ First(kk.ready[d], kk.prio, Partial(kk))
      BY <2>2, ListFacts DEF Handed, Turns
    <3>2. otp \notin ToSet(kk.ready[d])
      BY <1>1, <2>2, ListFacts
    <3>3. \A u \in ToSet(kk.ready[d]) : u \in Partial(r) => u \in Partial(kk)
      BY <1>3, <3>2
    <3>4. First(kk.ready[d], kk.prio, Partial(r))
      BY <3>1, <3>3, FirstLess
    <3> QED BY <3>1, <3>4
  <2> QED BY <2>1, <2>2
<1>5. ASSUME NEW t \in Threads, t \in Partial(kk), kk.state[t] = "READY", Owner[t] = c, t # h
      PROVE  kk.prio[t] < kk.prio[h]
  <2>1. /\ kk.ready[c] \in Seq(Threads) /\ kk.ready[c] # <<>> /\ h = Head(kk.ready[c])
        /\ First(kk.ready[c], kk.prio, Partial(kk)) /\ NoDuplicates(kk.ready[c])
    BY ListFacts DEF Turns, Handed
  <2>2. t \in ToSet(kk.ready[c])
    BY <1>5, ListFacts
  <2>3. t \in ToSet(Tail(kk.ready[c]))
    BY <1>5, <2>1, <2>2, FifoRemoveSet
  <2>4. kk.prio[t] # kk.prio[h]
    BY <1>5, <2>1, <2>3, FirstTail
  <2>5. kk.prio[t] <= kk.prio[h] /\ kk.prio[t] \in Nat /\ kk.prio[h] \in Nat
    BY <1>2, <1>5, ListFacts
  <2> QED BY <2>4, <2>5
<1>6. ASSUME NEW u \in Partial(r)
      PROVE  /\ r.state[u] \in {"READY", "CURRENT"}
             /\ r.state[u] = "READY" => r.prio[u] < r.prio[r.current[Owner[u]]]
  <2>1. CASE u = otp
    <3>1. r.ticks[otp] # Quantum
      BY <1>6, <2>1, KernelAssumption DEF Partial
    <3>2. r.state[otp] = "READY" /\ kk.prio[otp] < kk.prio[h]
      BY <1>1, <3>1
    <3> QED BY <1>1, <2>1, <3>2 DEF Handed
  <2>2. CASE u = h
    BY <2>2 DEF Handed
  <2>3. CASE u \notin {otp, h}
    <3>1. u \in Threads /\ u \in Partial(kk) /\ r.state[u] = kk.state[u]
      BY <1>1, <1>3, <1>6, <2>3 DEF Handed
    <3>2. CASE Owner[u] = c
      <4>1. kk.state[u] = "READY" => kk.prio[u] < kk.prio[h]
        BY <1>5, <2>3, <3>1, <3>2
      <4> QED BY <3>1, <3>2, <4>1 DEF Turns, Handed
    <3>3. CASE Owner[u] # c
      <4>1. r.current[Owner[u]] = kk.current[Owner[u]]
        BY <3>1, <3>3, KernelAssumption DEF Handed
      <4> QED BY <3>1, <4>1 DEF Turns, Handed
    <3> QED BY <3>2, <3>3
  <2> QED BY <2>1, <2>2, <2>3
<1> QED BY <1>4, <1>6 DEF Turns

-----------------------------------------------------------------------------
(* The calls of the kernel keep the turns                                    *)

LEMMA IrqTurns ==
    ASSUME NEW kk, KInv(kk), Turns(kk), NEW c \in Cores, NEW r,
           \/ r = EnterIsr(kk, c)
           \/ r = NotifyIrq(kk, c)
           \/ \E t \in Threads : r = TimerDue(kk, c, t)
           \/ r = [kk EXCEPT !.isr = @ \ {c}]
           \/ r = [kk EXCEPT !.firing[c] = NoThread]
    PROVE  Turns(r)
<1>1. kk \in KernelType
  BY ListFacts
<1>2. SameLists(kk, r)
  BY <1>1 DEF SameLists, EnterIsr, NotifyIrq, TimerDue, KernelType
<1> QED BY <1>2, SameTurns

\* Only the running thread uses its quantum.
LEMMA TickTurns ==
    ASSUME NEW kk, KInv(kk), Turns(kk), NEW c \in Cores, NEW r, r = chSysTimerHandlerI(kk, c)
    PROVE  Turns(r)
<1>1. PICK otp \in Threads : otp = kk.current[c] /\ kk.state[otp] = "CURRENT"
  BY ListFacts
<1>2. /\ r.ready = kk.ready /\ r.state = kk.state /\ r.current = kk.current
      /\ r.prio = kk.prio /\ \A u \in Threads \ {otp} : r.ticks[u] = kk.ticks[u]
  BY <1>1, ListFacts DEF chSysTimerHandlerI, EnterIsr, KernelType
<1>3. \A u \in Partial(r) : u \in Threads /\ (u # otp => u \in Partial(kk))
  BY <1>2 DEF Partial
<1>4. ASSUME NEW d \in Cores
      PROVE  First(r.ready[d], r.prio, Partial(r))
  <2>1. kk.ready[d] \in Seq(Threads) /\ First(kk.ready[d], kk.prio, Partial(kk))
    BY ListFacts DEF Turns
  <2>2. otp \notin ToSet(kk.ready[d])
    BY <1>1, ListFacts
  <2>3. \A u \in ToSet(kk.ready[d]) : u \in Partial(r) => u \in Partial(kk)
    BY <1>3, <2>2
  <2>4. First(kk.ready[d], kk.prio, Partial(r))
    BY <2>1, <2>3, FirstLess
  <2> QED BY <1>2, <2>4
<1>5. ASSUME NEW u \in Partial(r)
      PROVE  /\ r.state[u] \in {"READY", "CURRENT"}
             /\ r.state[u] = "READY" => r.prio[u] < r.prio[r.current[Owner[u]]]
  <2>1. CASE u = otp
    BY <1>1, <1>2, <2>1
  <2>2. CASE u # otp
    BY <1>2, <1>3, <2>2 DEF Turns
  <2> QED BY <2>1, <2>2
<1> QED BY <1>4, <1>5 DEF Turns

\* A thread that waits has a full quantum.
LEMMA ReadyTurns ==
    ASSUME NEW kk, KInv(kk), Turns(kk), NEW c \in Cores, NEW t \in Threads, NEW m,
           kk.state[t] \notin {"READY", "CURRENT"}, NEW r, r = ReadyWithMsg(kk, c, t, m)
    PROVE  Turns(r)
<1>1. kk \in KernelType /\ t \notin Partial(kk)
  BY ListFacts DEF Turns
<1>2. PICK k1 : k1 = chSysNotifyInstance([kk EXCEPT !.rdymsg[t] = m], c, t)
  OBVIOUS
<1>3. /\ k1.ready = kk.ready /\ k1.state = kk.state /\ k1.current = kk.current
      /\ k1.prio = kk.prio /\ k1.ticks = kk.ticks
      /\ \A f \in {"ready", "state", "current", "prio", "ticks"} : f \in DOMAIN k1
  BY <1>1, <1>2 DEF chSysNotifyInstance, KernelType
<1>4. r = sch_ready_behind(k1, t)
  BY <1>2 DEF ReadyWithMsg, chSchReadyI
<1>5. Joined(kk, r, t)
  BY <1>3, <1>4 DEF sch_ready_behind, Joined
<1> QED BY <1>1, <1>5, JoinedTurns

LEMMA ReadyTurnsI ==
    ASSUME NEW kk, KInv(kk), Turns(kk), NEW c \in Cores, NEW t \in Threads, NEW m,
           kk.state[t] \notin {"READY", "CURRENT"}, NEW r, r = ReadyWithMsg(EnterIsr(kk, c), c, t, m)
    PROVE  Turns(r)
<1>1. PICK k1 : k1 = EnterIsr(kk, c)
  OBVIOUS
<1>2. KInv(k1) /\ k1.state = kk.state
  BY <1>1, EnterIsrInv
<1>3. Turns(k1)
  BY <1>1, IrqTurns
<1>4. r = ReadyWithMsg(k1, c, t, m) /\ k1.state[t] \notin {"READY", "CURRENT"}
  BY <1>1, <1>2
<1> QED BY <1>2, <1>3, <1>4, ReadyTurns

LEMMA CallbackTurns ==
    ASSUME NEW kk, KInv(kk), Turns(kk), NEW c \in Cores, NEW t \in Threads, t = kk.firing[c],
           NEW r, r = Callback(kk, c)
    PROVE  Turns(r)
<1>1. PICK k1 : k1 = [kk EXCEPT !.firing[c] = NoThread]
  OBVIOUS
<1>2. kk \in KernelType /\ kk.state[t] \in TimedStates /\ kk.state[t] # "CURRENT"
  BY KernelAssumption DEF KInv, KInvX, TimedStates
<1>3. CASE AlreadyReady(kk, t)
  <2>1. r = k1
    BY <1>1, <1>3 DEF Callback
  <2> QED BY <1>1, <2>1, IrqTurns
<1>4. CASE ~ AlreadyReady(kk, t)
  <2>1. t \notin Partial(kk)
    BY <1>2, <1>4 DEF Turns, AlreadyReady
  <2>2. PICK k2 : k2 = [k1 EXCEPT !.rdymsg[t] = "TIMEOUT"]
    OBVIOUS
  <2>3. r = sch_ready_behind(k2, t)
    BY <1>1, <1>4, <2>2 DEF Callback
  <2>4. /\ k2.ready = kk.ready /\ k2.state = kk.state /\ k2.current = kk.current
        /\ k2.prio = kk.prio /\ k2.ticks = kk.ticks
        /\ \A f \in {"ready", "state", "current", "prio", "ticks"} : f \in DOMAIN k2
    BY <1>1, <1>2, <2>2 DEF KernelType
  <2>5. Joined(kk, r, t)
    BY <2>3, <2>4 DEF sch_ready_behind, Joined
  <2> QED BY <2>1, <2>5, JoinedTurns
<1> QED BY <1>3, <1>4

\* The first ready thread runs, the old one waits with a full quantum.
LEMMA SleepTurns ==
    ASSUME NEW kk, KInv(kk), Turns(kk), NEW c \in Cores, kk.ready[c] # <<>>, NEW ns, NEW timed,
           NEW r, r = chSchGoSleepTimeoutS(kk, c, ns, timed)
    PROVE  Turns(r)
<1>1. PICK otp \in Threads : otp = kk.current[c] /\ kk.state[otp] = "CURRENT"
  BY ListFacts
<1>2. PICK h, q : h = Head(kk.ready[c]) /\ q = Tail(kk.ready[c])
  OBVIOUS
<1>3. h \in Threads /\ kk.state[h] = "READY"
  BY <1>2, ListFacts, FifoRemoveSet
<1>4. PICK k1 : k1 = [[kk EXCEPT !.armed = IF timed THEN @ \union {kk.current[c]} ELSE @]
                          EXCEPT !.state[otp] = ns, !.ticks[otp] = Quantum]
  OBVIOUS
<1>5. /\ k1.ready = kk.ready /\ k1.state = [kk.state EXCEPT ![otp] = ns] /\ k1.current = kk.current
      /\ k1.prio = kk.prio /\ k1.ticks = [kk.ticks EXCEPT ![otp] = Quantum]
      /\ \A f \in {"ready", "state", "current", "prio", "ticks", "armed"} : f \in DOMAIN k1
  BY <1>4, ListFacts DEF KernelType
<1>6. r = SwitchToFirst(k1, c)
  <2>1. kk \in KernelType
    BY ListFacts
  <2> QED BY <1>1, <1>4, <2>1 DEF chSchGoSleepTimeoutS, chSchGoSleepS, KernelType
<1>7. /\ r.ready = [kk.ready EXCEPT ![c] = q] /\ r.current = [kk.current EXCEPT ![c] = h]
      /\ r.state = [kk.state EXCEPT ![otp] = ns, ![h] = "CURRENT"]
      /\ r.prio = kk.prio /\ r.ticks = [kk.ticks EXCEPT ![otp] = Quantum]
  BY <1>2, <1>5, <1>6 DEF SwitchToFirst, SwitchIn
<1>8. Handed(kk, r, c, h, q)
  BY <1>1, <1>2, <1>3, <1>7, ListFacts DEF Handed
<1>9. First(q, kk.prio, Partial(r))
  <2>1. kk.ready[c] \in Seq(Threads) /\ First(kk.ready[c], kk.prio, Partial(kk))
    BY ListFacts DEF Turns
  <2>2. First(q, kk.prio, Partial(kk)) /\ q \in Seq(Threads)
    BY <1>2, <2>1, FirstTail, ListFacts, FifoRemoveSet
  <2>3. \A u \in Partial(r) : u \in Partial(kk)
    BY <1>1, <1>7, ListFacts, KernelAssumption DEF Partial
  <2> QED BY <2>2, <2>3, FirstLess
<1>10. r.ticks[kk.current[c]] = Quantum
  BY <1>1, <1>7, ListFacts
<1> QED BY <1>8, <1>9, <1>10, HandedTurns

\* What a switch to the first thread h, that leaves tl, does before the old
\* one is put back.
SwitchedTo(kk, k1, c, h, tl) ==
    /\ k1.ready = [kk.ready EXCEPT ![c] = tl]
    /\ k1.current = [kk.current EXCEPT ![c] = h]
    /\ k1.state = [kk.state EXCEPT ![h] = "CURRENT"]
    /\ k1.prio = kk.prio /\ k1.ticks = kk.ticks
    /\ \A f \in {"ready", "state", "current", "prio", "ticks"} : f \in DOMAIN k1

LEMMA SwitchFields ==
    ASSUME NEW kk, KInv(kk), NEW c \in Cores, NEW h, h = Head(kk.ready[c]),
           NEW tl, tl = Tail(kk.ready[c]), NEW k1, k1 = SwitchToFirst(kk, c)
    PROVE  SwitchedTo(kk, k1, c, h, tl)
BY ListFacts DEF SwitchToFirst, SwitchIn, KernelType, SwitchedTo

\* The running thread and the first ready one are exchanged: behind the
\* peers with a new quantum, or ahead of them with what is left of the old.
Exchanged(kk, r, c, h, q) ==
    LET otp == kk.current[c]
    IN  /\ r.ready = [kk.ready EXCEPT ![c] = q]
        /\ r.current = [kk.current EXCEPT ![c] = h]
        /\ r.state = [kk.state EXCEPT ![h] = "CURRENT", ![otp] = "READY"]
        /\ r.prio = kk.prio
        /\ \/ /\ q = ch_pqueue_insert_behind(Tail(kk.ready[c]), otp, kk.prio)
              /\ r.ticks = [kk.ticks EXCEPT ![otp] = Quantum]
           \/ /\ q = ch_pqueue_insert_ahead(Tail(kk.ready[c]), otp, kk.prio)
              /\ r.ticks = kk.ticks
              /\ kk.prio[otp] < kk.prio[h]

LEMMA ExchangedTurns ==
    ASSUME NEW kk, KInv(kk), Turns(kk), NEW c \in Cores, kk.ready[c] # <<>>,
           NEW h, h = Head(kk.ready[c]), NEW q, NEW r, Exchanged(kk, r, c, h, q)
    PROVE  Turns(r)
<1>1. PICK otp \in Threads : otp = kk.current[c] /\ kk.state[otp] = "CURRENT" /\ Owner[otp] = c
  BY ListFacts
<1>2. h \in Threads /\ kk.state[h] = "READY" /\ h # otp
  BY <1>1, ListFacts, FifoRemoveSet
<1>3. PICK tl : tl = Tail(kk.ready[c])
  OBVIOUS
<1>4. /\ kk.ready[c] \in Seq(Threads) /\ First(kk.ready[c], kk.prio, Partial(kk))
      /\ kk.prio \in [Threads -> Nat] /\ SortedByPrio(kk.ready[c], kk.prio)
      /\ NoDuplicates(kk.ready[c])
      /\ ToSet(kk.ready[c]) = {t \in Threads : kk.state[t] = "READY" /\ Owner[t] = c}
  BY ListFacts DEF Turns
<1>5. tl \in Seq(Threads) /\ ToSet(tl) = ToSet(kk.ready[c]) \ {h}
  BY <1>3, <1>4, FifoRemoveSet
<1>6. First(tl, kk.prio, Partial(kk))
  BY <1>3, <1>4, FirstTail
<1>7. SortedByPrio(tl, kk.prio)
  BY <1>3, <1>4, RemoveSorted
<1>8. Handed(kk, r, c, h, q)
  <2>1. \A u \in Threads \ {otp} : r.ticks[u] = kk.ticks[u]
    BY <1>1, ListFacts DEF Exchanged
  <2> QED BY <1>1, <1>2, <2>1, ListFacts DEF Exchanged, Handed
<1>9. CASE /\ q = ch_pqueue_insert_behind(tl, otp, kk.prio)
           /\ r.ticks = [kk.ticks EXCEPT ![otp] = Quantum]
  <2>1. r.ticks[otp] = Quantum /\ \A u \in Partial(r) : u \in Partial(kk) /\ u # otp
    BY <1>1, <1>9, ListFacts, KernelAssumption DEF Partial
  <2>2. First(tl, kk.prio, Partial(r))
    BY <1>5, <1>6, <2>1, FirstLess
  <2>3. otp \notin Partial(r)
    BY <2>1
  <2>4. First(q, kk.prio, Partial(r))
    BY <1>4, <1>5, <1>7, <1>9, <2>2, <2>3, FirstBehind
  <2>5. r.ticks[kk.current[c]] = Quantum
    BY <1>1, <2>1
  <2> QED BY <1>8, <2>4, <2>5, HandedTurns
<1>10. CASE /\ q = ch_pqueue_insert_ahead(tl, otp, kk.prio)
            /\ r.ticks = kk.ticks /\ kk.prio[otp] < kk.prio[h]
  <2>1. Partial(r) = Partial(kk)
    BY <1>10 DEF Partial
  <2>2. ASSUME NEW u \in ToSet(tl), u \in Partial(kk)
        PROVE  kk.prio[u] # kk.prio[otp]
    <3>1. u \in Threads /\ kk.state[u] = "READY" /\ Owner[u] = c
      BY <1>4, <1>5
    <3>2. kk.prio[u] < kk.prio[otp]
      BY <1>1, <2>2, <3>1 DEF Turns
    <3>3. kk.prio[u] \in Nat /\ kk.prio[otp] \in Nat
      BY <1>4, <3>1
    <3> QED BY <3>2, <3>3
  <2>3. First(q, kk.prio, Partial(kk))
    BY <1>4, <1>5, <1>6, <1>10, <2>2, FirstAhead
  <2>4. r.state[kk.current[c]] = "READY"
    BY <1>1, <1>2, ListFacts DEF Exchanged
  <2>5. First(q, kk.prio, Partial(r)) /\ kk.prio[kk.current[c]] < kk.prio[h]
    BY <1>1, <1>10, <2>1, <2>3
  <2> QED BY <1>8, <2>4, <2>5, HandedTurns
<1> QED BY <1>1, <1>3, <1>9, <1>10 DEF Exchanged

\* sch_reschedule_behind(), and sch_reschedule_ahead() to a strictly more
\* important thread.
LEMMA RescheduleTurns ==
    ASSUME NEW kk, KInv(kk), Turns(kk), NEW c \in Cores, kk.ready[c] # <<>>, NEW r,
           \/ r = sch_reschedule_behind(kk, c)
           \/ r = sch_reschedule_ahead(kk, c) /\ firstprio(kk, c) > CurrPrio(kk, c)
    PROVE  Turns(r)
<1>1. PICK otp \in Threads : otp = kk.current[c] /\ kk.state[otp] = "CURRENT" /\ Owner[otp] = c
  BY ListFacts
<1>2. PICK h, tl : h = Head(kk.ready[c]) /\ tl = Tail(kk.ready[c])
  OBVIOUS
<1>3. PICK k1 : k1 = SwitchToFirst(kk, c)
  OBVIOUS
<1>4. /\ k1.ready = [kk.ready EXCEPT ![c] = tl] /\ k1.current = [kk.current EXCEPT ![c] = h]
      /\ k1.state = [kk.state EXCEPT ![h] = "CURRENT"] /\ k1.prio = kk.prio /\ k1.ticks = kk.ticks
      /\ \A f \in {"ready", "state", "current", "prio", "ticks"} : f \in DOMAIN k1
  <2>1. SwitchedTo(kk, k1, c, h, tl)
    BY <1>2, <1>3, SwitchFields
  <2> QED BY <2>1 DEF SwitchedTo
<1>5. k1.ready[c] = tl
  BY <1>4, ListFacts
<1>6. CASE r = sch_reschedule_behind(kk, c)
  <2>1. PICK q : q = ch_pqueue_insert_behind(tl, otp, kk.prio)
    OBVIOUS
  <2>2. PICK k2 : k2 = [k1 EXCEPT !.ticks[otp] = Quantum]
    OBVIOUS
  <2>3. /\ k2.ready = k1.ready /\ k2.current = k1.current /\ k2.state = k1.state
        /\ k2.prio = k1.prio /\ k2.ticks = [kk.ticks EXCEPT ![otp] = Quantum]
        /\ \A f \in {"ready", "state", "current", "prio", "ticks"} : f \in DOMAIN k2
    BY <1>4, <2>2
  <2>4. r = sch_ready_behind(k2, otp)
    BY <1>1, <1>3, <1>6, <2>2 DEF sch_reschedule_behind
  <2>5. /\ r.ready = [k1.ready EXCEPT ![c] = q] /\ r.state = [k1.state EXCEPT ![otp] = "READY"]
        /\ r.current = k1.current /\ r.prio = kk.prio /\ r.ticks = [kk.ticks EXCEPT ![otp] = Quantum]
    BY <1>1, <1>4, <1>5, <2>1, <2>3, <2>4 DEF sch_ready_behind
  <2>6. r.ready = [kk.ready EXCEPT ![c] = q]
    BY <1>4, <2>5, ListFacts
  <2>7. Exchanged(kk, r, c, h, q)
    BY <1>1, <1>2, <1>4, <2>1, <2>5, <2>6 DEF Exchanged
  <2> QED BY <1>2, <2>7, ExchangedTurns
<1>7. CASE r = sch_reschedule_ahead(kk, c) /\ firstprio(kk, c) > CurrPrio(kk, c)
  <2>1. PICK q : q = ch_pqueue_insert_ahead(tl, otp, kk.prio)
    OBVIOUS
  <2>2. r = sch_ready_ahead(k1, otp)
    BY <1>1, <1>3, <1>7 DEF sch_reschedule_ahead
  <2>3. /\ r.ready = [k1.ready EXCEPT ![c] = q] /\ r.state = [k1.state EXCEPT ![otp] = "READY"]
        /\ r.current = k1.current /\ r.prio = kk.prio /\ r.ticks = kk.ticks
    BY <1>1, <1>4, <1>5, <2>1, <2>2 DEF sch_ready_ahead
  <2>4. r.ready = [kk.ready EXCEPT ![c] = q]
    BY <1>4, <2>3, ListFacts
  <2>5. kk.prio[otp] < kk.prio[h]
    <3>1. h \in Threads /\ kk.prio[h] \in Nat /\ kk.prio[otp] \in Nat
      BY <1>2, ListFacts, FifoRemoveSet
    <3> QED BY <1>1, <1>2, <1>7, <3>1 DEF firstprio, CurrPrio
  <2>6. Exchanged(kk, r, c, h, q)
    BY <1>1, <1>2, <1>4, <2>1, <2>3, <2>4, <2>5 DEF Exchanged
  <2> QED BY <1>2, <2>6, ExchangedTurns
<1> QED BY <1>6, <1>7

\* chSchRescheduleS() and chSchDoYieldS().
LEMMA YieldTurns ==
    ASSUME NEW kk, KInv(kk), Turns(kk), NEW c \in Cores, NEW r,
           r = chSchRescheduleS(kk, c) \/ r = chSchDoYieldS(kk, c)
    PROVE  Turns(r)
<1>1. firstprio(kk, c) > CurrPrio(kk, c) => firstprio(kk, c) >= CurrPrio(kk, c)
  <2>1. CurrPrio(kk, c) \in Nat
    BY ListFacts DEF CurrPrio
  <2>2. firstprio(kk, c) \in Nat
    <3>1. CASE kk.ready[c] = <<>>
      BY <3>1 DEF firstprio
    <3>2. CASE kk.ready[c] # <<>>
      <4>1. Head(kk.ready[c]) \in Threads
        BY <3>2, ListFacts, FifoRemoveSet
      <4> QED BY <3>2, <4>1, ListFacts DEF firstprio
    <3> QED BY <3>1, <3>2
  <2> QED BY <2>1, <2>2
<1>2. firstprio(kk, c) >= CurrPrio(kk, c) => kk.ready[c] # <<>>
  BY FirstPrioNotEmpty
<1>3. CASE r = chSchRescheduleS(kk, c)
  <2>1. CASE firstprio(kk, c) > CurrPrio(kk, c)
    BY <1>1, <1>2, <1>3, <2>1, RescheduleTurns DEF chSchRescheduleS
  <2>2. CASE ~ (firstprio(kk, c) > CurrPrio(kk, c))
    BY <1>3, <2>2 DEF chSchRescheduleS
  <2> QED BY <2>1, <2>2
<1>4. CASE r = chSchDoYieldS(kk, c)
  <2>1. CASE firstprio(kk, c) >= CurrPrio(kk, c)
    BY <1>2, <1>4, <2>1, RescheduleTurns DEF chSchDoYieldS
  <2>2. CASE ~ (firstprio(kk, c) >= CurrPrio(kk, c))
    BY <1>4, <2>2 DEF chSchDoYieldS
  <2> QED BY <2>1, <2>2
<1> QED BY <1>3, <1>4

\* The exit path of the last handler: a thread with time left goes ahead of
\* its peers, only a strictly more important one has preempted it.
LEMMA IsrExitTurns ==
    ASSUME NEW k0, KInv(k0), Turns(k0), NEW c \in Cores, IsrExitEnabled(k0, c),
           NEW r, r = IsrExit(k0, c)
    PROVE  Turns(r)
<1>1. PICK kk : kk = [k0 EXCEPT !.isr = @ \ {c}]
  OBVIOUS
<1>2. Turns(kk)
  BY <1>1, IrqTurns
<1>3. KInv(kk)
  <2>1. k0 \in KernelType /\ k0.firing[c] = NoThread
    BY ListFacts DEF IsrExitEnabled
  <2>2. /\ kk \in KernelType /\ kk.ready = k0.ready /\ kk.current = k0.current /\ kk.prio = k0.prio
        /\ kk.state = k0.state /\ kk.armed = k0.armed /\ kk.isr = k0.isr \ {c} /\ kk.firing = k0.firing
    BY <1>1, <2>1 DEF KernelType
  <2> QED BY <2>1, <2>2 DEF KInv, KInvX
<1>4. r = IF chSchIsPreemptionRequired(kk, c) THEN chSchDoPreemption(kk, c) ELSE kk
  BY <1>1 DEF IsrExit
<1>5. CASE ~ chSchIsPreemptionRequired(kk, c)
  BY <1>2, <1>4, <1>5
<1>6. CASE chSchIsPreemptionRequired(kk, c)
  <2>1. PICK otp \in Threads : otp = kk.current[c] /\ kk.state[otp] = "CURRENT" /\ Owner[otp] = c
    BY <1>3, ListFacts
  <2>2. r = chSchDoPreemption(kk, c)
    BY <1>4, <1>6
  <2>3. /\ firstprio(kk, c) >= CurrPrio(kk, c)
        /\ (Quantum > 0 /\ kk.ticks[otp] = 0) \/ firstprio(kk, c) > CurrPrio(kk, c)
    <3>1. CurrPrio(kk, c) \in Nat /\ kk.ticks[otp] \in 0 .. Quantum
      BY <1>3, <2>1, ListFacts DEF CurrPrio
    <3>2. firstprio(kk, c) \in Nat
      <4>1. CASE kk.ready[c] = <<>>
        BY <4>1 DEF firstprio
      <4>2. CASE kk.ready[c] # <<>>
        <5>1. Head(kk.ready[c]) \in Threads
          BY <1>3, <4>2, ListFacts, FifoRemoveSet
        <5> QED BY <1>3, <4>2, <5>1, ListFacts DEF firstprio
      <4> QED BY <4>1, <4>2
    <3> QED BY <1>6, <2>1, <3>1, <3>2, KernelAssumption DEF chSchIsPreemptionRequired
  <2>4. kk.ready[c] # <<>>
    BY <1>3, <2>3, FirstPrioNotEmpty
  <2>5. PICK h, tl : h = Head(kk.ready[c]) /\ tl = Tail(kk.ready[c])
    OBVIOUS
  <2>6. PICK k1 : k1 = SwitchToFirst(kk, c)
    OBVIOUS
  <2>7. SwitchedTo(kk, k1, c, h, tl)
    BY <1>3, <2>5, <2>6, SwitchFields
  <2>8. CASE Quantum > 0 /\ kk.ticks[otp] = 0
    <3>1. PICK q : q = ch_pqueue_insert_behind(tl, otp, kk.prio)
      OBVIOUS
    <3>2. r = [sch_ready_behind(k1, otp) EXCEPT !.ticks[otp] = Quantum]
      BY <2>1, <2>2, <2>6, <2>7, <2>8 DEF chSchDoPreemption, SwitchedTo
    <3>3. k1.ready[c] = tl
      BY <1>3, <2>7, ListFacts DEF SwitchedTo
    <3>4. PICK r1 : r1 = sch_ready_behind(k1, otp)
      OBVIOUS
    <3>5. /\ r1.ready = [k1.ready EXCEPT ![c] = q] /\ r1.state = [k1.state EXCEPT ![otp] = "READY"]
          /\ r1.current = k1.current /\ r1.prio = kk.prio /\ r1.ticks = kk.ticks
          /\ \A f \in {"ready", "state", "current", "prio", "ticks"} : f \in DOMAIN r1
      BY <2>1, <2>7, <3>1, <3>3, <3>4 DEF sch_ready_behind, SwitchedTo
    <3>6. /\ r.ready = r1.ready /\ r.state = r1.state /\ r.current = r1.current /\ r.prio = r1.prio
          /\ r.ticks = [kk.ticks EXCEPT ![otp] = Quantum]
      BY <3>2, <3>4, <3>5
    <3>7. r.ready = [kk.ready EXCEPT ![c] = q]
      BY <1>3, <2>7, <3>5, <3>6, ListFacts DEF SwitchedTo
    <3>8. Exchanged(kk, r, c, h, q)
      BY <2>1, <2>5, <2>7, <3>1, <3>5, <3>6, <3>7 DEF Exchanged, SwitchedTo
    <3> QED BY <1>2, <1>3, <2>4, <2>5, <3>8, ExchangedTurns
  <2>9. CASE ~ (Quantum > 0 /\ kk.ticks[otp] = 0)
    <3>1. r = sch_reschedule_ahead(kk, c)
      BY <2>1, <2>2, <2>6, <2>7, <2>9 DEF chSchDoPreemption, sch_reschedule_ahead, SwitchedTo
    <3> QED BY <1>2, <1>3, <2>3, <2>4, <2>9, <3>1, RescheduleTurns
  <2> QED BY <2>8, <2>9
<1> QED BY <1>5, <1>6

\* chSchWakeupS(): the woken thread joins the list, or takes the core of the
\* running one, which goes ahead of its peers.
LEMMA WakeupTurns ==
    ASSUME NEW kk, KInv(kk), Turns(kk), NEW c \in Cores, NEW t \in Threads, NEW m,
           kk.state[t] \notin {"READY", "CURRENT"}, NEW r, r = chSchWakeupS(kk, c, t, m)
    PROVE  Turns(r)
<1>1. PICK k1 : k1 = [kk EXCEPT !.rdymsg[t] = m]
  OBVIOUS
<1>2. /\ k1.ready = kk.ready /\ k1.state = kk.state /\ k1.current = kk.current
      /\ k1.prio = kk.prio /\ k1.ticks = kk.ticks /\ k1.notified = kk.notified
      /\ \A f \in {"ready", "state", "current", "prio", "ticks", "armed", "notified"} : f \in DOMAIN k1
  BY <1>1, ListFacts DEF KernelType
<1>3. PICK otp \in Threads : otp = kk.current[c] /\ kk.state[otp] = "CURRENT" /\ Owner[otp] = c
  BY ListFacts
<1>4. t \notin Partial(kk) /\ t # otp /\ kk.prio \in [Threads -> Nat]
  BY <1>3, ListFacts DEF Turns
<1>5. CASE r = sch_ready_behind(k1, t) \/ r = sch_ready_behind(chSysNotifyInstance(k1, c, t), t)
  <2>1. PICK k2 : (k2 = k1 \/ k2 = chSysNotifyInstance(k1, c, t)) /\ r = sch_ready_behind(k2, t)
    BY <1>5
  <2>2. /\ k2.ready = kk.ready /\ k2.state = kk.state /\ k2.current = kk.current
        /\ k2.prio = kk.prio /\ k2.ticks = kk.ticks
        /\ \A f \in {"ready", "state", "current", "prio", "ticks"} : f \in DOMAIN k2
    BY <1>2, <2>1 DEF chSysNotifyInstance
  <2>3. Joined(kk, r, t)
    BY <2>1, <2>2 DEF sch_ready_behind, Joined
  <2> QED BY <1>4, <2>3, JoinedTurns
<1>6. CASE /\ Owner[t] = c /\ ~ (kk.prio[t] <= kk.prio[otp])
           /\ r = SwitchIn(sch_ready_ahead(k1, otp), c, t)
  <2>1. PICK q : q = ch_pqueue_insert_ahead(kk.ready[c], otp, kk.prio)
    OBVIOUS
  <2>2. PICK k2 : k2 = sch_ready_ahead(k1, otp)
    OBVIOUS
  <2>3. /\ k2.ready = [kk.ready EXCEPT ![c] = q] /\ k2.state = [kk.state EXCEPT ![otp] = "READY"]
        /\ k2.current = kk.current /\ k2.prio = kk.prio /\ k2.ticks = kk.ticks
        /\ \A f \in {"ready", "state", "current", "prio", "ticks", "armed"} : f \in DOMAIN k2
    BY <1>2, <1>3, <2>1, <2>2 DEF sch_ready_ahead
  <2>4. /\ r.ready = k2.ready /\ r.state = [k2.state EXCEPT ![t] = "CURRENT"]
        /\ r.current = [kk.current EXCEPT ![c] = t] /\ r.prio = kk.prio /\ r.ticks = kk.ticks
    BY <1>6, <2>2, <2>3 DEF SwitchIn
  <2>5. Partial(r) = Partial(kk)
    BY <2>4 DEF Partial
  <2>6. kk.prio[otp] < kk.prio[t]
    BY <1>4, <1>6
  <2>7. ASSUME NEW u \in Partial(kk), kk.state[u] = "READY", Owner[u] = c
        PROVE  u \in Threads /\ kk.prio[u] < kk.prio[otp] /\ kk.prio[u] \in Nat /\ kk.prio[otp] \in Nat
    BY <1>3, <1>4, <2>7 DEF Turns, Partial
  <2>8. ASSUME NEW d \in Cores
        PROVE  First(r.ready[d], r.prio, Partial(r))
    <3>1. /\ kk.ready[d] \in Seq(Threads) /\ First(kk.ready[d], kk.prio, Partial(kk))
          /\ ToSet(kk.ready[d]) = {u \in Threads : kk.state[u] = "READY" /\ Owner[u] = d}
      BY ListFacts DEF Turns
    <3>2. CASE d = c
      <4>1. r.ready[c] = q
        BY <2>3, <2>4, ListFacts
      <4>2. \A u \in ToSet(kk.ready[c]) : u \in Partial(kk) => kk.prio[u] # kk.prio[otp]
        BY <2>7, <3>1, <3>2
      <4>3. First(q, kk.prio, Partial(kk))
        BY <1>4, <2>1, <3>1, <3>2, <4>2, FirstAhead
      <4> QED BY <2>4, <2>5, <3>2, <4>1, <4>3
    <3>3. CASE d # c
      <4>1. r.ready[d] = kk.ready[d]
        BY <2>3, <2>4, <3>3, ListFacts
      <4> QED BY <2>4, <2>5, <3>1, <4>1
    <3> QED BY <3>2, <3>3
  <2>9. ASSUME NEW u \in Partial(r)
        PROVE  /\ r.state[u] \in {"READY", "CURRENT"}
               /\ r.state[u] = "READY" => r.prio[u] < r.prio[r.current[Owner[u]]]
    <3>1. u \in Partial(kk) /\ u \in Threads /\ u # t
      BY <1>4, <2>5 DEF Partial
    <3>2. r.current[c] = t /\ \A d \in Cores \ {c} : r.current[d] = kk.current[d]
      BY <2>4, ListFacts
    <3>3. CASE u = otp
      <4>1. r.state[u] = "READY"
        BY <1>4, <2>3, <2>4, <3>3, ListFacts
      <4> QED BY <1>3, <2>4, <2>6, <3>2, <3>3, <4>1
    <3>4. CASE u # otp
      <4>1. r.state[u] = kk.state[u]
        BY <2>3, <2>4, <3>1, <3>4, ListFacts
      <4>2. CASE Owner[u] = c
        <5>1. kk.state[u] = "READY" => kk.prio[u] < kk.prio[t]
          BY <1>4, <2>6, <2>7, <3>1, <4>2
        <5> QED BY <2>4, <3>1, <3>2, <4>1, <4>2, <5>1 DEF Turns
      <4>3. CASE Owner[u] # c
        <5>1. r.current[Owner[u]] = kk.current[Owner[u]]
          BY <3>1, <3>2, <4>3, KernelAssumption
        <5> QED BY <2>4, <3>1, <4>1, <5>1 DEF Turns
      <4> QED BY <4>2, <4>3
    <3> QED BY <3>3, <3>4
  <2> QED BY <2>8, <2>9 DEF Turns
<1> QED BY <1>1, <1>2, <1>3, <1>5, <1>6 DEF chSchWakeupS

LEMMA NextTurns ==
    ASSUME IInv, Turns(k), Next
    PROVE  Turns(k')
<1>i. KInv(k)
  BY Facts DEF Sound
<1>q. ASSUME NEW q \in Queues, tqueue[q] # <<>>
      PROVE  Head(tqueue[q]) \in Threads /\ k.state[Head(tqueue[q])] \notin {"READY", "CURRENT"}
  <2>1. /\ tqueue[q] \in Seq(Threads) /\ NoDuplicates(tqueue[q])
        /\ ToSet(tqueue[q]) = {t \in Threads : k.state[t] = "QUEUED" /\ wtobj[t] = q}
    BY <1>q, Facts DEF QueuesExact
  <2>2. Head(tqueue[q]) \in ToSet(tqueue[q])
    BY <1>q, <2>1, FifoRemoveSet
  <2> QED BY <2>1, <2>2
<1>w. ASSUME NEW c \in Cores, NEW t \in Threads, NEW m, k.state[t] \notin {"READY", "CURRENT"},
             \/ k' = ReadyWithMsg(EnterIsr(k, c), c, t, m)
             \/ k' = ReadyWithMsg(k, c, t, m)
             \/ k' = chSchWakeupS(k, c, t, m)
      PROVE  Turns(k')
  BY <1>i, <1>w, ReadyTurns, ReadyTurnsI, WakeupTurns
<1>1. ASSUME NEW c \in Cores, NEW t \in UserThreads, chThdStart(c, t) \/ chThdStartI(c, t)
      PROVE  Turns(k')
  <2>1. /\ t \in Threads /\ k.state[t] \notin {"READY", "CURRENT"}
        /\ \/ k' = ReadyWithMsg(EnterIsr(k, c), c, t, "OK")
           \/ k' = chSchWakeupS(k, c, t, "OK")
    BY <1>1 DEF chThdStart, chThdStartI, UserThreads
  <2> QED BY <1>w, <2>1
<1>2. ASSUME NEW c \in Cores, NEW s \in Refs, chThdResumeS(c, s) \/ chThdResumeI(c, s)
      PROVE  Turns(k')
  <2>1. PICK t : t = trp[s]
    OBVIOUS
  <2>2. /\ t # NoThread
        /\ \/ k' = ReadyWithMsg(EnterIsr(k, c), c, t, "OK")
           \/ k' = chSchWakeupS(k, c, t, "OK")
    BY <1>2, <2>1 DEF chThdResumeS, chThdResumeI
  <2>3. t \in Threads /\ k.state[t] \notin {"READY", "CURRENT"}
    BY <2>1, <2>2, Facts DEF Links
  <2> QED BY <1>w, <2>2, <2>3
<1>3. ASSUME NEW c \in Cores, NEW q \in Queues, chThdDequeueNextI(c, q)
      PROVE  Turns(k')
  <2>1. PICK t : t = Head(tqueue[q])
    OBVIOUS
  <2>2. tqueue[q] # <<>> /\ k' = ReadyWithMsg(EnterIsr(k, c), c, t, "RESET")
    BY <1>3, <2>1 DEF chThdDequeueNextI, chThdDoDequeueNextI
  <2> QED BY <1>q, <1>w, <2>1, <2>2
<1>4. ASSUME NEW c \in Cores, NEW q \in Queues, ThdDequeueAll(c, q) \/ chThdDequeueAllI(c, q)
      PROVE  Turns(k')
  <2>1. k' = k \/ k' = EnterIsr(k, c)
    BY <1>4 DEF ThdDequeueAll, chThdDequeueAllI
  <2> QED BY <1>i, <2>1, IrqTurns
<1>5. ASSUME NEW c \in Cores, Caller(c), NEW timed, NEW ns, Sleeps(c, ns, timed)
      PROVE  Turns(k')
  <2>1. k.ready[c] # <<>>
    <3>1. PICK t : t = k.current[c] /\ t \in UserThreads /\ t \in Threads /\ k.state[t] = "CURRENT"
      BY <1>5, CallerFacts DEF InThread
    <3>2. KInvX(k, {t})
      <4>1. /\ k \in KernelType /\ k.ready = k.ready /\ k.current = k.current /\ k.prio = k.prio
            /\ k.firing = k.firing /\ k.isr = k.isr /\ k.armed \subseteq k.armed \union {t}
            /\ \A u \in Threads \ {t} : k.state[u] = k.state[u]
        BY Facts
      <4> QED BY <1>i, <3>1, <4>1, TransitStart
    <3> QED BY <3>1, <3>2, ReadyNotEmpty
  <2>2. k' = chSchGoSleepTimeoutS(k, c, ns, timed)
    BY <1>5 DEF Sleeps
  <2> QED BY <1>i, <2>1, <2>2, SleepTurns
<1>6. ASSUME NEW c \in Cores, ThreadStep(c)
      PROVE  Turns(k')
  <2>1. ASSUME NEW s \in Refs, NEW timed \in BOOLEAN, chThdSuspendTimeoutS(c, s, timed)
        PROVE  Turns(k')
    BY <1>5, <2>1 DEF chThdSuspendTimeoutS, Sleeps
  <2>2. ASSUME NEW q \in Queues, NEW timed \in BOOLEAN, chThdEnqueueTimeoutS(c, q, timed)
        PROVE  Turns(k')
    BY <1>5, <2>2 DEF chThdEnqueueTimeoutS, Sleeps
  <2>3. CASE chThdSleepS(c)
    BY <1>5, <2>3 DEF chThdSleepS, Sleeps
  <2>4. CASE chThdYield(c)
    BY <1>i, <2>4, YieldTurns DEF chThdYield
  <2> QED BY <1>1, <1>2, <1>4, <1>6, <2>1, <2>2, <2>3, <2>4 DEF ThreadStep
<1>7. ASSUME NEW c \in Cores, IsrCall(c)
      PROVE  Turns(k')
  BY <1>1, <1>2, <1>3, <1>4, <1>7 DEF IsrCall
<1>8. ASSUME NEW c \in Cores, KernelIrq(c)
      PROVE  Turns(k')
  <2>1. CASE Tick(c)
    BY <1>i, <2>1, TickTurns DEF Tick
  <2>2. CASE Notified(c) \/ \E t \in Threads : Expire(c, t)
    <3>1. k' = NotifyIrq(k, c) \/ \E t \in Threads : k' = TimerDue(k, c, t)
      BY <2>2 DEF Notified, Expire
    <3> QED BY <1>i, <3>1, IrqTurns
  <2>3. CASE ExitIsr(c)
    BY <1>i, <2>3, IsrExitTurns DEF ExitIsr
  <2>4. CASE sch_wakeup(c)
    <3>1. CalledBack(k, c, k') /\ k' = Callback(k, c)
      BY <2>4, TimeoutRun
    <3>2. k.firing[c] \in Threads
      BY <3>1 DEF CalledBack
    <3> QED BY <1>i, <3>1, <3>2, CallbackTurns
  <2> QED BY <1>8, <2>1, <2>2, <2>3, <2>4 DEF KernelIrq
<1>9. CASE DequeueAllStep
  <2>1. PICK q \in Queues, c \in Cores : q = loop.queue /\ c = loop.core
    BY <1>9, Facts DEF DequeueAllStep, Loops
  <2>2. PICK t : t = Head(tqueue[q])
    OBVIOUS
  <2>3. tqueue[q] # <<>> /\ k' = ReadyWithMsg(k, c, t, "RESET")
    BY <1>9, <2>1, <2>2 DEF DequeueAllStep, chThdDoDequeueNextI
  <2> QED BY <1>q, <1>w, <2>2, <2>3
<1>10. CASE DequeueAllEnd
  <2>1. PICK c \in Cores : c = loop.core
    BY <1>10, Facts DEF DequeueAllEnd, Loops
  <2>2. k' = chSchRescheduleS(k, c) \/ k' = k
    BY <1>10, <2>1 DEF DequeueAllEnd
  <2> QED BY <1>i, <2>2, YieldTurns
<1> QED BY <1>6, <1>7, <1>8, <1>9, <1>10 DEF Next

\* A preempted thread that has used part of its quantum resumes before any
\* of its peers: sch_ready_ahead() is only used for a thread that a strictly
\* more important one displaces, and whoever waits starts a new quantum.
THEOREM KeepsTurn == Spec => []PreemptedKeepsTurn
<1>1. Init => Turns(k)
  <2> SUFFICES ASSUME Init PROVE Turns(k)
    OBVIOUS
  <2>1. Partial(k) = {} /\ \A c \in Cores : k.ready[c] = <<>>
    BY KernelAssumption DEF Init, KernelInit, Partial
  <2> QED BY <2>1 DEF Turns, First
<1>2. IInv /\ Turns(k) /\ [Next]_vars => Turns(k)'
  <2>1. CASE Next
    BY <2>1, NextTurns
  <2>2. CASE UNCHANGED vars
    BY <2>2 DEF vars
  <2> QED BY <2>1, <2>2
<1>3. IInv /\ Turns(k) => PreemptedKeepsTurn
  <2> SUFFICES ASSUME IInv, Turns(k), NEW c \in Cores,
                      NEW i \in DOMAIN k.ready[c], NEW j \in DOMAIN k.ready[c],
                      k.ticks[k.ready[c][i]] < Quantum,
                      k.prio[k.ready[c][j]] = k.prio[k.ready[c][i]],
                      k.ready[c][j] # k.ready[c][i]
               PROVE  i < j
    BY DEF PreemptedKeepsTurn
  <2>1. k.ready[c] \in Seq(Threads)
    BY Facts DEF KernelType
  <2>2. i \in 1 .. Len(k.ready[c]) /\ j \in 1 .. Len(k.ready[c]) /\ i # j /\ Len(k.ready[c]) \in Nat
    BY <2>1, LenProperties
  <2>3. k.ready[c][i] \in Partial(k)
    BY <2>1, <2>2 DEF Partial
  <2>4. j < i => <<k.ready[c][j], k.ready[c][i]>> \in Turn(k.prio, Partial(k))
    BY <2>2 DEF Turns, First
  <2>5. ~ (j < i)
    BY <2>3, <2>4 DEF Turn
  <2> QED BY <2>2, <2>5
<1> QED BY <1>1, <1>2, <1>3, Inductive, PTL DEF Spec
=============================================================================
