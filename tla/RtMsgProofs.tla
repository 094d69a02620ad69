---------------------------- MODULE RtMsgProofs ----------------------------
(***************************************************************************)
(* RtMsg: no sender is forgotten, what a receiver holds stays blocked on   *)
(* it, a send returns its own answer, and the kernel under the messages is *)
(* exact, for every number of cores, threads, priorities and answers.      *)
(***************************************************************************)
EXTENDS RtMsg, ChSchedProofs

\* The core whose order is restored at the end of the loop.
Busy(lp) == IF lp.op = "none" THEN {} ELSE {lp.core}

\* A thread inside a call waits for it, or has been woken; only threads that
\* wait for a message or sleep have timeouts, until they run again.
CallsOK(kk, cl) ==
    /\ \A t \in Threads :
          /\ kk.state[t] = "WTMSG" => cl[t] = "wait"
          /\ kk.state[t] = "SNDMSGQ" => cl[t] = "send"
          /\ cl[t] = "wait" => kk.state[t] \in {"WTMSG", "READY", "CURRENT"}
          /\ cl[t] = "send" => kk.state[t] \in {"SNDMSGQ", "READY", "CURRENT"}
    /\ \A t \in Pending(kk) : kk.state[t] \in {"WTMSG", "SLEEPING", "READY"}

\* A receiver with a message is awake, has been given senders of its queue
\* only, and finds one if it was woken by a sender.
ReceiversOK(kk, qu, cl, rc) ==
    \A t \in Threads :
        /\ qu[t] # <<>> => kk.state[t] \notin {"WTMSG", "FINAL"}
        /\ rc[t] \subseteq ToSet(qu[t])
        /\ (cl[t] = "wait" /\ kk.state[t] # "WTMSG" /\ kk.rdymsg[t] = "OK") => qu[t] # <<>>

AnswersOK(kk, cl, an) ==
    \A t \in Threads : (cl[t] = "send" /\ kk.state[t] # "SNDMSGQ") => kk.rdymsg[t] = an[t]

PartsOK(kk, qu, cl, rc, an) ==
    CallsOK(kk, cl) /\ ReceiversOK(kk, qu, cl, rc) /\ AnswersOK(kk, cl, an)

\* The call a running thread is inside of when it goes to sleep in ns.
CallOf(ns) == IF ns = "SNDMSGQ" THEN "send" ELSE IF ns = "WTMSG" THEN "wait" ELSE "none"

\* The thread that executes the loop runs and is inside no other call; no
\* core is finishing a wait.
LoopOK(kk, cl, lp) ==
    lp.op # "none" =>
        /\ InThread(kk, lp.core) /\ cl[kk.current[lp.core]] = "none"
        /\ \A c \in Cores : cl[kk.current[c]] # "wait"

IInv ==
    /\ TypeOK
    /\ Sound(k, Busy(loop))
    /\ QueuesExact(k, msgqueue, wtobj, Threads, "SNDMSGQ", MsgPriority)
    /\ CallsOK(k, call)
    /\ ReceiversOK(k, msgqueue, call, received)
    /\ AnswersOK(k, call, answer)
    /\ LoopOK(k, call, loop)

-----------------------------------------------------------------------------
(* What the calls of the kernel do to the parts of the invariant             *)

\* No thread begins or stops waiting.
LEMMA StillParts ==
    ASSUME NEW kk, NEW r, NEW X, Sound(r, X), Still(kk, r), NEW qu, NEW wt, NEW cl, NEW rc, NEW an,
           QueuesExact(kk, qu, wt, Threads, "SNDMSGQ", MsgPriority),
           CallsOK(kk, cl), ReceiversOK(kk, qu, cl, rc), AnswersOK(kk, cl, an)
    PROVE  /\ QueuesExact(r, qu, wt, Threads, "SNDMSGQ", MsgPriority)
           /\ CallsOK(r, cl) /\ ReceiversOK(r, qu, cl, rc) /\ AnswersOK(r, cl, an)
<1>1. Others(kk, r, {}) /\ r.rdymsg = kk.rdymsg /\ Pending(r) \subseteq Pending(kk)
  BY DEF Still
<1>2. \A u \in Pending(r) : u \in Threads /\ r.state[u] \in TimedStates
  BY SoundFacts DEF Pending
<1>3. \A u \in Threads :
         \/ r.state[u] = kk.state[u]
         \/ kk.state[u] \in {"READY", "CURRENT"} /\ r.state[u] \in {"READY", "CURRENT"}
  BY <1>1 DEF Others
<1>4. QueuesExact(r, qu, wt, Threads, "SNDMSGQ", MsgPriority)
  BY <1>1, QueueSame
<1>5. CallsOK(r, cl)
  BY <1>1, <1>2, <1>3 DEF CallsOK, TimedStates
<1>6. ReceiversOK(r, qu, cl, rc)
  BY <1>1, <1>3 DEF ReceiversOK
<1>7. AnswersOK(r, cl, an)
  BY <1>1, <1>3 DEF AnswersOK
<1> QED BY <1>4, <1>5, <1>6, <1>7

\* A thread other than t, when t is woken or goes to sleep.
LEMMA OtherThreads ==
    ASSUME NEW kk, NEW r, NEW t, NEW m,
           Roused(kk, r, t, m) \/ \E ns : Rested(kk, r, t, ns)
    PROVE  \A u \in Threads \ {t} :
              \/ r.state[u] = kk.state[u]
              \/ kk.state[u] \in {"READY", "CURRENT"} /\ r.state[u] \in {"READY", "CURRENT"}
BY DEF Roused, Rested, Woken, Asleep, Others

\* t stops waiting: the calls, and the answers when the answer is recorded.
LEMMA RousedCalls ==
    ASSUME NEW kk, NEW r, NEW X, Sound(kk, X), NEW Y, Sound(r, Y), NEW t \in Threads, NEW m,
           Roused(kk, r, t, m),
           kk.state[t] \notin {"READY", "CURRENT"}, NEW cl, NEW an, NEW na,
           CallsOK(kk, cl), AnswersOK(kk, cl, an),
           \A u \in Threads \ {t} : na[u] = an[u],
           na[t] = m \/ kk.state[t] # "SNDMSGQ"
    PROVE  CallsOK(r, cl) /\ AnswersOK(r, cl, na)
<1>1. /\ r.state[t] \in {"READY", "CURRENT"} /\ Pending(r) \subseteq Pending(kk)
      /\ r.rdymsg = [kk.rdymsg EXCEPT ![t] = m]
  BY DEF Roused, Woken
<1>2. \A u \in Pending(r) : u \in Threads /\ r.state[u] \in TimedStates
  BY SoundFacts DEF Pending
<1>3. \A u \in Threads \ {t} :
         \/ r.state[u] = kk.state[u]
         \/ kk.state[u] \in {"READY", "CURRENT"} /\ r.state[u] \in {"READY", "CURRENT"}
  BY OtherThreads
<1>4. kk.rdymsg \in [Threads -> Messages]
  BY SoundFacts
<1>5. \A u \in Threads : r.rdymsg[u] = IF u = t THEN m ELSE kk.rdymsg[u]
  BY <1>1, <1>4
<1>6. CallsOK(r, cl)
  <2>1. \A u \in Threads :
          /\ r.state[u] = "WTMSG" => cl[u] = "wait"
          /\ r.state[u] = "SNDMSGQ" => cl[u] = "send"
          /\ cl[u] = "wait" => r.state[u] \in {"WTMSG", "READY", "CURRENT"}
          /\ cl[u] = "send" => r.state[u] \in {"SNDMSGQ", "READY", "CURRENT"}
    BY <1>1, <1>3 DEF CallsOK
  <2>2. \A u \in Pending(r) : r.state[u] \in {"WTMSG", "SLEEPING", "READY"}
    BY <1>1, <1>2, <1>3 DEF CallsOK, TimedStates
  <2> QED BY <2>1, <2>2 DEF CallsOK
<1>7. ASSUME NEW u \in Threads, cl[u] = "send", r.state[u] # "SNDMSGQ"
      PROVE  r.rdymsg[u] = na[u]
  <2>1. CASE u = t
    <3>1. kk.state[t] = "SNDMSGQ"
      BY <1>7, <2>1 DEF CallsOK
    <3> QED BY <1>5, <2>1, <3>1
  <2>2. CASE u # t
    <3>1. kk.state[u] # "SNDMSGQ"
      BY <1>3, <1>7, <2>2
    <3> QED BY <1>5, <1>7, <2>2, <3>1 DEF AnswersOK
  <2> QED BY <2>1, <2>2
<1> QED BY <1>6, <1>7 DEF AnswersOK

\* The running thread t begins to wait.
LEMMA RestedParts ==
    ASSUME NEW kk, NEW r, NEW Y, Sound(r, Y), NEW t \in Threads,
           NEW ns \in {"SNDMSGQ", "WTMSG", "SLEEPING", "FINAL"},
           Rested(kk, r, t, ns), kk.state[t] = "CURRENT",
           ns \in {"SNDMSGQ", "FINAL"} => Untimed(kk, r),
           NEW qu, NEW rc, NEW an, NEW cl, DOMAIN cl = Threads, PartsOK(kk, qu, cl, rc, an),
           ns \in {"WTMSG", "FINAL"} => qu[t] = <<>>
    PROVE  PartsOK(r, qu, [cl EXCEPT ![t] = CallOf(ns)], rc, an)
<1> DEFINE nc == [cl EXCEPT ![t] = CallOf(ns)]
<1>0. CallsOK(kk, cl) /\ ReceiversOK(kk, qu, cl, rc) /\ AnswersOK(kk, cl, an)
  BY DEF PartsOK
<1>x. PICK x : x = CallOf(ns)
  OBVIOUS
<1>1. /\ r.state[t] = ns /\ r.rdymsg = kk.rdymsg
      /\ Pending(r) \subseteq Pending(kk) \union {t}
      /\ ns \in {"SNDMSGQ", "FINAL"} => Pending(r) \subseteq Pending(kk)
  BY DEF Rested, Asleep, Untimed
<1>2. \A u \in Pending(r) : u \in Threads /\ r.state[u] \in TimedStates
  BY SoundFacts DEF Pending
<1>3. \A u \in Threads \ {t} :
         \/ r.state[u] = kk.state[u]
         \/ kk.state[u] \in {"READY", "CURRENT"} /\ r.state[u] \in {"READY", "CURRENT"}
  BY OtherThreads
<1>4. \A u \in Threads : nc[u] = IF u = t THEN x ELSE cl[u]
  BY <1>x
<1>5. \/ x = "send" /\ ns = "SNDMSGQ"
      \/ x = "wait" /\ ns = "WTMSG"
      \/ x = "none" /\ ns \in {"SLEEPING", "FINAL"}
  BY <1>x DEF CallOf
<1>6. \A u \in Threads :
          /\ r.state[u] = "WTMSG" => nc[u] = "wait"
          /\ r.state[u] = "SNDMSGQ" => nc[u] = "send"
          /\ nc[u] = "wait" => r.state[u] \in {"WTMSG", "READY", "CURRENT"}
          /\ nc[u] = "send" => r.state[u] \in {"SNDMSGQ", "READY", "CURRENT"}
  BY <1>0, <1>1, <1>3, <1>4, <1>5 DEF CallsOK
<1>7. ASSUME NEW u \in Pending(r) PROVE r.state[u] \in {"WTMSG", "SLEEPING", "READY"}
  <2>1. CASE u = t
    <3>1. t \notin Pending(kk)
      BY <1>0 DEF CallsOK
    <3> QED BY <1>1, <1>7, <2>1, <3>1
  <2>2. CASE u # t
    <3>1. u \in Pending(kk) /\ u \in Threads /\ r.state[u] \in TimedStates
      BY <1>1, <1>2, <1>7, <2>2
    <3> QED BY <1>0, <1>3, <2>2, <3>1 DEF CallsOK, TimedStates
  <2> QED BY <2>1, <2>2
<1>8. CallsOK(r, nc)
  BY <1>6, <1>7 DEF CallsOK
<1>9. ReceiversOK(r, qu, nc, rc)
  BY <1>0, <1>1, <1>3, <1>4, <1>5 DEF ReceiversOK
<1>10. AnswersOK(r, nc, an)
  BY <1>0, <1>1, <1>3, <1>4, <1>5 DEF AnswersOK
<1> QED BY <1>8, <1>9, <1>10 DEF PartsOK

\* A sender is answered by the running thread s: it leaves the queue.
LEMMA AnsweredReceivers ==
    ASSUME NEW kk, NEW r, NEW X, Sound(kk, X), NEW s \in Threads, NEW t \in Threads, NEW m,
           Roused(kk, r, t, m), kk.state[t] = "SNDMSGQ", kk.state[s] = "CURRENT",
           NEW qu, NEW rc, NEW cl, cl[s] = "none", cl[t] = "send", ReceiversOK(kk, qu, cl, rc),
           NEW q, ToSet(q) = ToSet(qu[s]) \ {t}, qu \in [Threads -> Seq(Threads)],
           rc \in [Threads -> SUBSET Threads]
    PROVE  ReceiversOK(r, [qu EXCEPT ![s] = q], cl, [rc EXCEPT ![s] = @ \ {t}])
<1>1. /\ r.state[t] \in {"READY", "CURRENT"} /\ r.rdymsg = [kk.rdymsg EXCEPT ![t] = m]
  BY DEF Roused, Woken
<1>2. \A u \in Threads \ {t} :
         \/ r.state[u] = kk.state[u]
         \/ kk.state[u] \in {"READY", "CURRENT"} /\ r.state[u] \in {"READY", "CURRENT"}
  BY OtherThreads
<1>3. kk.rdymsg \in [Threads -> Messages]
  BY SoundFacts
<1>4. \A u \in Threads \ {t} : r.rdymsg[u] = kk.rdymsg[u]
  BY <1>1, <1>3
<1>5. /\ \A u \in Threads \ {s} : [qu EXCEPT ![s] = q][u] = qu[u] /\ [rc EXCEPT ![s] = @ \ {t}][u] = rc[u]
      /\ [qu EXCEPT ![s] = q][s] = q /\ [rc EXCEPT ![s] = @ \ {t}][s] = rc[s] \ {t}
  OBVIOUS
<1>6. ASSUME NEW u \in Threads
      PROVE  /\ [qu EXCEPT ![s] = q][u] # <<>> => r.state[u] \notin {"WTMSG", "FINAL"}
             /\ [rc EXCEPT ![s] = @ \ {t}][u] \subseteq ToSet([qu EXCEPT ![s] = q][u])
             /\ (cl[u] = "wait" /\ r.state[u] # "WTMSG" /\ r.rdymsg[u] = "OK")
                    => [qu EXCEPT ![s] = q][u] # <<>>
  <2>1. CASE u = s
    <3>1. r.state[s] \in {"READY", "CURRENT"}
      BY <1>1, <1>2
    <3>2. rc[s] \ {t} \subseteq ToSet(q)
      BY DEF ReceiversOK
    <3> QED BY <1>5, <2>1, <3>1, <3>2
  <2>2. CASE u = t
    BY <1>1, <1>5, <2>2 DEF ReceiversOK
  <2>3. CASE u # t /\ u # s
    BY <1>2, <1>4, <1>5, <2>3 DEF ReceiversOK
  <2> QED BY <2>1, <2>2, <2>3
<1> QED BY <1>6 DEF ReceiversOK

\* A thread that is no sender is woken, by a sender that has arrived if it
\* waits for a message and is not told of a timeout.
LEMMA WokenReceivers ==
    ASSUME NEW kk, NEW r, NEW X, Sound(kk, X), NEW t \in Threads, NEW m,
           Roused(kk, r, t, m), NEW qu, NEW rc, NEW cl, ReceiversOK(kk, qu, cl, rc), NEW nq,
           \A u \in Threads \ {t} : nq[u] = qu[u], ToSet(qu[t]) \subseteq ToSet(nq[t]),
           (cl[t] = "wait" /\ m = "OK") => nq[t] # <<>>
    PROVE  ReceiversOK(r, nq, cl, rc)
<1>1. /\ r.state[t] \in {"READY", "CURRENT"} /\ r.rdymsg = [kk.rdymsg EXCEPT ![t] = m]
  BY DEF Roused, Woken
<1>2. \A u \in Threads \ {t} :
         \/ r.state[u] = kk.state[u]
         \/ kk.state[u] \in {"READY", "CURRENT"} /\ r.state[u] \in {"READY", "CURRENT"}
  BY OtherThreads
<1>3. kk.rdymsg \in [Threads -> Messages]
  BY SoundFacts
<1>4. \A u \in Threads : r.rdymsg[u] = IF u = t THEN m ELSE kk.rdymsg[u]
  BY <1>1, <1>3
<1>5. ASSUME NEW u \in Threads
      PROVE  /\ nq[u] # <<>> => r.state[u] \notin {"WTMSG", "FINAL"}
             /\ rc[u] \subseteq ToSet(nq[u])
             /\ (cl[u] = "wait" /\ r.state[u] # "WTMSG" /\ r.rdymsg[u] = "OK") => nq[u] # <<>>
  <2>1. CASE u = t
    BY <1>1, <1>4, <2>1 DEF ReceiversOK
  <2>2. CASE u # t
    BY <1>2, <1>4, <2>2 DEF ReceiversOK
  <2> QED BY <2>1, <2>2
<1> QED BY <1>5 DEF ReceiversOK

-----------------------------------------------------------------------------
(* The steps                                                                 *)

\* The parts of the invariant, as the steps use them.
LEMMA Facts ==
    ASSUME IInv
    PROVE  /\ k \in KernelType /\ msgqueue \in [Threads -> Seq(Threads)]
           /\ wtobj \in [Threads -> Threads \union {NoThread}]
           /\ call \in [Threads -> {"none", "send", "wait"}]
           /\ received \in [Threads -> SUBSET Threads]
           /\ answer \in [Threads -> Messages \union {"none"}]
           /\ QueuesExact(k, msgqueue, wtobj, Threads, "SNDMSGQ", MsgPriority)
           /\ CallsOK(k, call) /\ ReceiversOK(k, msgqueue, call, received)
           /\ AnswersOK(k, call, answer) /\ LoopOK(k, call, loop)
           /\ Sound(k, Busy(loop)) /\ loop \in Loops \union {NoLoop}
           /\ \A c \in Cores : k.current[c] \in Threads /\ k.state[k.current[c]] = "CURRENT"
<1>1. \A c \in Cores : k.current[c] \in Threads /\ k.state[k.current[c]] = "CURRENT"
  BY SoundFacts DEF IInv
<1> QED BY <1>1 DEF IInv, TypeOK

\* Between two calls no core is in disorder.
LEMMA Quiet ==
    ASSUME IInv, loop = NoLoop
    PROVE  Sound(k, {}) /\ Busy(loop) = {}
<1>1. Busy(loop) = {}
  BY DEF Busy, NoLoop
<1>2. Sound(k, Busy(loop))
  BY Facts
<1> QED BY <1>1, <1>2

\* What a step outside the loop has to establish.
LEMMA Pieces ==
    ASSUME Sound(k', {}), loop' = NoLoop,
           QueuesExact(k', msgqueue', wtobj', Threads, "SNDMSGQ", MsgPriority),
           CallsOK(k', call'), ReceiversOK(k', msgqueue', call', received'),
           AnswersOK(k', call', answer'),
           wtobj' \in [Threads -> Threads \union {NoThread}],
           call' \in [Threads -> {"none", "send", "wait"}],
           received' \in [Threads -> SUBSET Threads],
           answer' \in [Threads -> Messages \union {"none"}]
    PROVE  IInv'
<1>1. k' \in KernelType
  BY SoundFacts
<1>2. Busy(loop') = {} /\ LoopOK(k', call', loop')
  BY DEF Busy, NoLoop, LoopOK
<1>3. msgqueue' \in [Threads -> Seq(Threads)]
  BY DEF QueuesExact
<1> QED BY <1>1, <1>2, <1>3 DEF IInv, TypeOK

LEMMA CallerFacts ==
    ASSUME IInv, NEW c \in Cores, Caller(c)
    PROVE  /\ loop = NoLoop /\ InThread(k, c) /\ c \notin k.isr /\ Sound(k, {})
           /\ k.current[c] \in Threads /\ k.state[k.current[c]] = "CURRENT"
           /\ call[k.current[c]] = "none"
<1>1. loop = NoLoop /\ InThread(k, c) /\ c \notin k.isr /\ call[k.current[c]] = "none"
  BY DEF Caller, Unlocked, InThread
<1> QED BY <1>1, Quiet, Facts

\* Steps that wake nobody and change no object of the messages.
LEMMA StillInv ==
    ASSUME IInv, loop = NoLoop, Sound(k', {}), Still(k, k'), UNCHANGED objs
    PROVE  IInv'
<1>1. UNCHANGED <<msgqueue, wtobj, call, received, loop, answer>>
  BY DEF objs
<1>2. QueuesExact(k', msgqueue', wtobj', Threads, "SNDMSGQ", MsgPriority)
  BY <1>1, StillParts, Facts
<1>3. CallsOK(k', call')
  BY <1>1, StillParts, Facts
<1>4. ReceiversOK(k', msgqueue', call', received')
  BY <1>1, StillParts, Facts
<1>5. AnswersOK(k', call', answer')
  BY <1>1, StillParts, Facts
<1> QED BY <1>1, <1>2, <1>3, <1>4, <1>5, Pieces, Facts

\* Interrupts and expiries.
LEMMA IrqInv ==
    ASSUME IInv, NEW c \in Cores,
           Notified(c) \/ ExitIsr(c) \/ \E t \in Threads : Expire(c, t)
    PROVE  IInv'
<1>1. loop = NoLoop /\ UNCHANGED objs
  BY DEF Notified, ExitIsr, Expire, Unlocked
<1>2. Sound(k, {})
  BY <1>1, Quiet
<1>3. \/ k' = NotifyIrq(k, c)
      \/ \E t \in Threads : TimerDueEnabled(k, c, t) /\ k' = TimerDue(k, c, t)
      \/ IsrExitEnabled(k, c) /\ k' = IsrExit(k, c)
  BY DEF Notified, ExitIsr, Expire
<1>4. Sound(k', {})
  BY <1>2, <1>3, RunIrq
<1>5. Still(k, k')
  BY <1>2, <1>3, RunIrq
<1> QED BY <1>1, <1>4, <1>5, StillInv

\* A thread that is no sender is woken and no message has arrived for it.
LEMMA RousedInv ==
    ASSUME IInv, loop = NoLoop, Sound(k', {}), NEW t \in Threads, NEW m, Roused(k, k', t, m),
           k.state[t] \notin {"READY", "CURRENT", "SNDMSGQ"},
           (k.state[t] = "WTMSG") => m # "OK", UNCHANGED objs
    PROVE  IInv'
<1>1. UNCHANGED <<msgqueue, wtobj, call, received, loop, answer>>
  BY DEF objs
<1>2. Sound(k, {})
  BY Quiet
<1>3. Others(k, k', {t}) /\ k'.state[t] \in {"READY", "CURRENT"}
  BY DEF Roused, Woken
<1>4. QueuesExact(k', msgqueue', wtobj', Threads, "SNDMSGQ", MsgPriority)
  BY <1>1, <1>3, QueueSame, Facts
<1>5. CallsOK(k', call') /\ AnswersOK(k', call', answer')
  <2>1. CallsOK(k, call) /\ AnswersOK(k, call, answer)
    BY Facts
  <2>2. CallsOK(k', call) /\ AnswersOK(k', call, answer)
    BY <1>2, <2>1, RousedCalls
  <2> QED BY <1>1, <2>2
<1>6. ReceiversOK(k', msgqueue', call', received')
  <2>1. (call[t] = "wait" /\ m = "OK") => msgqueue[t] # <<>>
    BY Facts DEF CallsOK
  <2>2. ReceiversOK(k, msgqueue, call, received)
    BY Facts
  <2>3. ReceiversOK(k', msgqueue, call, received)
    BY <1>2, <2>1, <2>2, WokenReceivers
  <2> QED BY <1>1, <2>3
<1> QED BY <1>1, <1>4, <1>5, <1>6, Pieces, Facts

\* A thread is started.
LEMMA StartInv ==
    ASSUME IInv, NEW c \in Cores, NEW t \in UserThreads, chThdStartI(c, t)
    PROVE  IInv'
<1>1. /\ loop = NoLoop /\ UNCHANGED objs /\ k.state[t] = "WTSTART" /\ t \in Threads
      /\ k' = ReadyWithMsg(EnterIsr(k, c), c, t, "OK") /\ "OK" \in Messages
  BY KernelAssumption DEF chThdStartI, Unlocked, UserThreads
<1>2. Sound(k, {})
  BY <1>1, Quiet
<1>3. Sound(k', {})
  BY <1>1, <1>2, RunReadyI
<1>4. Roused(k, k', t, "OK")
  BY <1>1, <1>2, RunReadyI
<1> QED BY <1>1, <1>3, <1>4, RousedInv

\* The timeout callback: the thread is no sender.
LEMMA TimeoutInv ==
    ASSUME IInv, NEW c \in Cores, sch_wakeup(c)
    PROVE  IInv'
<1>1. PICK t : t = k.firing[c]
  OBVIOUS
<1>2. loop = NoLoop /\ UNCHANGED objs /\ Sound(k, {})
  BY Quiet DEF sch_wakeup, Unlocked
<1>a. k.firing[c] # NoThread /\ k' = Callback(k, c)
  BY DEF sch_wakeup, Callback
<1>3. CalledBack(k, c, k')
  BY <1>2, <1>a, RunCallback
<1>4. t \in Threads /\ t \in Pending(k) /\ Sound(k', {})
  BY <1>1, <1>3 DEF CalledBack
<1>5. CASE AlreadyReady(k, t)
  <2>1. Still(k, k')
    BY <1>1, <1>3, <1>5 DEF CalledBack
  <2> QED BY <1>2, <1>4, <2>1, StillInv
<1>6. CASE ~ AlreadyReady(k, t)
  <2>1. k.state[t] \in {"WTMSG", "SLEEPING"}
    BY <1>4, <1>6, Facts DEF CallsOK, AlreadyReady
  <2>2. Roused(k, k', t, "TIMEOUT")
    BY <1>1, <1>3, <1>6 DEF CalledBack
  <2> QED BY <1>2, <1>4, <2>1, <2>2, RousedInv
<1> QED BY <1>5, <1>6

\* A sender arrives: the receiver, if it waits, is woken and finds it.
LEMMA SendInv ==
    ASSUME IInv, NEW c \in Cores, NEW tp \in UserThreads, chMsgSend(c, tp)
    PROVE  IInv'
<1>1. PICK t, q, k1 : /\ t = k.current[c] /\ q = msg_insert(msgqueue[tp], t)
                      /\ k1 = WakeReceiver(c, tp)
  OBVIOUS
<1>2. /\ Caller(c) /\ tp # t /\ k.state[tp] # "FINAL" /\ tp \in Threads
      /\ k' = chSchGoSleepS(k1, c, "SNDMSGQ")
      /\ UNCHANGED <<received, loop, answer>>
      /\ wtobj' = [wtobj EXCEPT ![t] = tp] /\ call' = [call EXCEPT ![t] = "send"]
  BY <1>1 DEF chMsgSend, UserThreads
<1>3. /\ loop = NoLoop /\ InThread(k, c) /\ Sound(k, {}) /\ t \in Threads
      /\ k.state[t] = "CURRENT" /\ call[t] = "none"
  BY <1>1, <1>2, CallerFacts
<1>4. QueueMore(k, msgqueue[tp], q, t, MsgPriority)
  <2>1. /\ QueuesExact(k, msgqueue, wtobj, Threads, "SNDMSGQ", MsgPriority) /\ k \in KernelType
        /\ MsgPriority \in BOOLEAN /\ k.state[t] # "SNDMSGQ"
    BY <1>3, Facts, MsgAssumption
  <2>2. q = IF MsgPriority THEN ch_sch_prio_insert(msgqueue[tp], t, k.prio)
            ELSE ch_queue_insert(msgqueue[tp], t)
    BY <1>1 DEF msg_insert
  <2> QED BY <1>2, <1>3, <2>1, <2>2, QueueJoin
<1>5. PICK nq : nq = [msgqueue EXCEPT ![tp] = q]
  OBVIOUS
<1>6. /\ msgqueue' = nq /\ nq \in [Threads -> Seq(Threads)] /\ nq[tp] = q /\ nq[tp] # <<>>
      /\ \A u \in Threads \ {tp} : nq[u] = msgqueue[u]
  <2>1. msgqueue' = nq
    BY <1>1, <1>5 DEF chMsgSend
  <2>2. msgqueue \in [Threads -> Seq(Threads)]
    BY Facts
  <2>3. q # <<>>
    BY <1>4 DEF ToSet, QueueMore
  <2> QED BY <1>2, <1>4, <1>5, <2>1, <2>2, <2>3 DEF QueueMore
\* The receiver.
<1>7. /\ Sound(k1, {c}) /\ InThread(k1, c) /\ k1.current[c] = t /\ k1.state[t] = "CURRENT"
      /\ QueuesExact(k1, msgqueue, wtobj, Threads, "SNDMSGQ", MsgPriority)
      /\ CallsOK(k1, call) /\ ReceiversOK(k1, nq, call, received) /\ AnswersOK(k1, call, answer)
      /\ k1.prio = k.prio
  <2>1. CASE k.state[tp] = "WTMSG"
    <3>1. k1 = ReadyWithMsg(k, c, tp, "OK") /\ "OK" \in Messages
      BY <1>1, <2>1, KernelAssumption DEF WakeReceiver
    <3>2. Sound(k1, {} \union {c})
      BY <1>2, <1>3, <2>1, <3>1, RunReady
    <3>3. Roused(k, k1, tp, "OK")
      BY <1>2, <1>3, <2>1, <3>1, RunReady
    <3>a. NoSwitch(k, k1)
      BY <1>2, <1>3, <2>1, <3>1, RunReady
    <3>4. Sound(k1, {c})
      BY <3>2
    <3>5. InThread(k1, c) /\ k1.current[c] = t /\ k1.state[t] = "CURRENT"
      BY <1>1, <1>3, <3>a, <3>4, SoundFacts DEF InThread, NoSwitch
    <3>6. Others(k, k1, {tp}) /\ k1.state[tp] \in {"READY", "CURRENT"}
      BY <3>3 DEF Roused, Woken
    <3>7. QueuesExact(k1, msgqueue, wtobj, Threads, "SNDMSGQ", MsgPriority)
      BY <2>1, <3>6, QueueSame, Facts
    <3>8. CallsOK(k1, call) /\ AnswersOK(k1, call, answer)
      <4>1. CallsOK(k, call) /\ AnswersOK(k, call, answer)
        BY Facts
      <4> QED BY <1>2, <1>3, <2>1, <3>3, <3>4, <4>1, RousedCalls
    <3>9. ReceiversOK(k1, nq, call, received)
      <4>1. /\ ReceiversOK(k, msgqueue, call, received) /\ ToSet(msgqueue[tp]) \subseteq ToSet(nq[tp])
            /\ \A u \in Threads \ {tp} : nq[u] = msgqueue[u]
            /\ nq[tp] # <<>> /\ Sound(k, {}) /\ tp \in Threads
        BY <1>2, <1>3, <1>4, <1>6, Facts DEF QueueMore
      <4> QED BY <3>3, <4>1, WokenReceivers
    <3> QED BY <3>4, <3>5, <3>6, <3>7, <3>8, <3>9 DEF Others
  <2>2. CASE k.state[tp] # "WTMSG"
    <3>1. k1 = k
      BY <1>1, <2>2 DEF WakeReceiver
    <3>2. Sound(k, {c})
      BY <1>3 DEF Sound, OrderedBut
    <3>3. ReceiversOK(k, nq, call, received)
      BY <1>2, <1>4, <1>6, <2>2, Facts DEF ReceiversOK, QueueMore
    <3> QED BY <1>1, <1>3, <3>1, <3>2, <3>3, Facts
  <2> QED BY <2>1, <2>2
\* The sender.
<1>8. "SNDMSGQ" \in TimedStates \ {"READY"}
  BY DEF TimedStates, States
<1>9. Sound(k', {})
  BY <1>2, <1>7, <1>8, RunSleepS
<1>10. Rested(k1, k', t, "SNDMSGQ")
  BY <1>2, <1>7, <1>8, RunSleepS
<1>a. Untimed(k1, k')
  BY <1>2, <1>7, <1>8, RunSleepS
<1>11. Asleep(k1, k', t, "SNDMSGQ")
  BY <1>10 DEF Rested
<1>12. QueuesExact(k', msgqueue', wtobj', Threads, "SNDMSGQ", MsgPriority)
  <2>1. QueueMore(k1, msgqueue[tp], q, t, MsgPriority) /\ k1.state[t] # "SNDMSGQ"
    BY <1>4, <1>7 DEF QueueMore
  <2>2. QueuesExact(k', [msgqueue EXCEPT ![tp] = q], [wtobj EXCEPT ![t] = tp], Threads, "SNDMSGQ", MsgPriority)
    BY <1>2, <1>3, <1>7, <1>11, <2>1, QueueIn
  <2> QED BY <1>2, <1>5, <1>6, <2>2
<1>13. CallsOK(k', call') /\ ReceiversOK(k', msgqueue', call', received') /\ AnswersOK(k', call', answer')
  <2>1. DOMAIN call = Threads
    BY Facts
  <2>2. PartsOK(k1, nq, call, received, answer) /\ call' = [call EXCEPT ![t] = CallOf("SNDMSGQ")]
    BY <1>2, <1>7 DEF PartsOK, CallOf
  <2>3. PartsOK(k', nq, call', received, answer)
    <3>1. /\ "SNDMSGQ" \in {"SNDMSGQ", "WTMSG", "SLEEPING", "FINAL"} 
          /\ "SNDMSGQ" \in {"WTMSG", "FINAL"} => nq[t] = <<>>
          /\ "SNDMSGQ" \in {"SNDMSGQ", "FINAL"} => Untimed(k1, k')
      BY <1>a
    <3>2. k1.state[t] = "CURRENT" /\ t \in Threads
      BY <1>3, <1>7
    <3> QED BY <1>9, <1>10, <2>1, <2>2, <3>1, <3>2, RestedParts
  <2> QED BY <1>2, <1>6, <2>3 DEF PartsOK
<1>14. /\ wtobj' \in [Threads -> Threads \union {NoThread}]
       /\ call' \in [Threads -> {"none", "send", "wait"}]
  BY <1>2, <1>3, Facts
<1>15. received' \in [Threads -> SUBSET Threads] /\ answer' \in [Threads -> Messages \union {"none"}]
  BY <1>2, Facts
<1> QED BY <1>2, <1>3, <1>9, <1>12, <1>13, <1>14, <1>15, Pieces

\* Steps of the running thread that leave the kernel alone: the end of a send
\* or of a wait, and a poll.
LEMMA QuietInv ==
    ASSUME IInv, loop = NoLoop, UNCHANGED <<k, msgqueue, wtobj, loop>>, NEW t \in Threads,
           k.state[t] = "CURRENT", call' = [call EXCEPT ![t] = "none"],
           \/ received' = received
           \/ msgqueue[t] # <<>> /\ received' = [received EXCEPT ![t] = @ \union {Head(msgqueue[t])}],
           \/ answer' = answer
           \/ answer' = [answer EXCEPT ![t] = "none"]
    PROVE  IInv'
<1>1. Sound(k, {})
  BY Quiet
<1>2. call' \in [Threads -> {"none", "send", "wait"}] /\ \A u \in Threads : call'[u] = IF u = t THEN "none" ELSE call[u]
  BY Facts
<1>3. CallsOK(k', call')
  BY <1>2, Facts DEF CallsOK
<1>4. answer' \in [Threads -> Messages \union {"none"}] /\ \A u \in Threads \ {t} : answer'[u] = answer[u]
  <2>1. answer \in [Threads -> Messages \union {"none"}]
    BY Facts
  <2>2. CASE answer' = answer
    BY <2>1, <2>2
  <2>3. CASE answer' = [answer EXCEPT ![t] = "none"]
    BY <2>1, <2>3
  <2> QED BY <2>2, <2>3
<1>5. AnswersOK(k', call', answer')
  BY <1>2, <1>4, Facts DEF AnswersOK
<1>6. msgqueue[t] # <<>> => Head(msgqueue[t]) \in ToSet(msgqueue[t]) /\ Head(msgqueue[t]) \in Threads
  <2>1. msgqueue[t] \in Seq(Threads) /\ NoDuplicates(msgqueue[t]) /\ ToSet(msgqueue[t]) \subseteq Threads
    BY Facts DEF QueuesExact
  <2> QED BY <2>1, FifoRemoveSet
<1>7. received' \in [Threads -> SUBSET Threads] /\ \A u \in Threads : received'[u] \subseteq ToSet(msgqueue[u])
  <2>1. received \in [Threads -> SUBSET Threads] /\ \A u \in Threads : received[u] \subseteq ToSet(msgqueue[u])
    BY Facts DEF ReceiversOK
  <2>2. CASE received' = received
    BY <2>1, <2>2
  <2>3. CASE msgqueue[t] # <<>> /\ received' = [received EXCEPT ![t] = @ \union {Head(msgqueue[t])}]
    BY <1>6, <2>1, <2>3
  <2> QED BY <2>2, <2>3
<1>8. ReceiversOK(k', msgqueue', call', received')
  BY <1>2, <1>7, Facts DEF ReceiversOK
<1> QED BY <1>1, <1>2, <1>3, <1>4, <1>5, <1>7, <1>8, Pieces, Facts

LEMMA ReturnInv ==
    ASSUME IInv, NEW c \in Cores, SendReturn(c) \/ chMsgPollS(c) \/ WaitReturn(c)
    PROVE  IInv'
<1>1. k.current[c] \in Threads /\ k.state[k.current[c]] = "CURRENT"
  BY Facts
<1>2. CASE SendReturn(c)
  <2>1. /\ loop = NoLoop /\ UNCHANGED <<k, msgqueue, wtobj, loop>> /\ received' = received
        /\ call' = [call EXCEPT ![k.current[c]] = "none"]
        /\ answer' = [answer EXCEPT ![k.current[c]] = "none"]
    BY <1>2 DEF SendReturn, Unlocked
  <2> QED BY <1>1, <2>1, QuietInv
<1>3. CASE chMsgPollS(c)
  <2>1. /\ loop = NoLoop /\ UNCHANGED <<k, msgqueue, wtobj, loop>> /\ answer' = answer
        /\ call' = call /\ call[k.current[c]] = "none" /\ msgqueue[k.current[c]] # <<>>
        /\ received' = [received EXCEPT ![k.current[c]] = @ \union {Head(msgqueue[k.current[c]])}]
    BY <1>3 DEF chMsgPollS, Caller, Unlocked, Receive, chMsgIsPendingI
  <2>2. call' = [call EXCEPT ![k.current[c]] = "none"]
    BY <2>1, Facts
  <2> QED BY <1>1, <2>1, <2>2, QuietInv
<1>4. CASE WaitReturn(c)
  <2>1. /\ UNCHANGED <<k, msgqueue, wtobj, loop>> /\ answer' = answer /\ call[k.current[c]] = "wait"
        /\ call' = [call EXCEPT ![k.current[c]] = "none"]
        /\ \/ received' = received
           \/ /\ k.rdymsg[k.current[c]] = "OK"
              /\ received' = [received EXCEPT ![k.current[c]] = @ \union {Head(msgqueue[k.current[c]])}]
    BY <1>4 DEF WaitReturn, Resuming, Receive
  <2>3. loop = NoLoop
    BY <2>1, Facts DEF LoopOK, Loops
  <2>2. k.rdymsg[k.current[c]] = "OK" => msgqueue[k.current[c]] # <<>>
    BY <1>1, <2>1, Facts DEF ReceiversOK
  <2> QED BY <1>1, <2>1, <2>2, <2>3, QuietInv
<1> QED BY <1>2, <1>3, <1>4

\* The running thread goes to sleep, to wait for a message or for a while.
Sleeps(c, ns, timed) ==
    /\ Caller(c)
    /\ k' = chSchGoSleepTimeoutS(k, c, ns, timed)
    /\ call' = [call EXCEPT ![k.current[c]] = CallOf(ns)]
    /\ ns = "WTMSG" => msgqueue[k.current[c]] = <<>>
    /\ UNCHANGED <<msgqueue, wtobj, received, loop, answer>>

LEMMA SleepInv ==
    ASSUME IInv, NEW c \in Cores, NEW ns \in {"WTMSG", "SLEEPING"}, NEW timed \in BOOLEAN,
           Sleeps(c, ns, timed)
    PROVE  IInv'
<1>1. PICK t : t = k.current[c]
  OBVIOUS
<1>2. /\ loop = NoLoop /\ InThread(k, c) /\ Sound(k, {}) /\ t \in Threads
      /\ k.state[t] = "CURRENT" /\ call[t] = "none"
  BY <1>1, CallerFacts DEF Sleeps
<1>3. ns \in TimedStates \ {"READY"} /\ {} \subseteq {c}
  BY DEF TimedStates, States
<1>4. Sound(k', {})
  BY <1>2, <1>3, RunSleep DEF Sleeps
<1>5. Rested(k, k', t, ns)
  BY <1>1, <1>2, <1>3, RunSleep DEF Sleeps
<1>6. Others(k, k', {t}) /\ k'.state[t] = ns
  BY <1>5 DEF Rested, Asleep
<1>7. QueuesExact(k', msgqueue, wtobj, Threads, "SNDMSGQ", MsgPriority)
  <2>1. \A u \in Threads \intersect {t} : k.state[u] # "SNDMSGQ" /\ k'.state[u] # "SNDMSGQ"
    BY <1>2, <1>6
  <2>2. QueuesExact(k, msgqueue, wtobj, Threads, "SNDMSGQ", MsgPriority) /\ Others(k, k', {t})
    BY <1>6, Facts
  <2> QED BY <2>1, <2>2, QueueSame
<1>8. UNCHANGED <<msgqueue, wtobj, received, loop, answer>> /\ call' = [call EXCEPT ![t] = CallOf(ns)]
  BY <1>1 DEF Sleeps
<1>9. PartsOK(k', msgqueue, [call EXCEPT ![t] = CallOf(ns)], received, answer)
  <2>1. PartsOK(k, msgqueue, call, received, answer) /\ DOMAIN call = Threads
    BY Facts DEF PartsOK
  <2>2. ns \in {"WTMSG", "FINAL"} => msgqueue[t] = <<>>
    BY <1>1 DEF Sleeps
  <2>3. k.state[t] = "CURRENT" /\ t \in Threads
    BY <1>2
  <2> QED BY <1>4, <1>5, <2>1, <2>2, <2>3, RestedParts
<1>10. call' \in [Threads -> {"none", "send", "wait"}]
  BY <1>2, <1>8, Facts DEF CallOf
<1>11. CallsOK(k', call') /\ ReceiversOK(k', msgqueue', call', received') /\ AnswersOK(k', call', answer')
  BY <1>8, <1>9 DEF PartsOK
<1> QED BY <1>2, <1>4, <1>7, <1>8, <1>10, <1>11, Pieces, Facts

LEMMA WaitInv ==
    ASSUME IInv, NEW c \in Cores, chThdSleepS(c) \/ \E timed \in BOOLEAN : chMsgWaitTimeoutS(c, timed)
    PROVE  IInv'
<1>1. CASE chThdSleepS(c)
  <2>1. /\ Caller(c) /\ k' = chSchGoSleepTimeoutS(k, c, "SLEEPING", TRUE)
        /\ UNCHANGED <<msgqueue, wtobj, call, received, loop, answer>>
    BY <1>1 DEF chThdSleepS
  <2>2. call' = [call EXCEPT ![k.current[c]] = CallOf("SLEEPING")]
    BY <2>1, CallerFacts, Facts DEF CallOf
  <2>3. Sleeps(c, "SLEEPING", TRUE)
    BY <2>1, <2>2 DEF Sleeps
  <2> QED BY <2>3, SleepInv
<1>2. ASSUME NEW timed \in BOOLEAN, chMsgWaitTimeoutS(c, timed) PROVE IInv'
  <2>1. /\ Caller(c) /\ k' = chSchGoSleepTimeoutS(k, c, "WTMSG", timed)
        /\ UNCHANGED <<msgqueue, wtobj, received, loop, answer>>
        /\ call' = [call EXCEPT ![k.current[c]] = CallOf("WTMSG")]
        /\ msgqueue[k.current[c]] = <<>>
    BY <1>2 DEF chMsgWaitTimeoutS, chMsgIsPendingI, CallOf
  <2>2. Sleeps(c, "WTMSG", timed)
    BY <2>1 DEF Sleeps
  <2> QED BY <2>2, SleepInv
<1> QED BY <1>1, <1>2

\* The running thread t answers the sender s with msg, the loop or not.
Answers(t, s, q, msg) ==
    /\ QueueLess(k, msgqueue[t], q, s, MsgPriority)
    /\ s \in ToSet(msgqueue[t])
    /\ msgqueue' = [msgqueue EXCEPT ![t] = q]
    /\ wtobj' = [wtobj EXCEPT ![s] = NoThread]
    /\ received' = [received EXCEPT ![t] = @ \ {s}]
    /\ answer' = [answer EXCEPT ![s] = msg]
    /\ Roused(k, k', s, msg)
    /\ UNCHANGED <<call, loop>>

LEMMA AnswerParts ==
    ASSUME IInv, NEW X, Sound(k', X), NEW t \in Threads, k.state[t] = "CURRENT", call[t] = "none",
           NEW s, NEW q, NEW msg \in Messages, Answers(t, s, q, msg)
    PROVE  /\ QueuesExact(k', msgqueue', wtobj', Threads, "SNDMSGQ", MsgPriority)
           /\ CallsOK(k', call') /\ ReceiversOK(k', msgqueue', call', received')
           /\ AnswersOK(k', call', answer')
           /\ wtobj' \in [Threads -> Threads \union {NoThread}]
           /\ received' \in [Threads -> SUBSET Threads]
           /\ answer' \in [Threads -> Messages \union {"none"}]
<1>1. /\ s \in ToSet(msgqueue[t]) /\ s \in Threads /\ k.state[s] = "SNDMSGQ" /\ call[s] = "send"
      /\ QueueLess(k, msgqueue[t], q, s, MsgPriority)
  BY Facts DEF Answers, QueuesExact, CallsOK
<1>2. Roused(k, k', s, msg) /\ Woken(k, k', s)
  BY DEF Answers, Roused
<1>3. QueuesExact(k', [msgqueue EXCEPT ![t] = q], [wtobj EXCEPT ![s] = NoThread], Threads, "SNDMSGQ", MsgPriority)
  <2>1. QueuesExact(k, msgqueue, wtobj, Threads, "SNDMSGQ", MsgPriority)
    BY Facts
  <2> QED BY <1>1, <1>2, <2>1, QueueOut
<1>4. PICK na : na = [answer EXCEPT ![s] = msg]
  OBVIOUS
<1>5. CallsOK(k', call) /\ AnswersOK(k', call, na)
  <2>1. CallsOK(k, call) /\ AnswersOK(k, call, answer) /\ Sound(k, Busy(loop))
    BY Facts
  <2>2. na[s] = msg /\ \A u \in Threads \ {s} : na[u] = answer[u]
    BY <1>1, <1>4, Facts
  <2>3. k.state[s] \notin {"READY", "CURRENT"} /\ s \in Threads
    BY <1>1
  <2> QED BY <1>2, <2>1, <2>2, <2>3, RousedCalls
<1>6. ReceiversOK(k', [msgqueue EXCEPT ![t] = q], call, [received EXCEPT ![t] = @ \ {s}])
  <2>1. /\ ReceiversOK(k, msgqueue, call, received) /\ Sound(k, Busy(loop))
        /\ msgqueue \in [Threads -> Seq(Threads)] /\ received \in [Threads -> SUBSET Threads]
    BY Facts
  <2>2. ToSet(q) = ToSet(msgqueue[t]) \ {s}
    BY <1>1 DEF QueueLess
  <2> QED BY <1>1, <1>2, <2>1, <2>2, AnsweredReceivers
<1>7. /\ wtobj' = [wtobj EXCEPT ![s] = NoThread] /\ msgqueue' = [msgqueue EXCEPT ![t] = q]
      /\ received' = [received EXCEPT ![t] = @ \ {s}] /\ answer' = na /\ call' = call
  BY <1>4 DEF Answers
<1>8. /\ wtobj' \in [Threads -> Threads \union {NoThread}]
      /\ received' \in [Threads -> SUBSET Threads]
      /\ answer' \in [Threads -> Messages \union {"none"}]
  BY <1>1, <1>4, <1>7, Facts
<1> QED BY <1>3, <1>5, <1>6, <1>7, <1>8

\* chMsgRelease(): the sender is one the receiver has been given.
LEMMA ReleaseInv ==
    ASSUME IInv, NEW c \in Cores, NEW tp \in UserThreads, NEW msg \in Replies, chMsgRelease(c, tp, msg)
    PROVE  IInv'
<1>1. PICK t, q : t = k.current[c] /\ q = ch_queue_dequeue(msgqueue[t], tp)
  OBVIOUS
<1>2. Caller(c) /\ tp \in received[t] /\ k' = chSchWakeupS(k, c, tp, msg) /\ msg \in Messages
  BY <1>1, MsgAssumption DEF chMsgRelease
<1>3. /\ loop = NoLoop /\ c \notin k.isr /\ Sound(k, {}) /\ t \in Threads
      /\ k.state[t] = "CURRENT" /\ call[t] = "none"
  BY <1>1, <1>2, CallerFacts
<1>4. tp \in ToSet(msgqueue[t]) /\ tp \in Threads
  BY <1>2, <1>3, Facts DEF ReceiversOK, UserThreads
<1>5. k.state[tp] = "SNDMSGQ" /\ QueueLess(k, msgqueue[t], q, tp, MsgPriority)
  <2>1. QueuesExact(k, msgqueue, wtobj, Threads, "SNDMSGQ", MsgPriority) /\ k \in KernelType
    BY Facts
  <2>2. k.state[tp] = "SNDMSGQ"
    BY <1>3, <1>4, <2>1 DEF QueuesExact
  <2>3. QueueLess(k, msgqueue[t], q, tp, MsgPriority)
    BY <1>1, <1>3, <1>4, <2>1, QueueMember
  <2> QED BY <2>2, <2>3
<1>6. k.state[tp] \notin {"READY", "CURRENT"}
  BY <1>5
<1>7. Sound(k', {})
  BY <1>2, <1>3, <1>4, <1>6, RunWakeup
<1>8. Roused(k, k', tp, msg)
  BY <1>2, <1>3, <1>4, <1>6, RunWakeup
<1>9. Answers(t, tp, q, msg)
  BY <1>1, <1>4, <1>5, <1>8 DEF Answers, chMsgRelease
<1>10. UNCHANGED <<call, loop>>
  BY <1>9 DEF Answers
<1> QED BY <1>2, <1>3, <1>7, <1>9, <1>10, AnswerParts, Pieces, Facts

\* The loop begins.
LEMMA LoopStartInv ==
    ASSUME IInv, NEW c \in Cores, MsgReleaseAll(c) \/ ThdExit(c)
    PROVE  IInv'
<1>1. Caller(c) /\ UNCHANGED <<k, msgqueue, wtobj, call, received, answer>>
  BY DEF MsgReleaseAll, ThdExit
<1>2. PICK op \in {"release", "exit"} : loop' = [op |-> op, core |-> c]
  BY DEF MsgReleaseAll, ThdExit
<1>3. loop' \in Loops /\ loop'.op # "none" /\ loop'.core = c /\ Busy(loop') = {c}
  BY <1>2 DEF Loops, Busy
<1>4. loop = NoLoop /\ InThread(k, c) /\ Sound(k, {}) /\ call[k.current[c]] = "none"
  BY <1>1, CallerFacts
<1>5. Sound(k', Busy(loop'))
  BY <1>1, <1>3, <1>4 DEF Sound, OrderedBut
<1>6. LoopOK(k', call', loop')
  BY <1>1, <1>3, <1>4 DEF LoopOK, Caller, Unlocked, Resuming
<1>7. TypeOK'
  BY <1>1, <1>3, Facts DEF TypeOK
<1> QED BY <1>1, <1>5, <1>6, <1>7 DEF IInv

\* In the loop.
LEMMA LoopFacts ==
    ASSUME IInv, loop # NoLoop
    PROVE  /\ loop.core \in Cores /\ Busy(loop) = {loop.core} /\ Sound(k, {loop.core})
           /\ loop.op \in {"release", "exit"} /\ loop.op # "none"
           /\ InThread(k, loop.core) /\ loop.core \notin k.isr
           /\ k.current[loop.core] \in Threads /\ k.state[k.current[loop.core]] = "CURRENT"
           /\ call[k.current[loop.core]] = "none" /\ \A c \in Cores : call[k.current[c]] # "wait"
<1>1. loop.core \in Cores /\ loop.op \in {"release", "exit"} /\ loop.op # "none"
  BY Facts DEF Loops
<1>2. Busy(loop) = {loop.core} /\ Sound(k, Busy(loop))
  BY <1>1, Facts DEF Busy
<1>3. /\ InThread(k, loop.core) /\ call[k.current[loop.core]] = "none"
      /\ \A c \in Cores : call[k.current[c]] # "wait"
  BY <1>1, Facts DEF LoopOK
<1>4. loop.core \notin k.isr
  BY <1>3 DEF InThread
<1> QED BY <1>1, <1>2, <1>3, <1>4, Facts

\* chMsgReleaseAllI(): the head of the queue is told MSG_RESET.
LEMMA LoopStepInv ==
    ASSUME IInv, chMsgReleaseAllI
    PROVE  IInv'
<1>1. PICK c, t, s, q : /\ c = loop.core /\ t = k.current[c] /\ s = Head(msgqueue[t])
                        /\ q = ch_queue_fifo_remove(msgqueue[t])
  OBVIOUS
<1>2. /\ loop # NoLoop /\ msgqueue[t] # <<>> /\ k' = ReadyWithMsg(k, c, s, "RESET")
      /\ "RESET" \in Messages
  BY <1>1, KernelAssumption DEF chMsgReleaseAllI
<1>3. /\ c \in Cores /\ Busy(loop) = {c} /\ Sound(k, {c}) /\ InThread(k, c) /\ t \in Threads
      /\ k.state[t] = "CURRENT" /\ call[t] = "none" /\ \A d \in Cores : call[k.current[d]] # "wait"
  BY <1>1, <1>2, LoopFacts
<1>4. /\ s \in ToSet(msgqueue[t]) /\ s \in Threads /\ k.state[s] = "SNDMSGQ"
      /\ QueueLess(k, msgqueue[t], q, s, MsgPriority)
  <2>1. QueuesExact(k, msgqueue, wtobj, Threads, "SNDMSGQ", MsgPriority) /\ k \in KernelType
    BY Facts
  <2>2. QueueLess(k, msgqueue[t], q, s, MsgPriority)
    BY <1>1, <1>2, <1>3, <2>1, QueueHead
  <2>3. s \in ToSet(msgqueue[t])
    BY <1>1, <1>2, <1>3, <2>1, FifoRemoveSet DEF QueuesExact
  <2>4. s \in Threads /\ k.state[s] = "SNDMSGQ"
    BY <1>3, <2>1, <2>3 DEF QueuesExact
  <2> QED BY <2>2, <2>3, <2>4
<1>5. k.state[s] \notin {"READY", "CURRENT"}
  BY <1>4
<1>6. Sound(k', {c} \union {c})
  BY <1>2, <1>3, <1>4, <1>5, RunReady
<1>7. Roused(k, k', s, "RESET")
  BY <1>2, <1>3, <1>4, <1>5, RunReady
<1>8. NoSwitch(k, k')
  BY <1>2, <1>3, <1>4, <1>5, RunReady
<1>9. Answers(t, s, q, "RESET")
  BY <1>1, <1>4, <1>7 DEF Answers, chMsgReleaseAllI
<1>10. UNCHANGED <<call, loop>>
  BY <1>9 DEF Answers
<1>11. Sound(k', {c})
  BY <1>6
<1>12. Sound(k', Busy(loop')) /\ k' \in KernelType
  BY <1>3, <1>10, <1>11, SoundFacts
<1>13. LoopOK(k', call', loop')
  BY <1>1, <1>3, <1>8, <1>10 DEF LoopOK, NoSwitch, InThread
<1>14. /\ QueuesExact(k', msgqueue', wtobj', Threads, "SNDMSGQ", MsgPriority)
       /\ CallsOK(k', call') /\ ReceiversOK(k', msgqueue', call', received')
       /\ AnswersOK(k', call', answer')
       /\ wtobj' \in [Threads -> Threads \union {NoThread}]
       /\ received' \in [Threads -> SUBSET Threads]
       /\ answer' \in [Threads -> Messages \union {"none"}]
  BY <1>2, <1>3, <1>9, <1>11, AnswerParts
<1>15. call' \in [Threads -> {"none", "send", "wait"}] /\ loop' \in Loops \union {NoLoop}
  BY <1>10, Facts
<1>16. msgqueue' \in [Threads -> Seq(Threads)]
  BY <1>14 DEF QueuesExact
<1> QED BY <1>12, <1>13, <1>14, <1>15, <1>16 DEF IInv, TypeOK

\* The queue is empty: the thread reschedules, or is gone.
LEMMA LoopEndInv ==
    ASSUME IInv, ReleaseAllEnd
    PROVE  IInv'
<1>1. PICK c, t : c = loop.core /\ t = k.current[c]
  OBVIOUS
<1>2. /\ loop # NoLoop /\ msgqueue[t] = <<>> /\ loop' = NoLoop
      /\ UNCHANGED <<msgqueue, wtobj, call, received, answer>>
  BY <1>1 DEF ReleaseAllEnd
<1>3. /\ c \in Cores /\ Sound(k, {c}) /\ InThread(k, c) /\ c \notin k.isr /\ t \in Threads
      /\ k.state[t] = "CURRENT" /\ call[t] = "none"
  BY <1>1, <1>2, LoopFacts
<1>4. /\ QueuesExact(k, msgqueue, wtobj, Threads, "SNDMSGQ", MsgPriority)
      /\ CallsOK(k, call) /\ ReceiversOK(k, msgqueue, call, received) /\ AnswersOK(k, call, answer)
  BY Facts
<1>5. CASE loop.op # "exit"
  <2>1. k' = chSchRescheduleS(k, c)
    BY <1>1, <1>5 DEF ReleaseAllEnd
  <2>2. Sound(k', {})
    BY <1>3, <2>1, RunReschedule
  <2>3. Still(k, k')
    BY <1>3, <2>1, RunReschedule
  <2>4. QueuesExact(k', msgqueue, wtobj, Threads, "SNDMSGQ", MsgPriority)
    BY <1>4, <2>2, <2>3, StillParts
  <2>5. CallsOK(k', call)
    BY <1>4, <2>2, <2>3, StillParts
  <2>6. ReceiversOK(k', msgqueue, call, received)
    BY <1>4, <2>2, <2>3, StillParts
  <2>7. AnswersOK(k', call, answer)
    BY <1>4, <2>2, <2>3, StillParts
  <2> QED BY <1>2, <2>2, <2>4, <2>5, <2>6, <2>7, Pieces, Facts
<1>6. CASE loop.op = "exit"
  <2>1. k' = chSchGoSleepS(k, c, "FINAL") /\ "FINAL" \in TimedStates \ {"READY"}
    BY <1>1, <1>6 DEF ReleaseAllEnd, TimedStates, States
  <2>2. Sound(k', {})
    BY <1>3, <2>1, RunSleepS
  <2>3. Rested(k, k', t, "FINAL")
    BY <1>1, <1>3, <2>1, RunSleepS
  <2>4. Untimed(k, k')
    BY <1>3, <2>1, RunSleepS
  <2>5. Others(k, k', {t}) /\ k'.state[t] = "FINAL"
    BY <2>3 DEF Rested, Asleep
  <2>6. QueuesExact(k', msgqueue, wtobj, Threads, "SNDMSGQ", MsgPriority)
    <3>1. \A u \in Threads \intersect {t} : k.state[u] # "SNDMSGQ" /\ k'.state[u] # "SNDMSGQ"
      BY <1>3, <2>5
    <3> QED BY <1>4, <2>5, <3>1, QueueSame
  <2>7. PartsOK(k', msgqueue, [call EXCEPT ![t] = CallOf("FINAL")], received, answer)
    <3>1. PartsOK(k, msgqueue, call, received, answer) /\ DOMAIN call = Threads
      BY <1>4, Facts DEF PartsOK
    <3>2. /\ "FINAL" \in {"SNDMSGQ", "WTMSG", "SLEEPING", "FINAL"}
          /\ "FINAL" \in {"SNDMSGQ", "FINAL"} => Untimed(k, k')
          /\ "FINAL" \in {"WTMSG", "FINAL"} => msgqueue[t] = <<>>
      BY <1>2, <2>4
    <3> QED BY <1>3, <2>2, <2>3, <3>1, <3>2, RestedParts
  <2>8. [call EXCEPT ![t] = CallOf("FINAL")] = call
    BY <1>3, Facts DEF CallOf
  <2>9. PartsOK(k', msgqueue', call', received', answer')
    BY <1>2, <2>7, <2>8
  <2> QED BY <1>2, <2>2, <2>6, <2>9, Pieces, Facts DEF PartsOK
<1> QED BY <1>5, <1>6

-----------------------------------------------------------------------------
(* The theorems *)

\* The invariant holds in every reachable state, for every number of cores
\* and threads: one case per action of RtMsg.
THEOREM Inductive == Spec => []IInv
<1>1. Init => IInv
  <2> SUFFICES ASSUME Init PROVE IInv
    OBVIOUS
  <2>1. Prio \in [Threads -> Prios] /\ k = KernelInit(Prio)
    BY MsgAssumption DEF Init
  <2>2. Sound(k, {}) /\ Pending(k) = {}
    BY <2>1, RunInit
  <2>3. k.state = [t \in Threads |-> IF t \in UserThreads THEN "WTSTART" ELSE "CURRENT"]
    BY <2>1 DEF KernelInit
  <2>4. \A t \in Threads : k.state[t] \in {"WTSTART", "CURRENT"}
    BY <2>3
  <2>5. loop = NoLoop /\ loop.op = "none" /\ Busy(loop) = {}
    BY DEF Init, NoLoop, Busy
  <2>6. QueuesExact(k, msgqueue, wtobj, Threads, "SNDMSGQ", MsgPriority)
    <3>1. msgqueue = [t \in Threads |-> <<>>] /\ DOMAIN wtobj = Threads
      BY DEF Init
    <3>2. NoDuplicates(<<>>) /\ SortedByPrio(<<>>, k.prio) /\ ToSet(<<>>) = {}
      BY DEF NoDuplicates, SortedByPrio, IsSorted, ToSet
    <3>3. \A s \in Threads : {t \in Threads : k.state[t] = "SNDMSGQ" /\ wtobj[t] = s} = {}
      BY <2>4
    <3> QED BY <3>1, <3>2, <3>3 DEF QueuesExact
  <2>7. CallsOK(k, call)
    BY <2>2, <2>4 DEF CallsOK, Init
  <2>8. ReceiversOK(k, msgqueue, call, received) /\ AnswersOK(k, call, answer)
    BY DEF ReceiversOK, AnswersOK, Init
  <2>9. TypeOK
    <3>1. k \in KernelType
      BY <2>2, SoundFacts
    <3> QED BY <3>1, <2>5 DEF TypeOK, Init
  <2> QED BY <2>2, <2>5, <2>6, <2>7, <2>8, <2>9 DEF IInv, LoopOK
<1>2. IInv /\ [Next]_vars => IInv'
  <2> SUFFICES ASSUME IInv, [Next]_vars PROVE IInv'
    OBVIOUS
  <2>1. CASE UNCHANGED vars
    BY <2>1 DEF vars, IInv, TypeOK
  <2>2. ASSUME NEW c \in Cores, MsgCall(c) PROVE IInv'
    BY <2>2, SendInv, ReturnInv, WaitInv, ReleaseInv, LoopStartInv DEF MsgCall
  <2>3. ASSUME NEW c \in Cores, KernelIrq(c) PROVE IInv'
    BY <2>3, StartInv, IrqInv, TimeoutInv DEF KernelIrq
  <2>4. CASE chMsgReleaseAllI \/ ReleaseAllEnd
    BY <2>4, LoopStepInv, LoopEndInv
  <2> QED BY <2>1, <2>2, <2>3, <2>4 DEF Next
<1> QED BY <1>1, <1>2, PTL DEF Spec

\* Nobody is forgotten: the queue of a receiver holds exactly the threads
\* blocked in a send to it, in order, and a receiver with a sender is neither
\* asleep in a wait nor gone.
THEOREM Served == Spec => []SendersServed
<1>1. IInv => SendersServed
  BY DEF IInv, QueuesExact, ReceiversOK, SendersServed
<1> QED BY <1>1, Inductive, PTL

\* What a wait or a poll returned stays blocked on the receiver until it is
\* answered, and a wait that was woken by a sender returns a sender.
THEOREM HeldBlocked == Spec => []HeldSendersBlocked
<1>1. IInv => HeldSendersBlocked
  BY DEF IInv, ReceiversOK, HeldSendersBlocked, chMsgIsPendingI
<1> QED BY <1>1, Inductive, PTL

\* A send returns the answer that was given to it.
THEOREM Matched == Spec => []AnswersMatch
<1>1. IInv => AnswersMatch
  BY DEF IInv, AnswersOK, AnswersMatch
<1> QED BY <1>1, Inductive, PTL

\* The ready lists and the running threads are exact under the messages, and
\* out of the kernel lock the most important ready thread of a core runs.
THEOREM KernelSound == Spec => []KernelOK
<1>1. IInv => KernelOK
  <2> SUFFICES ASSUME IInv PROVE KernelOK
    OBVIOUS
  <2>1. Sound(k, Busy(loop))
    BY Facts
  <2>2. /\ ReadyListExact(k) /\ ReadyListSorted(k) /\ CurrentExact(k)
        /\ \A c \in Cores \ (k.isr \union k.notified \union Busy(loop)) : PriorityOrder(k, c)
    BY <2>1, SoundImplies
  <2>3. Unlocked => Busy(loop) = {}
    BY Quiet DEF Unlocked
  <2> QED BY <2>2, <2>3 DEF KernelOK
<1> QED BY <1>1, Inductive, PTL
=============================================================================
