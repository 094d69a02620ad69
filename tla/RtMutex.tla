------------------------------ MODULE RtMutex ------------------------------
(***************************************************************************)
(* Mutexes with priority inheritance (chmtx.c), condition variables        *)
(* (chcond.c) and priority changes (__thd_set_priority in chthreads.c)     *)
(* over the scheduler.                                                     *)
(*                                                                         *)
(* A loop of the code that runs with the kernel lock held is one step per  *)
(* iteration: cs describes the critical section in progress, and while it  *)
(* is not NoCS no other step of any core is possible.  The same holds      *)
(* while a thread that has been switched in is still inside chCondWaitS(), *)
(* about to take its mutex again (cont).                                   *)
(***************************************************************************)
EXTENDS ChSched

CONSTANTS
    Mutexes, Conds,
    NoObj,          \* NULL, for mutexes and waiting objects
    Recursive,      \* CH_CFG_USE_MUTEXES_RECURSIVE
    MaxRecursion,   \* MUTEX_MAX_RECURSION
    Prio,           \* Prio[t]: the priority a thread is created with
    NewPrios        \* the arguments of __thd_set_priority()

ASSUME MutexAssumption ==
    /\ NoObj \notin Mutexes \union Conds
    /\ Mutexes \intersect Conds = {}
    /\ Recursive \in BOOLEAN
    /\ MaxRecursion \in Nat \ {0}
    /\ Prio \in [Threads -> Prios]
    /\ \A c \in Cores : Prio[Idle[c]] = IDLEPRIO
    /\ \A t \in UserThreads : Prio[t] >= LOWPRIO
    /\ NewPrios \subseteq {p \in Prios : p >= LOWPRIO}

VARIABLES
    k,          \* the kernel state; k.prio is the effective priority
    realprio,   \* realprio[t]
    owner,      \* owner[m]: mp->owner
    mcnt,       \* mcnt[m]: mp->cnt, 0 or 1 when not Recursive
    mqueue,     \* mqueue[m]: mp->queue
    mtxlist,    \* mtxlist[t]: the owned mutexes, last taken first
    cqueue,     \* cqueue[v]: the queue of a condition variable
    wtobj,      \* wtobj[t]: u.wtmtxp or u.wtcondp while t waits
    cont,       \* cont[t]: the mutex chCondWaitS() will take again
    cs,         \* the critical section in progress
    owed        \* history, owed[t]: the mutex t has still to take again since a
                \* signal or a broadcast took it out of a condition variable

objs == <<realprio, owner, mcnt, mqueue, mtxlist, cqueue, wtobj, owed>>
vars == <<k, realprio, owner, mcnt, mqueue, mtxlist, cqueue, wtobj, cont, cs, owed>>

NoCS == [op |-> "none"]

Sections ==
    [op : {"lock"}, core : Cores, mp : Mutexes, tp : Threads]
        \union [op : {"unlockall"}, core : Cores]
        \union [op : {"setprio"}, core : Cores, tp : Threads]
        \union [op : {"broadcast"}, core : Cores, cp : Conds, thread : BOOLEAN]

CodeTypes ==
    /\ k \in KernelType
    /\ realprio \in [Threads -> Prios]
    /\ owner \in [Mutexes -> Threads \union {NoThread}]
    /\ mcnt \in [Mutexes -> 0 .. MaxRecursion]
    /\ mqueue \in [Mutexes -> Seq(Threads)]
    /\ mtxlist \in [Threads -> Seq(Mutexes)]
    /\ cqueue \in [Conds -> Seq(Threads)]
    /\ wtobj \in [Threads -> Mutexes \union Conds \union {NoObj}]
    /\ cont \in [Threads -> Mutexes \union {NoObj}]
    /\ cs \in Sections \union {NoCS}

TypeOK == CodeTypes /\ owed \in [Threads -> Mutexes \union {NoObj}]

Init ==
    /\ k = KernelInit(Prio)
    /\ realprio = Prio
    /\ owner = [m \in Mutexes |-> NoThread]
    /\ mcnt = [m \in Mutexes |-> 0]
    /\ mqueue = [m \in Mutexes |-> <<>>]
    /\ mtxlist = [t \in Threads |-> <<>>]
    /\ cqueue = [v \in Conds |-> <<>>]
    /\ wtobj = [t \in Threads |-> NoObj]
    /\ cont = [t \in Threads |-> NoObj]
    /\ cs = NoCS
    /\ owed = [t \in Threads |-> NoObj]

\* A thread has been switched in and is still inside a condition wait.
Resuming(c) == cont[k.current[c]] # NoObj

\* Nobody is inside the kernel.
Unlocked == cs = NoCS /\ \A c \in Cores : ~ Resuming(c)

Caller(c) == Unlocked /\ InThread(k, c)

-----------------------------------------------------------------------------
(* Mutexes *)

\* The priority of the first waiter of a mutex, 0 when nobody waits.
WaiterPrio(m, mq) == IF mq[m] = <<>> THEN 0 ELSE k.prio[Head(mq[m])]

\* Mutant: the priority the thread was given is forgotten.
M_effective_no_real(tp, list, mq) == Max({WaiterPrio(m, mq) : m \in ToSet(list)} \union {0})

\* Mutant: the mutexes still owned are forgotten.
M_effective_no_waiters(tp, list, mq) == realprio[tp]

\* __mtx_get_effective_priority(), for a list of owned mutexes.
mtx_get_effective_priority(tp, list, mq) ==
    Max({realprio[tp]} \union {WaiterPrio(m, mq) : m \in ToSet(list)})

\* A thread that gets a mutex is no longer owed it.
Settle(m, t) == owed' = [owed EXCEPT ![t] = IF @ = m THEN NoObj ELSE @]

\* Mutant: the mutex is not linked to its owner.
M_Own(m, t, lists) ==
    /\ owner' = [owner EXCEPT ![m] = t]
    /\ mcnt' = [mcnt EXCEPT ![m] = 1]
    /\ mtxlist' = lists
    /\ Settle(m, t)

\* Mutant: the mutex goes behind the ones already owned.
M_OwnLast(m, t, lists) ==
    /\ owner' = [owner EXCEPT ![m] = t]
    /\ mcnt' = [mcnt EXCEPT ![m] = 1]
    /\ mtxlist' = [lists EXCEPT ![t] = Append(@, m)]
    /\ Settle(m, t)

\* t becomes the owner of m.
Own(m, t, lists) ==
    /\ owner' = [owner EXCEPT ![m] = t]
    /\ mcnt' = [mcnt EXCEPT ![m] = 1]
    /\ mtxlist' = [lists EXCEPT ![t] = <<m>> \o @]
    /\ Settle(m, t)

\* chMtxLockS() up to the priority inheritance loop.
LockS(c, m) ==
    LET currtp == k.current[c]
    IN  \/ /\ owner[m] = NoThread
           /\ Own(m, currtp, mtxlist)
           /\ UNCHANGED <<k, realprio, mqueue, cqueue, wtobj, cs>>
        \/ /\ Recursive
           /\ owner[m] = currtp
           /\ mcnt[m] < MaxRecursion
           /\ mcnt' = [mcnt EXCEPT ![m] = @ + 1]
           /\ UNCHANGED <<k, realprio, owner, mqueue, mtxlist, cqueue, wtobj, cs, owed>>
        \/ /\ owner[m] \notin {NoThread, currtp}
           /\ cs' = [op |-> "lock", core |-> c, mp |-> m, tp |-> owner[m]]
           /\ UNCHANGED <<k, objs>>

chMtxLock(c, m) ==
    /\ Caller(c)
    /\ LockS(c, m)
    /\ UNCHANGED cont

\* chMtxTryLockS(); a mutex owned by another thread changes nothing.
chMtxTryLock(c, m) ==
    /\ Caller(c)
    /\ owner[m] \in {NoThread, k.current[c]}
    /\ LockS(c, m)
    /\ UNCHANGED cont

\* Moves a waiting thread in the queue it is in, its priority being changed.
Requeue(q, t, prio) == ch_sch_prio_insert(ch_queue_dequeue(q, t), t, prio)

\* Thread tp takes priority p: the queue tp is in is reordered.
NewEffective(kk, c, tp, p) ==
    LET kp == [kk EXCEPT !.prio[tp] = p]
    IN  /\ k' = IF k.state[tp] = "READY" THEN sch_requeue_behind(kp, c, tp) ELSE kp
        /\ mqueue' = IF k.state[tp] = "WTMTX"
                       THEN [mqueue EXCEPT ![wtobj[tp]] = Requeue(@, tp, kp.prio)]
                       ELSE mqueue
        /\ cqueue' = IF k.state[tp] = "WTCOND"
                       THEN [cqueue EXCEPT ![wtobj[tp]] = Requeue(@, tp, kp.prio)]
                       ELSE cqueue

\* Where the priority loops go from tp: to the owner of the mutex tp waits
\* for.  Otherwise they stop, tp having the priority they look for.
NextInChain(tp) == IF k.state[tp] = "WTMTX" THEN owner[wtobj[tp]] ELSE tp

\* An iteration of the priority inheritance loop of chMtxLockS(): the owner
\* reached is less important than the running thread and inherits from it.
LockBoost ==
    LET currtp == k.current[cs.core]
    IN  /\ cs.op = "lock"
        /\ k.prio[cs.tp] < k.prio[currtp]
        /\ NewEffective(k, cs.core, cs.tp, k.prio[currtp])
        /\ cs' = [cs EXCEPT !.tp = NextInChain(@)]
        /\ UNCHANGED <<realprio, owner, mcnt, mtxlist, wtobj, cont, owed>>

\* The loop is over, the running thread sleeps on the mutex.
LockSleep ==
    LET currtp == k.current[cs.core]
    IN  /\ cs.op = "lock"
        /\ k.prio[cs.tp] >= k.prio[currtp]
        /\ mqueue' = [mqueue EXCEPT ![cs.mp] = ch_sch_prio_insert(@, currtp, k.prio)]
        /\ wtobj' = [wtobj EXCEPT ![currtp] = cs.mp]
        /\ k' = chSchGoSleepS(k, cs.core, "WTMTX")
        /\ cs' = NoCS
        /\ UNCHANGED <<realprio, owner, mcnt, mtxlist, cqueue, cont, owed>>

\* The last mutex taken by the running thread leaves its list and goes to its
\* first waiter, or becomes free; w: the waiting objects.
PassOn(c, w) ==
    LET currtp == k.current[c]
        m      == Head(mtxlist[currtp])
        tp     == Head(mqueue[m])
        rest   == [mtxlist EXCEPT ![currtp] = Tail(@)]
    IN  IF mqueue[m] # <<>>
          THEN /\ Own(m, tp, rest)
               /\ mqueue' = [mqueue EXCEPT ![m] = ch_queue_fifo_remove(@)]
               /\ wtobj' = [w EXCEPT ![tp] = NoObj]
          ELSE /\ owner' = [owner EXCEPT ![m] = NoThread]
               /\ mcnt' = [mcnt EXCEPT ![m] = 0]
               /\ mtxlist' = rest
               /\ wtobj' = w
               /\ UNCHANGED <<mqueue, owed>>

\* The kernel state when m is passed on: its first waiter is made ready.
WaiterReady(kk, c, m) == chSchReadyI(kk, c, Head(mqueue[m]))

\* The kernel state after __mtx_unlock_no_reschedule() when the last lock of
\* the mutex is undone: if somebody waits, the running thread loses the
\* priority it inherits through this mutex only.
mtx_unlock_no_reschedule(c) ==
    LET currtp == k.current[c]
        m      == Head(mtxlist[currtp])
        prio   == mtx_get_effective_priority(currtp, Tail(mtxlist[currtp]), mqueue)
    IN  IF mqueue[m] # <<>> THEN WaiterReady([k EXCEPT !.prio[currtp] = prio], c, m) ELSE k

\* Mutexes are unlocked in reverse order.  Without a waiter chSchRescheduleS()
\* is not called, but no ready thread is more important then.
chMtxUnlock(c, m) ==
    /\ Caller(c)
    /\ owner[m] = k.current[c]
    /\ \/ /\ mcnt[m] > 1
          /\ mcnt' = [mcnt EXCEPT ![m] = @ - 1]
          /\ UNCHANGED <<k, owner, mqueue, mtxlist, wtobj, owed>>
       \/ /\ mcnt[m] = 1
          /\ m = Head(mtxlist[k.current[c]])
          /\ PassOn(c, wtobj)
          /\ k' = IF mqueue[m] # <<>> THEN chSchRescheduleS(mtx_unlock_no_reschedule(c), c)
                  ELSE mtx_unlock_no_reschedule(c)
    /\ UNCHANGED <<realprio, cqueue, cont, cs>>

chMtxUnlockAll(c) ==
    /\ Caller(c)
    /\ mtxlist[k.current[c]] # <<>>
    /\ cs' = [op |-> "unlockall", core |-> c]
    /\ UNCHANGED <<k, objs, cont>>

UnlockAllIteration ==
    LET list == mtxlist[k.current[cs.core]]
    IN  /\ cs.op = "unlockall"
        /\ list # <<>>
        /\ PassOn(cs.core, wtobj)
        /\ k' = IF mqueue[Head(list)] # <<>> THEN WaiterReady(k, cs.core, Head(list)) ELSE k
        /\ UNCHANGED <<realprio, cqueue, cont, cs>>

UnlockAllEnd ==
    LET currtp == k.current[cs.core]
    IN  /\ cs.op = "unlockall"
        /\ mtxlist[currtp] = <<>>
        /\ k' = chSchRescheduleS([k EXCEPT !.prio[currtp] = realprio[currtp]], cs.core)
        /\ cs' = NoCS
        /\ UNCHANGED <<objs, cont>>

-----------------------------------------------------------------------------
(* Priority changes; chThdSetPriority() is the case tp = k.current[c], the  *)
(* abstraction layers over RT call it for any thread.                       *)

thd_set_priority(c, tp, newprio) ==
    /\ Caller(c)
    /\ newprio # realprio[tp]
    /\ realprio' = [realprio EXCEPT ![tp] = newprio]
    /\ cs' = [op |-> "setprio", core |-> c, tp |-> tp]
    /\ UNCHANGED <<k, owner, mcnt, mqueue, mtxlist, cqueue, wtobj, cont, owed>>

EffectivePrio(tp) == mtx_get_effective_priority(tp, mtxlist[tp], mqueue)

\* An iteration: the priority of tp and of its chain is computed again.
SetPrioIteration ==
    LET tp == cs.tp
    IN  /\ cs.op = "setprio"
        /\ EffectivePrio(tp) # k.prio[tp]
        /\ NewEffective(IF k.state[tp] = "CURRENT"
                          THEN chSysNotifyInstance(k, cs.core, tp) ELSE k,
                        cs.core, tp, EffectivePrio(tp))
        /\ cs' = [cs EXCEPT !.tp = NextInChain(tp)]
        /\ UNCHANGED <<realprio, owner, mcnt, mtxlist, wtobj, cont, owed>>

SetPrioEnd ==
    /\ cs.op = "setprio"
    /\ EffectivePrio(cs.tp) = k.prio[cs.tp]
    /\ k' = chSchRescheduleS(k, cs.core)
    /\ cs' = NoCS
    /\ UNCHANGED <<objs, cont>>

-----------------------------------------------------------------------------
(* Condition variables *)

\* chCondWaitS() is the case ~ timed: the last mutex taken is released and
\* the thread sleeps, its place in the queue given by its new priority.
chCondWaitTimeoutS(c, v, timed) ==
    LET currtp == k.current[c]
        m      == Head(mtxlist[currtp])
    IN  /\ Caller(c)
        /\ mtxlist[currtp] # <<>>
        /\ mcnt[m] = 1
        /\ PassOn(c, [wtobj EXCEPT ![currtp] = v])
        /\ k' = chSchGoSleepTimeoutS(mtx_unlock_no_reschedule(c), c, "WTCOND", timed)
        /\ cqueue' = [cqueue EXCEPT ![v] = ch_sch_prio_insert(@, currtp, k'.prio)]
        /\ cont' = [cont EXCEPT ![currtp] = m]
        /\ UNCHANGED <<realprio, cs>>

TimedOut(t) == k.rdymsg[t] = "TIMEOUT"

\* The thread runs again inside the wait: the mutex is taken again, unless the
\* wait timed out.
CondResume(c) ==
    LET currtp == k.current[c]
    IN  /\ cs = NoCS
        /\ Resuming(c)
        /\ cont' = [cont EXCEPT ![currtp] = NoObj]
        /\ IF TimedOut(currtp)
             THEN UNCHANGED <<k, objs, cs>>
             ELSE LockS(c, cont[currtp])

\* The first waiter leaves the queue of v.
CondPop(v) ==
    /\ cqueue[v] # <<>>
    /\ cqueue' = [cqueue EXCEPT ![v] = ch_queue_fifo_remove(@)]
    /\ wtobj' = [wtobj EXCEPT ![Head(cqueue[v])] = NoObj]
    /\ owed' = [owed EXCEPT ![Head(cqueue[v])] = cont[Head(cqueue[v])]]
    /\ UNCHANGED <<realprio, owner, mcnt, mqueue, mtxlist, cont>>

chCondSignal(c, v) ==
    /\ Caller(c)
    /\ CondPop(v)
    /\ k' = chSchWakeupS(k, c, Head(cqueue[v]), "OK")
    /\ UNCHANGED cs

chCondSignalI(c, v) ==
    /\ Unlocked
    /\ CondPop(v)
    /\ k' = ReadyWithMsg(EnterIsr(k, c), c, Head(cqueue[v]), "OK")
    /\ UNCHANGED cs

\* From a thread, or from an interrupt handler.
chCondBroadcast(c, v, thread) ==
    /\ Unlocked
    /\ cqueue[v] # <<>>
    /\ thread => Caller(c)
    /\ k' = IF thread THEN k ELSE EnterIsr(k, c)
    /\ cs' = [op |-> "broadcast", core |-> c, cp |-> v, thread |-> thread]
    /\ UNCHANGED <<objs, cont>>

BroadcastIteration ==
    /\ cs.op = "broadcast"
    /\ CondPop(cs.cp)
    /\ k' = ReadyWithMsg(k, cs.core, Head(cqueue[cs.cp]), "RESET")
    /\ UNCHANGED cs

BroadcastEnd ==
    /\ cs.op = "broadcast"
    /\ cqueue[cs.cp] = <<>>
    /\ k' = IF cs.thread THEN chSchRescheduleS(k, cs.core) ELSE k
    /\ cs' = NoCS
    /\ UNCHANGED <<objs, cont>>

-----------------------------------------------------------------------------
(* Sleeps and interrupts *)

chThdSleepS(c) ==
    /\ Caller(c)
    /\ k' = chSchGoSleepTimeoutS(k, c, "SLEEPING", TRUE)
    /\ UNCHANGED <<objs, cont, cs>>

chThdStartI(c, t) ==
    /\ Unlocked
    /\ k.state[t] = "WTSTART"
    /\ k' = ReadyWithMsg(EnterIsr(k, c), c, t, "OK")
    /\ UNCHANGED <<objs, cont, cs>>

Expire(c, t) ==
    /\ Unlocked
    /\ TimerDueEnabled(k, c, t)
    /\ k' = TimerDue(k, c, t)
    /\ UNCHANGED <<objs, cont, cs>>

\* The timeout callback.
sch_wakeup(c) ==
    LET t  == k.firing[c]
        kk == [k EXCEPT !.firing[c] = NoThread]
    IN  /\ Unlocked
        /\ t # NoThread
        /\ IF AlreadyReady(k, t)
             THEN k' = kk
             ELSE k' = sch_ready_behind([kk EXCEPT !.rdymsg[t] = "TIMEOUT"], t)
        /\ IF k.state[t] = "WTCOND"
             THEN /\ cqueue' = [cqueue EXCEPT ![wtobj[t]] = ch_queue_dequeue(@, t)]
                  /\ wtobj' = [wtobj EXCEPT ![t] = NoObj]
             ELSE UNCHANGED <<cqueue, wtobj>>
        /\ UNCHANGED <<realprio, owner, mcnt, mqueue, mtxlist, cont, cs, owed>>

Notified(c) ==
    /\ Unlocked
    /\ c \in k.notified
    /\ k' = NotifyIrq(k, c)
    /\ UNCHANGED <<objs, cont, cs>>

ExitIsr(c) ==
    /\ Unlocked
    /\ IsrExitEnabled(k, c)
    /\ k' = IsrExit(k, c)
    /\ UNCHANGED <<objs, cont, cs>>

-----------------------------------------------------------------------------
MutexCall(c) ==
    \/ \E m \in Mutexes : chMtxLock(c, m) \/ chMtxTryLock(c, m) \/ chMtxUnlock(c, m)
    \/ chMtxUnlockAll(c)
    \/ \E tp \in UserThreads, p \in NewPrios : thd_set_priority(c, tp, p)

CondCall(c) ==
    \E v \in Conds :
        \/ \E timed \in BOOLEAN : chCondWaitTimeoutS(c, v, timed)
        \/ chCondSignal(c, v)
        \/ chCondSignalI(c, v)
        \/ \E thread \in BOOLEAN : chCondBroadcast(c, v, thread)

LockedStep ==
    \/ LockBoost \/ LockSleep
    \/ UnlockAllIteration \/ UnlockAllEnd
    \/ SetPrioIteration \/ SetPrioEnd
    \/ BroadcastIteration \/ BroadcastEnd
    \/ \E c \in Cores : CondResume(c)

KernelIrq(c) ==
    \/ \E t \in UserThreads : chThdStartI(c, t)
    \/ \E t \in Threads : Expire(c, t)
    \/ sch_wakeup(c)
    \/ Notified(c)
    \/ ExitIsr(c)

Next ==
    \/ \E c \in Cores : MutexCall(c) \/ CondCall(c) \/ chThdSleepS(c) \/ KernelIrq(c)
    \/ LockedStep

Spec == Init /\ [][Next]_vars

-----------------------------------------------------------------------------
(* Safety *)

\* Ownership has one picture: a mutex is in the list of its owner, once, and
\* in no other; it is free only if nobody waits for it; its queue holds, once
\* each and in priority order although priorities of queued threads change,
\* the threads that wait for it.
MutexConsistent ==
    \A m \in Mutexes :
        /\ \A t \in Threads :
              /\ (m \in ToSet(mtxlist[t])) <=> (owner[m] = t)
              /\ NoDuplicates(mtxlist[t])
        /\ (owner[m] = NoThread) <=> (mcnt[m] = 0)
        /\ owner[m] = NoThread => mqueue[m] = <<>>
        /\ NoDuplicates(mqueue[m])
        /\ SortedByPrio(mqueue[m], k.prio)
        /\ ToSet(mqueue[m]) = {t \in Threads : k.state[t] = "WTMTX" /\ wtobj[t] = m}

\* Priority inheritance is exact: out of the kernel a thread has the highest
\* of its own priority and of the priorities, inherited ones included, of the
\* threads that wait for a mutex it owns; it keeps no boost it has no reason
\* for and misses none, through any chain.
InheritanceExact ==
    cs = NoCS =>
        \A t \in Threads :
            k.prio[t] = Max({realprio[t]} \union
                            {k.prio[u] : u \in {w \in Threads :
                                /\ k.state[w] = "WTMTX"
                                /\ owner[wtobj[w]] = t}})

\* A thread inside a condition wait does not own the mutex it will take again;
\* the queue of the variable holds the threads that wait on it, in priority
\* order.
CondConsistent ==
    /\ \A t \in Threads : cont[t] # NoObj => owner[cont[t]] # t
    /\ \A v \in Conds :
          /\ NoDuplicates(cqueue[v])
          /\ SortedByPrio(cqueue[v], k.prio)
          /\ ToSet(cqueue[v]) = {t \in Threads : k.state[t] = "WTCOND" /\ wtobj[t] = v}

\* The scheduler invariants survive priority changes of queued threads, and
\* the calls that change priorities reschedule when they have to.
KernelOK ==
    /\ ReadyListExact(k) /\ ReadyListSorted(k) /\ CurrentExact(k)
    /\ Unlocked => \A c \in Cores \ (k.isr \union k.notified) : PriorityOrder(k, c)

\* A thread leaves the wait for a mutex as its owner, with the mutex on top of
\* its list (the assertions at the end of chMtxLockS()): nobody overtakes it.
LockReturnsOwned ==
    [][\A t \in Threads :
         (k.state[t] = "WTMTX" /\ k'.state[t] # "WTMTX")
             => /\ owner'[wtobj[t]] = t
                /\ Head(mtxlist'[t]) = wtobj[t]]_vars

\* A thread a signal or a broadcast took out of a condition variable does not
\* return from the wait before it owns its mutex again: not when its timer had
\* expired already and the callback comes late, not when it finds the mutex
\* owned and waits once more, not when others run in between.  One that timed
\* out is told so, and only that one: it returns without the mutex.
CondWaitReturnsOwner ==
    /\ Unlocked => \A c \in Cores : owed[k.current[c]] = NoObj
    /\ \A t \in Threads :
          (cont[t] # NoObj /\ k.state[t] # "WTCOND")
              => (k.rdymsg[t] = "TIMEOUT" <=> owed[t] = NoObj)
=============================================================================
