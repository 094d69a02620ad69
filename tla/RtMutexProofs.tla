--------------------------- MODULE RtMutexProofs ---------------------------
(***************************************************************************)
(* RtMutex: ownership and queues agree, inherited priorities are exact     *)
(* through chains of any length, condition waits return with their mutex,  *)
(* and the kernel under the mutexes is sound, for every number of cores,   *)
(* threads, mutexes, condition variables and priorities.                   *)
(***************************************************************************)
EXTENDS RtMutex, ChSchedProofs, FiniteSetTheorems

-----------------------------------------------------------------------------
(* The inductive invariant *)

\* The core whose order is restored at the end of the critical section.
Busy(s) == IF s.op = "none" THEN {} ELSE {s.core}

\* Ownership: the lists of the threads, the owners and the counters agree.
OwnersOK(ow, cnt, ml) ==
    /\ \A m \in Mutexes, t \in Threads : (m \in ToSet(ml[t])) <=> (ow[m] = t)
    /\ \A t \in Threads : NoDuplicates(ml[t])
    /\ \A m \in Mutexes : (ow[m] = NoThread) <=> (cnt[m] = 0)

\* A thread waits for a mutex that somebody else owns.
WaitersOK(kk, wt, ow) ==
    \A t \in Threads :
        /\ kk.state[t] = "WTMTX" => wt[t] \in Mutexes /\ ow[wt[t]] \in Threads \ {t}
        /\ kk.state[t] = "WTCOND" => wt[t] \in Conds

\* The waits: the queues of both kinds of objects and what is waited for.
Waiting(kk, mq, cq, wt, ow) ==
    /\ QueuesExact(kk, mq, wt, Mutexes, "WTMTX", TRUE)
    /\ QueuesExact(kk, cq, wt, Conds, "WTCOND", TRUE)
    /\ WaitersOK(kk, wt, ow)

\* A thread inside a condition wait has not taken its mutex again.
ContsOK(kk, ct, ow) ==
    \A t \in Threads :
        ct[t] # NoObj => /\ t \in UserThreads /\ ow[ct[t]] # t
                         /\ kk.state[t] \in {"WTCOND", "READY", "CURRENT"}

\* It goes on in thread context.
ResumeOK(kk, ct) == \A c \in Cores : ct[kk.current[c]] # NoObj => c \notin kk.isr

\* A wait for a mutex has no timeout.
TimeoutsOK(kk) == \A t \in Pending(kk) : kk.state[t] \in {"WTCOND", "SLEEPING", "READY"}

\* Where a critical section is executed, and whom a lock waits for.
SectionOK(kk, s, ow, ct) ==
    /\ s.op \in {"lock", "unlockall", "setprio"} => InThread(kk, s.core)
    /\ s.op = "broadcast" => IF s.thread THEN InThread(kk, s.core) ELSE s.core \in kk.isr
    /\ s.op = "lock" => /\ ow[s.mp] \notin {NoThread, kk.current[s.core]}
                        /\ ct[kk.current[s.core]] = NoObj

\* u waits for a mutex of t.
Waits(kk, wt, ow, u, t) == kk.state[u] = "WTMTX" /\ ow[wt[u]] = t

\* q is the highest of the priority of t, those of the threads waiting for a
\* mutex of t and the members of E.
Exact(kk, wt, ow, rp, t, E, q) ==
    /\ \/ q = rp[t] \/ q \in E
       \/ \E u \in Threads : Waits(kk, wt, ow, u, t) /\ q = kk.prio[u]
    /\ q >= rp[t] /\ \A e \in E : q >= e
    /\ \A u \in Threads : Waits(kk, wt, ow, u, t) => q >= kk.prio[u]

\* The threads outside X have their exact priorities.
Exacts(kk, wt, ow, rp, X) ==
    \A t \in Threads \ X : Exact(kk, wt, ow, rp, t, {}, kk.prio[t])

\* In the inheritance loop of a lock the thread that executes it counts as a
\* waiter of the owner; everybody has the exact priority, but for the thread
\* the loop has reached, that may still have to inherit.
LockExact(kk, wt, ow, rp, s) ==
    LET P == kk.prio[kk.current[s.core]]
    IN  \A t \in Threads :
            Exact(kk, wt, ow, rp, t, IF t = ow[s.mp] THEN {P} ELSE {},
                  IF t = s.tp /\ kk.prio[t] < P THEN P ELSE kk.prio[t])

\* Elsewhere one thread at most is not exact: the one that is unlocking all
\* its mutexes, and the one a priority change has reached.
InheritOK(kk, wt, ow, rp, s) ==
    /\ s.op \in {"none", "broadcast"} => Exacts(kk, wt, ow, rp, {})
    /\ s.op = "unlockall" => Exacts(kk, wt, ow, rp, {kk.current[s.core]})
    /\ s.op = "setprio" => Exacts(kk, wt, ow, rp, {s.tp})
    /\ s.op = "lock" => LockExact(kk, wt, ow, rp, s)

IInv ==
    /\ CodeTypes
    /\ Sound(k, Busy(cs))
    /\ OwnersOK(owner, mcnt, mtxlist)
    /\ Waiting(k, mqueue, cqueue, wtobj, owner)
    /\ ContsOK(k, cont, owner)
    /\ ResumeOK(k, cont)
    /\ TimeoutsOK(k)
    /\ SectionOK(k, cs, owner, cont)
    /\ InheritOK(k, wtobj, owner, realprio, cs)

-----------------------------------------------------------------------------
(* Maxima *)

\* A function on a finite set of indices has a largest value.
LEMMA ArgMax ==
    ASSUME NEW S, IsFiniteSet(S), S # {}, NEW f, \A x \in S : f[x] \in Nat
    PROVE  \E x \in S : \A y \in S : f[x] >= f[y]
<1> DEFINE Above(x) == {y \in S : f[y] > f[x]}
           T == {Cardinality(Above(x)) : x \in S}
           R == {ss \in Nat \X Nat : ss[1] < ss[2]}
<1>1. \A x \in S : IsFiniteSet(Above(x)) /\ Cardinality(Above(x)) \in Nat
  BY FS_Subset, FS_CardinalityType
<1>2. T \subseteq Nat /\ T # {}
  BY <1>1
<1>3. IsWellFoundedOn(R, Nat)
  BY NatLessThanWellFounded, Zenon DEF OpToRel
<1>4. PICK n \in T : \A y \in T : ~ (<<y, n>> \in R)
  <2> HIDE DEF T, R
  <2> QED BY <1>2, <1>3, WFMin
<1>5. PICK x \in S : n = Cardinality(Above(x))
  OBVIOUS
<1>6. \A y \in S : f[x] >= f[y]
  <2> SUFFICES ASSUME NEW y \in S, f[y] > f[x] PROVE FALSE
    OBVIOUS
  <2>1. Above(y) \subseteq Above(x) /\ y \in Above(x) /\ y \notin Above(y)
    OBVIOUS
  <2>2. Cardinality(Above(y)) <= Cardinality(Above(x)) /\ Cardinality(Above(x)) # Cardinality(Above(y))
    <3> HIDE DEF Above
    <3> QED BY <1>1, <2>1, FS_Subset
  <2>3. Cardinality(Above(y)) \in T /\ Cardinality(Above(y)) \in Nat /\ n \in Nat
    BY <1>1, <1>5
  <2>4. Cardinality(Above(y)) < n
    <3> HIDE DEF Above
    <3> QED BY <1>1, <1>5, <2>2, <2>3
  <2>5. <<Cardinality(Above(y)), n>> \in R
    <3> HIDE DEF Above, T
    <3> QED BY <2>3, <2>4
  <2> QED BY <1>4, <2>3, <2>5
<1> QED BY <1>6

\* The maximum of a set that has one.
LEMMA MaxIs ==
    ASSUME NEW S, NEW q \in S, S \subseteq Nat, \A x \in S : q >= x
    PROVE  Max(S) = q
<1>1. Max(S) \in S /\ \A x \in S : Max(S) >= x
  BY DEF Max
<1>2. Max(S) \in Nat /\ q \in Nat /\ Max(S) >= q /\ q >= Max(S)
  BY <1>1
<1> QED BY <1>2

-----------------------------------------------------------------------------
(* A thread changes its priority *)

\* Thread t has priority p; the lists aside nothing else is different.
Repriced(kk, r, t, p) ==
    /\ r.prio = [kk.prio EXCEPT ![t] = p] /\ r.state = kk.state /\ r.current = kk.current
    /\ r.rdymsg = kk.rdymsg /\ r.isr = kk.isr /\ r.armed = kk.armed /\ r.firing = kk.firing

\* The elements of a sorted list keep their priorities.
LEMMA SortedSame ==
    ASSUME NEW q \in Seq(Threads), NEW pr, NEW pn, SortedByPrio(q, pr),
           \A u \in ToSet(q) : pn[u] = pr[u]
    PROVE  SortedByPrio(q, pn)
<1>1. \A i \in 1 .. Len(q) : q[i] \in ToSet(q)
  BY DEF ToSet
<1>2. \A i \in 1 .. Len(q) : pn[q[i]] = pr[q[i]]
  BY <1>1
<1> QED BY <1>2 DEF SortedByPrio, IsSorted

LEMMA RequeuedRest ==
    ASSUME NEW d \in Seq(Threads), NEW t \in Threads, t \notin ToSet(d), NoDuplicates(d),
           NEW pn \in [Threads -> Nat], SortedByPrio(d, pn),
           NEW r, r = ch_pqueue_insert_behind(d, t, pn)
    PROVE  /\ r \in Seq(Threads) /\ NoDuplicates(r) /\ SortedByPrio(r, pn)
           /\ ToSet(r) = ToSet(d) \union {t}
<1>1. r \in Seq(Threads) /\ ToSet(r) = ToSet(d) \union {t}
  BY PrioInsertSet
<1>2. NoDuplicates(r)
  BY PrioInsertSet
<1>3. SortedByPrio(r, pn)
  BY PrioInsertSet
<1> QED BY <1>1, <1>2, <1>3

\* The list r has the elements of q in the order of the priorities pn.
Reordered(q, r, pn) ==
    /\ r \in Seq(Threads) /\ NoDuplicates(r) /\ SortedByPrio(r, pn)
    /\ ToSet(r) = ToSet(q)

\* An element of a sorted list takes the place its new priority gives it.
LEMMA Requeued ==
    ASSUME NEW q \in Seq(Threads), NEW t \in ToSet(q), NoDuplicates(q),
           NEW pr \in [Threads -> Nat], NEW p \in Nat, SortedByPrio(q, pr),
           NEW pn, pn = [pr EXCEPT ![t] = p],
           NEW r, r = ch_pqueue_insert_behind(ch_queue_dequeue(q, t), t, pn)
    PROVE  Reordered(q, r, pn)
<1> DEFINE d == ch_queue_dequeue(q, t)
<1>1. t \in Threads
  BY DEF ToSet
<1>2. d \in Seq(Threads) /\ ToSet(d) = ToSet(q) \ {t} /\ NoDuplicates(d)
  BY DequeueSet
<1>3. SortedByPrio(d, pr)
  BY RemoveSorted
<1>4. pn \in [Threads -> Nat] /\ \A u \in ToSet(d) : pn[u] = pr[u]
  <2>1. \A u \in ToSet(q) : u \in Threads
    BY DEF ToSet
  <2> QED BY <1>1, <1>2, <2>1
<1>5. r = ch_pqueue_insert_behind(d, t, pn)
  OBVIOUS
<1> HIDE DEF d
<1>6. SortedByPrio(d, pn)
  BY <1>2, <1>3, <1>4, SortedSame
<1>7. /\ d \in Seq(Threads) /\ t \in Threads /\ t \notin ToSet(d) /\ NoDuplicates(d)
      /\ pn \in [Threads -> Nat] /\ SortedByPrio(d, pn)
  BY <1>1, <1>2, <1>4, <1>6
<1>8. /\ r \in Seq(Threads) /\ NoDuplicates(r) /\ SortedByPrio(r, pn)
      /\ ToSet(r) = ToSet(d) \union {t}
  BY <1>5, <1>7, RequeuedRest
<1> QED BY <1>2, <1>8 DEF Reordered

\* The structures of the kernel, given the ready lists.
LEMMA PrioInv ==
    ASSUME NEW kk, KInv(kk), NEW r \in KernelType, NEW t, NEW p, Repriced(kk, r, t, p),
           \A c \in Cores : /\ NoDuplicates(r.ready[c]) /\ SortedByPrio(r.ready[c], r.prio)
                            /\ ToSet(r.ready[c]) = ToSet(kk.ready[c])
    PROVE  KInv(r)
BY DEF KInv, KInvX, Repriced

\* The order of the cores.  A running thread may lose importance only on the
\* core that will reschedule, or if its core is told.
LEMMA PrioOrder ==
    ASSUME NEW kk, NEW X, Sound(kk, X), NEW c \in Cores, NEW t \in Threads, NEW p \in Nat,
           NEW r \in KernelType, Repriced(kk, r, t, p), kk.notified \subseteq r.notified,
           \/ Owner[t] = c \/ Owner[t] \in r.notified
           \/ kk.state[t] # "READY" /\ (kk.state[t] = "CURRENT" => p >= kk.prio[t])
    PROVE  OrderedBut(r, X \union {c})
<1> SUFFICES ASSUME NEW d \in Cores, d \notin r.isr, d \notin r.notified, d \notin X, d # c,
                    NEW u \in Threads, r.state[u] = "READY", Owner[u] = d
             PROVE  r.prio[u] <= r.prio[r.current[d]]
  BY DEF OrderedBut, Ordered
<1>1. KInv(kk) /\ Ordered(kk, d)
  BY DEF Sound, OrderedBut, Repriced
<1>2. kk.prio \in [Threads -> Nat] /\ kk.current[d] \in Threads /\ kk.state[kk.current[d]] = "CURRENT"
  BY SoundFacts
<1>3. Owner[kk.current[d]] = d
  BY <1>1 DEF KInv, KInvX
<1>4. kk.state[u] = "READY" /\ kk.prio[u] <= kk.prio[kk.current[d]]
  BY <1>1 DEF Ordered, Repriced
<1>5. r.prio = [kk.prio EXCEPT ![t] = p] /\ r.current = kk.current
  BY DEF Repriced
<1>6. CASE Owner[t] # d
  BY <1>2, <1>3, <1>4, <1>5, <1>6
<1>7. CASE Owner[t] = d
  <2>1. u # t /\ (kk.current[d] = t => p >= kk.prio[t])
    BY <1>2, <1>4, <1>7
  <2> QED BY <1>2, <1>4, <1>5, <2>1
<1> QED BY <1>6, <1>7

\* A thread that is not in a ready list.
LEMMA PricePlain ==
    ASSUME NEW kk, NEW X, Sound(kk, X), NEW c \in Cores, NEW t \in Threads, NEW p \in Prios,
           kk.state[t] # "READY",
           NEW r, \/ /\ r = [kk EXCEPT !.prio[t] = p]
                     /\ Owner[t] = c \/ (kk.state[t] = "CURRENT" => p >= kk.prio[t])
                  \/ r = [chSysNotifyInstance(kk, c, t) EXCEPT !.prio[t] = p]
    PROVE  Sound(r, X \union {c}) /\ Repriced(kk, r, t, p)
<1>1. KInv(kk) /\ kk \in KernelType /\ kk.prio \in [Threads -> Nat]
  BY SoundFacts DEF Sound
<1>2. Owner[t] \in Cores
  BY KernelAssumption
<1> DEFINE pn == [kk.prio EXCEPT ![t] = p]
           nn == IF Owner[t] = c THEN kk.notified ELSE kk.notified \union {Owner[t]}
<1>a. PICK n : /\ r = [kk EXCEPT !.prio = pn, !.notified = n]
               /\ \/ n = nn
                  \/ /\ n = kk.notified
                     /\ Owner[t] = c \/ (kk.state[t] = "CURRENT" => p >= kk.prio[t])
  <2>1. CASE r = [kk EXCEPT !.prio[t] = p]
    <3>1. r = [kk EXCEPT !.prio = pn, !.notified = kk.notified]
      BY <1>1, <2>1 DEF KernelType
    <3>2. CASE Owner[t] = c \/ (kk.state[t] = "CURRENT" => p >= kk.prio[t])
      BY <3>1, <3>2
    <3>3. CASE r = [chSysNotifyInstance(kk, c, t) EXCEPT !.prio[t] = p]
      <4>1. r = [kk EXCEPT !.prio = pn, !.notified = nn]
        BY <1>1, <3>3 DEF KernelType, chSysNotifyInstance
      <4> QED BY <4>1
    <3> QED BY <3>2, <3>3
  <2>2. CASE r = [chSysNotifyInstance(kk, c, t) EXCEPT !.prio[t] = p]
    <3>1. r = [kk EXCEPT !.prio = pn, !.notified = nn]
      BY <1>1, <2>2 DEF KernelType, chSysNotifyInstance
    <3> QED BY <3>1
  <2> QED BY <2>1, <2>2
<1>b. pn \in [Threads -> Prios] /\ n \in SUBSET Cores
  BY <1>1, <1>2, <1>a DEF KernelType
<1>3. r \in KernelType /\ Repriced(kk, r, t, p) /\ r.ready = kk.ready /\ r.notified = n
  <2> HIDE DEF pn
  <2>1. /\ r.prio = pn /\ r.state = kk.state /\ r.current = kk.current
        /\ r.rdymsg = kk.rdymsg /\ r.isr = kk.isr /\ r.armed = kk.armed /\ r.firing = kk.firing
        /\ r.ready = kk.ready /\ r.notified = n
    BY <1>1, <1>a DEF KernelType
  <2>2. r \in KernelType
    BY <1>1, <1>a, <1>b DEF KernelType
  <2> QED BY <2>1, <2>2 DEF Repriced, pn
<1>4. kk.notified \subseteq r.notified /\ \/ Owner[t] = c \/ Owner[t] \in r.notified
                                          \/ (kk.state[t] = "CURRENT" => p >= kk.prio[t])
  BY <1>3, <1>a
<1>5. ASSUME NEW d \in Cores
      PROVE  /\ NoDuplicates(r.ready[d]) /\ SortedByPrio(r.ready[d], r.prio)
             /\ ToSet(r.ready[d]) = ToSet(kk.ready[d])
  <2> PICK q : q = kk.ready[d]
    OBVIOUS
  <2>1. /\ q \in Seq(Threads) /\ NoDuplicates(q) /\ SortedByPrio(q, kk.prio)
        /\ \A u \in ToSet(q) : u \in Threads /\ kk.state[u] = "READY"
    BY <1>1 DEF KInv, KInvX, KernelType
  <2>2. \A u \in ToSet(q) : r.prio[u] = kk.prio[u]
    BY <1>1, <1>3, <2>1 DEF Repriced
  <2>3. SortedByPrio(q, r.prio)
    BY <2>1, <2>2, SortedSame
  <2> QED BY <1>3, <2>1, <2>3
<1>6. KInv(r)
  BY <1>1, <1>3, <1>5, PrioInv
<1>7. p \in Nat
  BY DEF Prios
<1>8. OrderedBut(r, X \union {c})
  BY <1>3, <1>4, <1>7, PrioOrder
<1> QED BY <1>3, <1>6, <1>8 DEF Sound

\* sch_requeue_behind(), for a thread that is ready.
LEMMA PriceReady ==
    ASSUME NEW kk, NEW X, Sound(kk, X), NEW c \in Cores, NEW t \in Threads, NEW p \in Prios,
           kk.state[t] = "READY",
           NEW r, r = sch_requeue_behind([kk EXCEPT !.prio[t] = p], c, t)
    PROVE  Sound(r, X \union {c}) /\ Repriced(kk, r, t, p)
<1>1. KInv(kk) /\ kk \in KernelType /\ kk.prio \in [Threads -> Nat]
  BY SoundFacts DEF Sound
<1>2. Owner[t] \in Cores /\ p \in Nat
  BY KernelAssumption DEF Prios
<1> PICK pn : pn = [kk.prio EXCEPT ![t] = p]
  OBVIOUS
<1> PICK q : q = ch_pqueue_insert_behind(ch_queue_dequeue(kk.ready[Owner[t]], t), t, pn)
  OBVIOUS
<1>3. /\ kk.ready[Owner[t]] \in Seq(Threads) /\ NoDuplicates(kk.ready[Owner[t]])
      /\ SortedByPrio(kk.ready[Owner[t]], kk.prio) /\ t \in ToSet(kk.ready[Owner[t]])
  BY <1>1, <1>2 DEF KInv, KInvX, KernelType
<1>4. /\ q \in Seq(Threads) /\ NoDuplicates(q) /\ SortedByPrio(q, pn)
      /\ ToSet(q) = ToSet(kk.ready[Owner[t]])
  <2>1. Reordered(kk.ready[Owner[t]], q, pn)
    BY <1>1, <1>2, <1>3, Requeued
  <2> QED BY <2>1 DEF Reordered
<1>5. /\ r \in KernelType /\ Repriced(kk, r, t, p)
      /\ r.ready = [kk.ready EXCEPT ![Owner[t]] = q]
      /\ r.notified = IF Owner[t] = c THEN kk.notified ELSE kk.notified \union {Owner[t]}
  BY <1>1, <1>2, <1>4 DEF KernelType, chSysNotifyInstance, sch_requeue_behind, Repriced
<1>6. ASSUME NEW d \in Cores
      PROVE  /\ NoDuplicates(r.ready[d]) /\ SortedByPrio(r.ready[d], r.prio)
             /\ ToSet(r.ready[d]) = ToSet(kk.ready[d])
  <2>1. CASE d = Owner[t]
    <3>1. r.ready[d] = q /\ r.prio = pn
      BY <1>1, <1>5, <2>1 DEF KernelType, Repriced
    <3> QED BY <1>4, <2>1, <3>1
  <2>2. CASE d # Owner[t]
    <3> PICK l : l = kk.ready[d]
      OBVIOUS
    <3>1. /\ l \in Seq(Threads) /\ NoDuplicates(l) /\ SortedByPrio(l, kk.prio)
          /\ \A u \in ToSet(l) : u \in Threads /\ Owner[u] = d
      BY <1>1 DEF KInv, KInvX, KernelType
    <3>2. \A u \in ToSet(l) : r.prio[u] = kk.prio[u]
      BY <1>1, <1>5, <2>2, <3>1 DEF Repriced
    <3>3. SortedByPrio(l, r.prio)
      BY <3>1, <3>2, SortedSame
    <3>4. r.ready[d] = l
      BY <1>1, <1>5, <2>2 DEF KernelType
    <3> QED BY <3>1, <3>3, <3>4
  <2> QED BY <2>1, <2>2
<1>7. KInv(r)
  BY <1>1, <1>5, <1>6, PrioInv
<1>8. kk.notified \subseteq r.notified /\ (Owner[t] = c \/ Owner[t] \in r.notified)
  BY <1>5
<1>9. OrderedBut(r, X \union {c})
  BY <1>2, <1>5, <1>8, PrioOrder
<1> QED BY <1>5, <1>7, <1>9 DEF Sound

-----------------------------------------------------------------------------
(* The waits *)

\* No thread begins or ends a wait for a mutex or on a condition variable,
\* and no priority changes.
Same(kk, r) ==
    /\ r.prio = kk.prio
    /\ \A u \in Threads : /\ (r.state[u] = "WTMTX") <=> (kk.state[u] = "WTMTX")
                          /\ (r.state[u] = "WTCOND") <=> (kk.state[u] = "WTCOND")

LEMMA SameOthers ==
    ASSUME NEW kk, NEW r, NEW t, Others(kk, r, {t}),
           \A s \in {kk.state[t], r.state[t]} : s \notin {"WTMTX", "WTCOND"}
    PROVE  Same(kk, r)
BY DEF Same, Others

LEMMA SameStill ==
    ASSUME NEW kk, NEW r, Others(kk, r, {})
    PROVE  Same(kk, r)
BY DEF Same, Others

LEMMA SameQueues ==
    ASSUME NEW kk, NEW r, NEW qu, NEW wt, NEW O, NEW w, NEW p, Same(kk, r),
           w \in {"WTMTX", "WTCOND"}, QueuesExact(kk, qu, wt, O, w, p)
    PROVE  QueuesExact(r, qu, wt, O, w, p)
BY DEF Same, QueuesExact

LEMMA SameWaiting ==
    ASSUME NEW kk, NEW r, NEW mq, NEW cq, NEW wt, NEW ow, Same(kk, r),
           Waiting(kk, mq, cq, wt, ow)
    PROVE  Waiting(r, mq, cq, wt, ow)
<1>1. /\ QueuesExact(kk, mq, wt, Mutexes, "WTMTX", TRUE)
      /\ QueuesExact(kk, cq, wt, Conds, "WTCOND", TRUE)
      /\ WaitersOK(kk, wt, ow)
  BY DEF Waiting
<1>2. QueuesExact(r, mq, wt, Mutexes, "WTMTX", TRUE)
  BY <1>1, SameQueues
<1>3. QueuesExact(r, cq, wt, Conds, "WTCOND", TRUE)
  BY <1>1, SameQueues
<1>4. WaitersOK(r, wt, ow)
  BY <1>1 DEF WaitersOK, Same
<1> QED BY <1>2, <1>3, <1>4 DEF Waiting

LEMMA SameExact ==
    ASSUME NEW kk, NEW r, NEW wt, NEW ow, NEW rp, NEW t, NEW E, NEW q, Same(kk, r),
           Exact(kk, wt, ow, rp, t, E, q)
    PROVE  Exact(r, wt, ow, rp, t, E, q)
<1>1. \A u \in Threads : Waits(r, wt, ow, u, t) <=> Waits(kk, wt, ow, u, t)
  BY DEF Same, Waits
<1>2. r.prio = kk.prio
  BY DEF Same
<1> QED BY <1>1, <1>2 DEF Exact

LEMMA SameExacts ==
    ASSUME NEW kk, NEW r, NEW wt, NEW ow, NEW rp, NEW X, Same(kk, r),
           Exacts(kk, wt, ow, rp, X)
    PROVE  Exacts(r, wt, ow, rp, X)
<1>1. r.prio = kk.prio
  BY DEF Same
<1> QED BY <1>1, SameExact DEF Exacts

\* h is the most important of the threads that wait in the state w for s.
First(kk, wt, w, s, h) ==
    /\ h \in Threads /\ kk.state[h] = w /\ wt[h] = s
    /\ \A u \in Threads : kk.state[u] = w /\ wt[u] = s => kk.prio[h] >= kk.prio[u]

\* The head of the queue of a mutex is its most important waiter.
LEMMA HeadIsMax ==
    ASSUME NEW kk, NEW qu, NEW wt, NEW O, NEW w, QueuesExact(kk, qu, wt, O, w, TRUE),
           kk.prio \in [Threads -> Nat], NEW s \in O, qu[s] # <<>>, NEW h, h = Head(qu[s])
    PROVE  First(kk, wt, w, s, h)
<1> PICK q : q = qu[s]
  OBVIOUS
<1>1. /\ q \in Seq(Threads) /\ SortedByPrio(q, kk.prio) /\ q # <<>> /\ h = Head(q)
      /\ ToSet(q) = {t \in Threads : kk.state[t] = w /\ wt[t] = s}
  BY DEF QueuesExact
<1>2. Len(q) \in Nat /\ Len(q) >= 1 /\ h = q[1]
  BY <1>1
<1>3. \A i \in 1 .. Len(q) : q[i] \in Threads /\ kk.prio[q[1]] >= kk.prio[q[i]]
  <2> SUFFICES ASSUME NEW i \in 1 .. Len(q) PROVE q[i] \in Threads /\ kk.prio[q[1]] >= kk.prio[q[i]]
    OBVIOUS
  <2>1. q[i] \in Threads /\ q[1] \in Threads
    BY <1>1, <1>2
  <2>2. CASE i = 1
    BY <2>1, <2>2
  <2>3. CASE i > 1
    BY <1>1, <1>2, <2>1, <2>3 DEF SortedByPrio, IsSorted
  <2> QED BY <2>1, <2>2, <2>3
<1>4. ToSet(q) = {q[i] : i \in 1 .. Len(q)}
  BY <1>1 DEF ToSet
<1>5. h \in ToSet(q)
  BY <1>2, <1>4
<1>6. \A u \in ToSet(q) : kk.prio[h] >= kk.prio[u]
  BY <1>2, <1>3, <1>4
<1>7. \A u \in Threads : kk.state[u] = w /\ wt[u] = s => u \in ToSet(q)
  BY <1>1
<1> QED BY <1>1, <1>5, <1>6, <1>7 DEF First

\* A queue is reordered when one of its threads changes its priority.
LEMMA PriceQueues ==
    ASSUME NEW kk, NEW qu, NEW wt, NEW O, NEW w, QueuesExact(kk, qu, wt, O, w, TRUE),
           kk.prio \in [Threads -> Nat], NEW t \in Threads, NEW p \in Nat,
           NEW r, Repriced(kk, r, t, p), kk.state[t] = w => wt[t] \in O,
           NEW qn, qn = IF kk.state[t] = w
                          THEN [qu EXCEPT ![wt[t]] = Requeue(qu[wt[t]], t, r.prio)] ELSE qu
    PROVE  QueuesExact(r, qn, wt, O, w, TRUE)
<1>1. qu \in [O -> Seq(Threads)] /\ DOMAIN wt = Threads
  BY DEF QueuesExact
<1>2. r.prio = [kk.prio EXCEPT ![t] = p] /\ r.state = kk.state
  BY DEF Repriced
<1>3. ASSUME NEW s \in O
      PROVE  /\ qn[s] \in Seq(Threads) /\ NoDuplicates(qn[s])
             /\ ToSet(qn[s]) = {u \in Threads : r.state[u] = w /\ wt[u] = s}
             /\ SortedByPrio(qn[s], r.prio)
  <2>1. /\ qu[s] \in Seq(Threads) /\ NoDuplicates(qu[s]) /\ SortedByPrio(qu[s], kk.prio)
        /\ ToSet(qu[s]) = {u \in Threads : kk.state[u] = w /\ wt[u] = s}
    BY DEF QueuesExact
  <2>2. CASE kk.state[t] = w /\ wt[t] = s
    <3> PICK q : q = qn[s]
      OBVIOUS
    <3>1. q = ch_pqueue_insert_behind(ch_queue_dequeue(qu[s], t), t, r.prio)
      BY <1>1, <2>2 DEF Requeue, ch_sch_prio_insert
    <3>2. t \in ToSet(qu[s])
      BY <2>1, <2>2
    <3>3. Reordered(qu[s], q, r.prio)
      BY <1>2, <2>1, <3>1, <3>2, Requeued
    <3> QED BY <1>2, <2>1, <3>3 DEF Reordered
  <2>3. CASE ~ (kk.state[t] = w /\ wt[t] = s)
    <3>1. qn[s] = qu[s]
      BY <1>1, <2>3
    <3>2. \A u \in ToSet(qu[s]) : r.prio[u] = kk.prio[u]
      BY <1>2, <2>1, <2>3
    <3>3. SortedByPrio(qu[s], r.prio)
      BY <2>1, <3>2, SortedSame
    <3> QED BY <1>2, <2>1, <3>1, <3>3
  <2> QED BY <2>2, <2>3
<1>4. qn \in [O -> Seq(Threads)]
  <2>1. CASE kk.state[t] = w
    <3>1. Requeue(qu[wt[t]], t, r.prio) = qn[wt[t]]
      BY <1>1, <2>1
    <3>2. Requeue(qu[wt[t]], t, r.prio) \in Seq(Threads)
      BY <1>3, <2>1, <3>1
    <3> QED BY <1>1, <2>1, <3>2
  <2>2. CASE kk.state[t] # w
    BY <1>1, <2>2
  <2> QED BY <2>1, <2>2
<1> QED BY <1>1, <1>3, <1>4 DEF QueuesExact

LEMMA PriceWaiting ==
    ASSUME NEW kk, NEW mq, NEW cq, NEW wt, NEW ow, Waiting(kk, mq, cq, wt, ow),
           kk.prio \in [Threads -> Nat], NEW t \in Threads, NEW p \in Nat,
           NEW r, Repriced(kk, r, t, p),
           NEW mn, mn = IF kk.state[t] = "WTMTX"
                          THEN [mq EXCEPT ![wt[t]] = Requeue(mq[wt[t]], t, r.prio)] ELSE mq,
           NEW cn, cn = IF kk.state[t] = "WTCOND"
                          THEN [cq EXCEPT ![wt[t]] = Requeue(cq[wt[t]], t, r.prio)] ELSE cq
    PROVE  Waiting(r, mn, cn, wt, ow)
<1>1. /\ QueuesExact(kk, mq, wt, Mutexes, "WTMTX", TRUE)
      /\ QueuesExact(kk, cq, wt, Conds, "WTCOND", TRUE)
      /\ WaitersOK(kk, wt, ow)
  BY DEF Waiting
<1>2. (kk.state[t] = "WTMTX" => wt[t] \in Mutexes) /\ (kk.state[t] = "WTCOND" => wt[t] \in Conds)
  BY <1>1 DEF WaitersOK
<1>3. QueuesExact(r, mn, wt, Mutexes, "WTMTX", TRUE)
  BY <1>1, <1>2, PriceQueues
<1>4. QueuesExact(r, cn, wt, Conds, "WTCOND", TRUE)
  BY <1>1, <1>2, PriceQueues
<1>5. WaitersOK(r, wt, ow)
  BY <1>1 DEF WaitersOK, Repriced
<1> QED BY <1>3, <1>4, <1>5 DEF Waiting

\* It matters only to the owner of the mutex the thread waits for.
LEMMA PriceExact ==
    ASSUME NEW kk, NEW wt, NEW ow, NEW rp, NEW t \in Threads, NEW p, NEW r, Repriced(kk, r, t, p),
           kk.prio \in [Threads -> Nat], NEW o, ~ Waits(kk, wt, ow, t, o), NEW E, NEW q,
           Exact(kk, wt, ow, rp, o, E, q)
    PROVE  Exact(r, wt, ow, rp, o, E, q)
<1>1. \A u \in Threads : Waits(r, wt, ow, u, o) <=> Waits(kk, wt, ow, u, o)
  BY DEF Repriced, Waits
<1>2. \A u \in Threads : Waits(kk, wt, ow, u, o) => r.prio[u] = kk.prio[u]
  BY DEF Repriced
<1> QED BY <1>1, <1>2 DEF Exact

\* A mutex goes to its first waiter.
LEMMA PassWaiting ==
    ASSUME NEW kk \in KernelType, NEW mq, NEW cq, NEW wt, NEW ow, Waiting(kk, mq, cq, wt, ow),
           DOMAIN ow = Mutexes, NEW m \in Mutexes, mq[m] # <<>>, NEW h, h = Head(mq[m]),
           NEW r, Woken(kk, r, h)
    PROVE  Waiting(r, [mq EXCEPT ![m] = ch_queue_fifo_remove(mq[m])], cq,
                   [wt EXCEPT ![h] = NoObj], [ow EXCEPT ![m] = h])
<1>1. /\ QueuesExact(kk, mq, wt, Mutexes, "WTMTX", TRUE)
      /\ QueuesExact(kk, cq, wt, Conds, "WTCOND", TRUE)
      /\ WaitersOK(kk, wt, ow)
  BY DEF Waiting
<1>a. DOMAIN wt = Threads
  BY <1>1 DEF QueuesExact
<1>2. PICK q : q = ch_queue_fifo_remove(mq[m])
  OBVIOUS
<1>b. h \in ToSet(mq[m])
  BY <1>1, <1>2, QueueHead
<1>3. h \in ToSet(mq[m]) /\ h \in Threads /\ kk.state[h] = "WTMTX" /\ wt[h] = m
  BY <1>1, <1>b DEF QueuesExact
<1>4. QueueLess(kk, mq[m], q, h, TRUE)
  BY <1>1, <1>2, QueueHead
<1>5. QueuesExact(r, [mq EXCEPT ![m] = q], [wt EXCEPT ![h] = NoObj], Mutexes, "WTMTX", TRUE)
  BY <1>1, <1>3, <1>4, QueueOut
<1>6. Others(kk, r, {h}) /\ r.state[h] \in {"READY", "CURRENT"}
  BY DEF Woken
<1>7. QueuesExact(r, cq, [wt EXCEPT ![h] = NoObj], Conds, "WTCOND", TRUE)
  BY <1>1, <1>3, <1>6, QueueAside
<1>8. WaitersOK(r, [wt EXCEPT ![h] = NoObj], [ow EXCEPT ![m] = h])
  <2> SUFFICES ASSUME NEW u \in Threads
               PROVE  /\ r.state[u] = "WTMTX" =>
                            /\ [wt EXCEPT ![h] = NoObj][u] \in Mutexes
                            /\ [ow EXCEPT ![m] = h][[wt EXCEPT ![h] = NoObj][u]] \in Threads \ {u}
                      /\ r.state[u] = "WTCOND" => [wt EXCEPT ![h] = NoObj][u] \in Conds
    BY DEF WaitersOK
  <2>1. CASE u = h
    BY <1>6, <2>1
  <2>2. CASE u # h
    <3>1. [wt EXCEPT ![h] = NoObj][u] = wt[u]
      BY <1>a, <2>2
    <3>2. /\ kk.state[u] = "WTMTX" => wt[u] \in Mutexes /\ ow[wt[u]] \in Threads \ {u}
          /\ kk.state[u] = "WTCOND" => wt[u] \in Conds
      BY <1>1 DEF WaitersOK
    <3>3. r.state[u] \in {"WTMTX", "WTCOND"} => r.state[u] = kk.state[u]
      BY <1>6, <2>2 DEF Others
    <3> QED BY <1>3, <2>2, <3>1, <3>2, <3>3
  <2> QED BY <2>1, <2>2
<1> QED BY <1>2, <1>5, <1>7, <1>8 DEF Waiting

\* The new owner has the priority of the others that wait for the mutex; the
\* old one is left to compute its own.
LEMMA PassExacts ==
    ASSUME NEW kk \in KernelType, NEW mq, NEW cq, NEW wt, NEW ow, Waiting(kk, mq, cq, wt, ow),
           DOMAIN ow = Mutexes, NEW m \in Mutexes, mq[m] # <<>>, NEW h, h = Head(mq[m]),
           NEW r, Woken(kk, r, h), NEW rp, NEW X, Exacts(kk, wt, ow, rp, X), h \notin X
    PROVE  Exacts(r, [wt EXCEPT ![h] = NoObj], [ow EXCEPT ![m] = h], rp, X \union {ow[m]})
<1>1. QueuesExact(kk, mq, wt, Mutexes, "WTMTX", TRUE) /\ WaitersOK(kk, wt, ow)
  BY DEF Waiting
<1>2. kk.prio \in [Threads -> Nat]
  BY DEF KernelType, Prios
<1>a. First(kk, wt, "WTMTX", m, h)
  BY <1>1, <1>2, HeadIsMax
<1>3. h \in Threads /\ kk.state[h] = "WTMTX" /\ wt[h] = m
  BY <1>a DEF First
<1>4. \A u \in Threads : kk.state[u] = "WTMTX" /\ wt[u] = m => kk.prio[h] >= kk.prio[u]
  BY <1>a DEF First
<1>5. r.prio = kk.prio /\ r.state[h] \in {"READY", "CURRENT"}
  BY DEF Woken, Others
<1>6. \A u \in Threads \ {h} : (r.state[u] = "WTMTX") <=> (kk.state[u] = "WTMTX")
  BY DEF Woken, Others
<1>7. DOMAIN wt = Threads
  BY <1>1 DEF QueuesExact
<1>8. \A u \in Threads : kk.state[u] = "WTMTX" => wt[u] \in Mutexes /\ ow[wt[u]] \in Threads \ {u}
  BY <1>1 DEF WaitersOK
<1> PICK wn : wn = [wt EXCEPT ![h] = NoObj]
  OBVIOUS
<1> PICK on : on = [ow EXCEPT ![m] = h]
  OBVIOUS
<1>9. \A u \in Threads, t \in Threads :
         Waits(r, wn, on, u, t) <=> /\ u # h /\ kk.state[u] = "WTMTX"
                                    /\ IF wt[u] = m THEN t = h ELSE ow[wt[u]] = t
  BY <1>3, <1>5, <1>6, <1>7, <1>8 DEF Waits
<1>10. ASSUME NEW t \in Threads, t \notin X, t # ow[m]
       PROVE  Exact(r, wn, on, rp, t, {}, r.prio[t])
  <2>1. Exact(kk, wt, ow, rp, t, {}, kk.prio[t])
    BY <1>10 DEF Exacts
  <2>2. /\ \/ kk.prio[t] = rp[t]
           \/ \E u \in Threads : Waits(kk, wt, ow, u, t) /\ kk.prio[t] = kk.prio[u]
        /\ kk.prio[t] >= rp[t]
        /\ \A u \in Threads : Waits(kk, wt, ow, u, t) => kk.prio[t] >= kk.prio[u]
    BY <2>1 DEF Exact
  <2>3. \A u \in Threads : Waits(kk, wt, ow, u, t) => Waits(r, wn, on, u, t)
    BY <1>3, <1>9, <1>10 DEF Waits
  <2>4. \A u \in Threads : Waits(r, wn, on, u, t) => kk.prio[t] >= kk.prio[u]
    <3> SUFFICES ASSUME NEW u \in Threads, Waits(r, wn, on, u, t) PROVE kk.prio[t] >= kk.prio[u]
      OBVIOUS
    <3>1. CASE wt[u] = m
      BY <1>4, <1>9, <3>1
    <3>2. CASE wt[u] # m
      <4>1. Waits(kk, wt, ow, u, t)
        BY <1>9, <3>2 DEF Waits
      <4> QED BY <2>2, <4>1
    <3> QED BY <3>1, <3>2
  <2> QED BY <1>5, <2>2, <2>3, <2>4 DEF Exact
<1> QED BY <1>10 DEF Exacts

\* A mutex nobody waits for changes hands.
LEMMA FreeWaiting ==
    ASSUME NEW kk, NEW mq, NEW cq, NEW wt, NEW ow, Waiting(kk, mq, cq, wt, ow),
           DOMAIN ow = Mutexes, NEW m \in Mutexes, mq[m] = <<>>, NEW n
    PROVE  Waiting(kk, mq, cq, wt, [ow EXCEPT ![m] = n])
<1>1. /\ QueuesExact(kk, mq, wt, Mutexes, "WTMTX", TRUE)
      /\ QueuesExact(kk, cq, wt, Conds, "WTCOND", TRUE)
      /\ WaitersOK(kk, wt, ow)
  BY DEF Waiting
<1>2. \A u \in Threads : kk.state[u] = "WTMTX" => wt[u] # m
  <2>1. ToSet(mq[m]) = {}
    BY DEF ToSet
  <2> QED BY <1>1, <2>1 DEF QueuesExact
<1>3. WaitersOK(kk, wt, [ow EXCEPT ![m] = n])
  BY <1>1, <1>2 DEF WaitersOK
<1> QED BY <1>1, <1>3 DEF Waiting

LEMMA FreeExacts ==
    ASSUME NEW kk, NEW mq, NEW cq, NEW wt, NEW ow, Waiting(kk, mq, cq, wt, ow),
           DOMAIN ow = Mutexes, NEW m \in Mutexes, mq[m] = <<>>, NEW n, NEW rp, NEW X,
           Exacts(kk, wt, ow, rp, X)
    PROVE  Exacts(kk, wt, [ow EXCEPT ![m] = n], rp, X)
<1>1. QueuesExact(kk, mq, wt, Mutexes, "WTMTX", TRUE) /\ WaitersOK(kk, wt, ow)
  BY DEF Waiting
<1>2. \A u \in Threads : kk.state[u] = "WTMTX" => wt[u] # m /\ wt[u] \in Mutexes
  <2>1. ToSet(mq[m]) = {}
    BY DEF ToSet
  <2> QED BY <1>1, <2>1 DEF QueuesExact, WaitersOK
<1> PICK on : on = [ow EXCEPT ![m] = n]
  OBVIOUS
<1>3. \A u \in Threads, t \in Threads : Waits(kk, wt, on, u, t) <=> Waits(kk, wt, ow, u, t)
  BY <1>2 DEF Waits
<1>4. ASSUME NEW t \in Threads, t \notin X PROVE Exact(kk, wt, on, rp, t, {}, kk.prio[t])
  <2>1. Exact(kk, wt, ow, rp, t, {}, kk.prio[t])
    BY <1>4 DEF Exacts
  <2> QED BY <1>3, <2>1 DEF Exact
<1> QED BY <1>4 DEF Exacts

\* The queue a thread goes into, by priority.
LEMMA PrioJoin ==
    ASSUME NEW kk \in KernelType, NEW qu, NEW wt, NEW O, NEW w,
           QueuesExact(kk, qu, wt, O, w, TRUE), NEW s \in O, NEW t \in Threads, kk.state[t] # w,
           NEW q, q = ch_sch_prio_insert(qu[s], t, kk.prio)
    PROVE  QueueMore(kk, qu[s], q, t, TRUE)
<1>1. /\ qu[s] \in Seq(Threads) /\ NoDuplicates(qu[s]) /\ SortedByPrio(qu[s], kk.prio)
      /\ t \notin ToSet(qu[s])
  BY DEF QueuesExact
<1>2. kk.prio \in [Threads -> Nat]
  BY DEF KernelType, Prios
<1>3. q = ch_pqueue_insert_behind(qu[s], t, kk.prio)
  BY DEF ch_sch_prio_insert
<1>4. /\ q \in Seq(Threads) /\ NoDuplicates(q) /\ SortedByPrio(q, kk.prio)
      /\ ToSet(q) = ToSet(qu[s]) \union {t}
  BY <1>1, <1>2, <1>3, RequeuedRest
<1> QED BY <1>4 DEF QueueMore

\* A thread goes to sleep on a mutex that another thread owns.
LEMMA SleepWaiting ==
    ASSUME NEW kk \in KernelType, NEW mq, NEW cq, NEW wt, NEW ow, Waiting(kk, mq, cq, wt, ow),
           NEW m \in Mutexes, NEW t \in Threads, ow[m] \in Threads \ {t},
           kk.state[t] = "CURRENT", NEW r, Asleep(kk, r, t, "WTMTX")
    PROVE  Waiting(r, [mq EXCEPT ![m] = ch_sch_prio_insert(mq[m], t, kk.prio)], cq,
                   [wt EXCEPT ![t] = m], ow)
<1>1. /\ QueuesExact(kk, mq, wt, Mutexes, "WTMTX", TRUE)
      /\ QueuesExact(kk, cq, wt, Conds, "WTCOND", TRUE)
      /\ WaitersOK(kk, wt, ow)
  BY DEF Waiting
<1> PICK q : q = ch_sch_prio_insert(mq[m], t, kk.prio)
  OBVIOUS
<1>a. kk.state[t] # "WTMTX" /\ kk.state[t] # "WTCOND"
  OBVIOUS
<1>2. QueueMore(kk, mq[m], q, t, TRUE)
  BY <1>1, <1>a, PrioJoin
<1>3. QueuesExact(r, [mq EXCEPT ![m] = q], [wt EXCEPT ![t] = m], Mutexes, "WTMTX", TRUE)
  BY <1>1, <1>2, QueueIn
<1>4. Others(kk, r, {t}) /\ r.state[t] = "WTMTX"
  BY DEF Asleep
<1>5. QueuesExact(r, cq, [wt EXCEPT ![t] = m], Conds, "WTCOND", TRUE)
  BY <1>1, <1>4, QueueAside
<1>6. DOMAIN wt = Threads
  BY <1>1 DEF QueuesExact
<1>7. WaitersOK(r, [wt EXCEPT ![t] = m], ow)
  BY <1>1, <1>4, <1>6 DEF WaitersOK, Others
<1> QED BY <1>3, <1>5, <1>7 DEF Waiting

\* It then counts for the priority of the owner, as it did during the loop.
LEMMA SleepExact ==
    ASSUME NEW kk, NEW wt, NEW ow, DOMAIN wt = Threads,
           NEW m \in Mutexes, NEW t \in Threads, kk.state[t] = "CURRENT",
           NEW r, Asleep(kk, r, t, "WTMTX"), NEW rp, NEW o, NEW q,
           Exact(kk, wt, ow, rp, o, IF o = ow[m] THEN {kk.prio[t]} ELSE {}, q)
    PROVE  Exact(r, [wt EXCEPT ![t] = m], ow, rp, o, {}, q)
<1>1. r.prio = kk.prio /\ r.state[t] = "WTMTX"
  BY DEF Asleep, Others
<1>2. \A u \in Threads \ {t} : (r.state[u] = "WTMTX") <=> (kk.state[u] = "WTMTX")
  BY DEF Asleep, Others
<1> PICK wn : wn = [wt EXCEPT ![t] = m]
  OBVIOUS
<1>a. wn[t] = m /\ \A u \in Threads \ {t} : wn[u] = wt[u]
  OBVIOUS
<1>3. \A u \in Threads :
         Waits(r, wn, ow, u, o) <=> Waits(kk, wt, ow, u, o) \/ (u = t /\ o = ow[m])
  <2>1. \A u \in Threads \ {t} : Waits(r, wn, ow, u, o) <=> Waits(kk, wt, ow, u, o)
    BY <1>2, <1>a DEF Waits
  <2>2. ~ Waits(kk, wt, ow, t, o) /\ (Waits(r, wn, ow, t, o) <=> o = ow[m])
    BY <1>1, <1>a DEF Waits
  <2> SUFFICES ASSUME NEW u \in Threads
               PROVE  Waits(r, wn, ow, u, o) <=> Waits(kk, wt, ow, u, o) \/ (u = t /\ o = ow[m])
    OBVIOUS
  <2>3. CASE u = t
    BY <2>2, <2>3
  <2>4. CASE u # t
    BY <2>1, <2>4
  <2> QED BY <2>3, <2>4
<1> PICK E : E = IF o = ow[m] THEN {kk.prio[t]} ELSE {}
  OBVIOUS
<1>4. Exact(kk, wt, ow, rp, o, E, q)
  OBVIOUS
<1>5. \A e \in E : e = kk.prio[t] /\ o = ow[m]
  OBVIOUS
<1>6. o = ow[m] => kk.prio[t] \in E
  OBVIOUS
<1>7. /\ q = rp[o] \/ q \in E \/ \E u \in Threads : Waits(kk, wt, ow, u, o) /\ q = kk.prio[u]
      /\ q >= rp[o] /\ \A e \in E : q >= e
      /\ \A u \in Threads : Waits(kk, wt, ow, u, o) => q >= kk.prio[u]
  BY <1>4 DEF Exact
<1>8. q = rp[o] \/ \E u \in Threads : Waits(r, wn, ow, u, o) /\ q = r.prio[u]
  <2>1. CASE q = rp[o]
    BY <2>1
  <2>2. CASE q \in E
    <3>1. Waits(r, wn, ow, t, o) /\ q = r.prio[t]
      BY <1>1, <1>3, <1>5, <2>2
    <3> QED BY <3>1
  <2>3. CASE \E u \in Threads : Waits(kk, wt, ow, u, o) /\ q = kk.prio[u]
    <3>1. PICK u \in Threads : Waits(kk, wt, ow, u, o) /\ q = kk.prio[u]
      BY <2>3
    <3>2. Waits(r, wn, ow, u, o) /\ q = r.prio[u]
      BY <1>1, <1>3, <3>1
    <3> QED BY <3>2
  <2> QED BY <1>7, <2>1, <2>2, <2>3
<1>9. \A u \in Threads : Waits(r, wn, ow, u, o) => q >= r.prio[u]
  BY <1>1, <1>3, <1>6, <1>7
<1> QED BY <1>7, <1>8, <1>9 DEF Exact

\* A thread goes to sleep on a condition variable.
LEMMA SleepCond ==
    ASSUME NEW kk \in KernelType, NEW mq, NEW cq, NEW wt, NEW ow, Waiting(kk, mq, cq, wt, ow),
           NEW v \in Conds, NEW t \in Threads,
           kk.state[t] = "CURRENT", NEW r, Asleep(kk, r, t, "WTCOND")
    PROVE  Waiting(r, mq, [cq EXCEPT ![v] = ch_sch_prio_insert(cq[v], t, kk.prio)],
                   [wt EXCEPT ![t] = v], ow)
<1>1. /\ QueuesExact(kk, mq, wt, Mutexes, "WTMTX", TRUE)
      /\ QueuesExact(kk, cq, wt, Conds, "WTCOND", TRUE)
      /\ WaitersOK(kk, wt, ow)
  BY DEF Waiting
<1> PICK q : q = ch_sch_prio_insert(cq[v], t, kk.prio)
  OBVIOUS
<1>a. kk.state[t] # "WTMTX" /\ kk.state[t] # "WTCOND"
  OBVIOUS
<1>2. QueueMore(kk, cq[v], q, t, TRUE)
  BY <1>1, <1>a, PrioJoin
<1>3. QueuesExact(r, [cq EXCEPT ![v] = q], [wt EXCEPT ![t] = v], Conds, "WTCOND", TRUE)
  BY <1>1, <1>2, QueueIn
<1>4. Others(kk, r, {t}) /\ r.state[t] = "WTCOND"
  BY DEF Asleep
<1>5. QueuesExact(r, mq, [wt EXCEPT ![t] = v], Mutexes, "WTMTX", TRUE)
  BY <1>1, <1>4, QueueAside
<1>6. DOMAIN wt = Threads
  BY <1>1 DEF QueuesExact
<1>7. WaitersOK(r, [wt EXCEPT ![t] = v], ow)
  BY <1>1, <1>4, <1>6 DEF WaitersOK, Others
<1> QED BY <1>3, <1>5, <1>7 DEF Waiting

\* A thread stops waiting on a condition variable.
LEMMA LeaveCond ==
    ASSUME NEW kk, NEW mq, NEW cq, NEW wt, NEW ow, Waiting(kk, mq, cq, wt, ow),
           NEW v \in Conds, NEW t \in ToSet(cq[v]), NEW q, QueueLess(kk, cq[v], q, t, TRUE),
           NEW r, Woken(kk, r, t)
    PROVE  Waiting(r, mq, [cq EXCEPT ![v] = q], [wt EXCEPT ![t] = NoObj], ow)
<1>1. /\ QueuesExact(kk, mq, wt, Mutexes, "WTMTX", TRUE)
      /\ QueuesExact(kk, cq, wt, Conds, "WTCOND", TRUE)
      /\ WaitersOK(kk, wt, ow)
  BY DEF Waiting
<1>2. QueuesExact(r, [cq EXCEPT ![v] = q], [wt EXCEPT ![t] = NoObj], Conds, "WTCOND", TRUE)
  BY <1>1, QueueOut
<1>3. Others(kk, r, {t}) /\ r.state[t] \in {"READY", "CURRENT"}
  BY DEF Woken
<1>4. t \in Threads /\ kk.state[t] = "WTCOND" /\ DOMAIN wt = Threads
  BY <1>1 DEF QueuesExact
<1>5. QueuesExact(r, mq, [wt EXCEPT ![t] = NoObj], Mutexes, "WTMTX", TRUE)
  BY <1>1, <1>3, <1>4, QueueAside
<1>6. WaitersOK(r, [wt EXCEPT ![t] = NoObj], ow)
  BY <1>1, <1>3, <1>4 DEF WaitersOK, Others
<1> QED BY <1>2, <1>5, <1>6 DEF Waiting

\* What happens on condition variables does not concern the priorities.
LEMMA AsideExacts ==
    ASSUME NEW kk, NEW wt, NEW ow, DOMAIN wt = Threads, NEW t \in Threads, NEW n,
           NEW r, Others(kk, r, {t}), kk.state[t] # "WTMTX", r.state[t] # "WTMTX",
           NEW rp, NEW X, Exacts(kk, wt, ow, rp, X)
    PROVE  Exacts(r, [wt EXCEPT ![t] = n], ow, rp, X)
<1>1. r.prio = kk.prio
  BY DEF Others
<1>2. \A u \in Threads : (r.state[u] = "WTMTX") <=> (kk.state[u] = "WTMTX")
  BY DEF Others
<1> PICK wn : wn = [wt EXCEPT ![t] = n]
  OBVIOUS
<1>3. \A u \in Threads, o \in Threads : Waits(r, wn, ow, u, o) <=> Waits(kk, wt, ow, u, o)
  BY <1>2 DEF Waits
<1>4. ASSUME NEW o \in Threads, o \notin X PROVE Exact(r, wn, ow, rp, o, {}, r.prio[o])
  <2>1. Exact(kk, wt, ow, rp, o, {}, kk.prio[o])
    BY <1>4 DEF Exacts
  <2> QED BY <1>1, <1>3, <2>1 DEF Exact
<1> QED BY <1>4 DEF Exacts

-----------------------------------------------------------------------------
(* __mtx_get_effective_priority() *)

\* q is the priority of a thread with priority rp[tp] that owns the mutexes
\* in list.
Effective(kk, wt, rp, tp, list, q) ==
    /\ q \in Prios
    /\ \/ q = rp[tp]
       \/ \E u \in Threads : kk.state[u] = "WTMTX" /\ wt[u] \in ToSet(list) /\ q = kk.prio[u]
    /\ q >= rp[tp]
    /\ \A u \in Threads : kk.state[u] = "WTMTX" /\ wt[u] \in ToSet(list) => q >= kk.prio[u]

\* What the function computes from the heads of the queues.
LEMMA EffectiveIs ==
    ASSUME k \in KernelType, QueuesExact(k, mqueue, wtobj, Mutexes, "WTMTX", TRUE),
           realprio \in [Threads -> Prios],
           NEW tp \in Threads, NEW list \in Seq(Mutexes),
           NEW q, q = mtx_get_effective_priority(tp, list, mqueue)
    PROVE  Effective(k, wtobj, realprio, tp, list, q)
<1> DEFINE S == {realprio[tp]} \union {WaiterPrio(m, mqueue) : m \in ToSet(list)}
<1>1. k.prio \in [Threads -> Nat] /\ realprio[tp] \in Nat \ {0} /\ mqueue \in [Mutexes -> Seq(Threads)]
  BY DEF KernelType, Prios, QueuesExact
<1>2. \A i \in 1 .. Len(list) : list[i] \in Mutexes
  OBVIOUS
<1>3. ToSet(list) = {list[i] : i \in 1 .. Len(list)} /\ ToSet(list) \subseteq Mutexes
  BY DEF ToSet
<1>4. ASSUME NEW m \in Mutexes
      PROVE  /\ WaiterPrio(m, mqueue) \in Nat
             /\ \/ WaiterPrio(m, mqueue) = 0
                \/ \E u \in Threads : /\ k.state[u] = "WTMTX" /\ wtobj[u] = m
                                      /\ WaiterPrio(m, mqueue) = k.prio[u]
             /\ \A u \in Threads : k.state[u] = "WTMTX" /\ wtobj[u] = m =>
                   WaiterPrio(m, mqueue) >= k.prio[u]
  <2>1. CASE mqueue[m] = <<>>
    <3>1. WaiterPrio(m, mqueue) = 0
      BY <2>1 DEF WaiterPrio
    <3>2. ToSet(mqueue[m]) = {}
      BY <2>1 DEF ToSet
    <3>3. \A u \in Threads : ~ (k.state[u] = "WTMTX" /\ wtobj[u] = m)
      BY <3>2 DEF QueuesExact
    <3> QED BY <3>1, <3>3
  <2>2. CASE mqueue[m] # <<>>
    <3> PICK h : h = Head(mqueue[m])
      OBVIOUS
    <3>1. WaiterPrio(m, mqueue) = k.prio[h]
      BY <2>2 DEF WaiterPrio
    <3>2. First(k, wtobj, "WTMTX", m, h)
      BY <1>1, <2>2, HeadIsMax
    <3> QED BY <1>1, <3>1, <3>2 DEF First
  <2> QED BY <2>1, <2>2
<1>5. \E x \in S : \A y \in S : x >= y
  <2>1. CASE Len(list) = 0
    <3>1. S = {realprio[tp]}
      BY <1>3, <2>1
    <3> HIDE DEF S
    <3>2. realprio[tp] \in S /\ \A y \in S : realprio[tp] >= y
      BY <1>1, <3>1
    <3> QED BY <3>2
  <2>2. CASE Len(list) # 0
    <3> PICK I : I = 1 .. Len(list)
      OBVIOUS
    <3> PICK f : f = [i \in I |-> WaiterPrio(list[i], mqueue)]
      OBVIOUS
    <3>0. Len(list) \in Nat /\ Len(list) \in Int /\ 1 \in Int
      OBVIOUS
    <3>1. Len(list) \in Nat /\ IsFiniteSet(I) /\ I # {}
      <4>1. IsFiniteSet(I)
        BY <3>0, FS_Interval
      <4>2. 1 \in I
        BY <2>2, <3>0
      <4> QED BY <3>0, <4>1, <4>2
    <3>2. \A i \in I : f[i] \in Nat /\ f[i] = WaiterPrio(list[i], mqueue)
      BY <1>2, <1>4
    <3>3. PICK i \in I : \A j \in I : f[i] >= f[j]
      BY <3>1, <3>2, ArgMax
    <3>4. \A m \in ToSet(list) : f[i] >= WaiterPrio(m, mqueue)
      BY <1>3, <3>2, <3>3
    <3>5. f[i] \in S /\ f[i] \in Nat
      BY <1>3, <3>2
    <3>6. CASE f[i] >= realprio[tp]
      <4>1. \A y \in S : f[i] >= y
        BY <3>4, <3>6
      <4> QED BY <3>5, <4>1
    <3>7. CASE ~ (f[i] >= realprio[tp])
      <4>1. \A m \in ToSet(list) : WaiterPrio(m, mqueue) \in Nat
        BY <1>3, <1>4
      <4>2. \A y \in S : realprio[tp] >= y
        BY <1>1, <3>4, <3>5, <3>7, <4>1
      <4> QED BY <4>2
    <3> QED BY <3>6, <3>7
  <2> QED BY <2>1, <2>2
<1>6. q \in S /\ \A y \in S : q >= y
  <2>1. q = Max(S)
    BY DEF mtx_get_effective_priority
  <2> HIDE DEF S
  <2> QED BY <1>5, <2>1 DEF Max
<1>7. S \subseteq Nat
  BY <1>1, <1>3, <1>4
<1>8. q \in Nat /\ q >= realprio[tp] /\ \A m \in ToSet(list) : q >= WaiterPrio(m, mqueue)
  BY <1>6, <1>7
<1>9. \/ q = realprio[tp]
      \/ \E u \in Threads : k.state[u] = "WTMTX" /\ wtobj[u] \in ToSet(list) /\ q = k.prio[u]
  <2>1. CASE q = realprio[tp]
    BY <2>1
  <2>2. CASE q # realprio[tp]
    <3>1. PICK m \in ToSet(list) : q = WaiterPrio(m, mqueue)
      BY <1>6, <2>2
    <3>2. m \in Mutexes /\ q # 0
      BY <1>1, <1>3, <1>8, <3>1
    <3> QED BY <1>4, <3>1, <3>2
  <2> QED BY <2>1, <2>2
<1>10. \A u \in Threads : k.state[u] = "WTMTX" /\ wtobj[u] \in ToSet(list) => q >= k.prio[u]
  <2> SUFFICES ASSUME NEW u \in Threads, k.state[u] = "WTMTX", wtobj[u] \in ToSet(list)
               PROVE  q >= k.prio[u]
    OBVIOUS
  <2> PICK m : m = wtobj[u]
    OBVIOUS
  <2>1. m \in Mutexes /\ m \in ToSet(list)
    BY <1>3
  <2>2. WaiterPrio(m, mqueue) \in Nat /\ WaiterPrio(m, mqueue) >= k.prio[u]
    BY <1>4, <2>1
  <2>3. q >= WaiterPrio(m, mqueue)
    BY <1>8, <2>1
  <2> QED BY <1>1, <1>8, <2>2, <2>3
<1>11. q \in Prios
  BY <1>1, <1>8 DEF Prios
<1> QED BY <1>8, <1>9, <1>10, <1>11 DEF Effective

\* For the mutexes a thread owns this is its exact priority.
LEMMA EffectiveExact ==
    ASSUME NEW kk, NEW wt, NEW ow, NEW rp, NEW cnt, NEW ml, NEW tp \in Threads, NEW q,
           OwnersOK(ow, cnt, ml), WaitersOK(kk, wt, ow),
           Effective(kk, wt, rp, tp, ml[tp], q)
    PROVE  Exact(kk, wt, ow, rp, tp, {}, q)
<1>1. \A u \in Threads : Waits(kk, wt, ow, u, tp) <=> kk.state[u] = "WTMTX" /\ wt[u] \in ToSet(ml[tp])
  BY DEF Waits, OwnersOK, WaitersOK
<1> QED BY <1>1 DEF Exact, Effective

-----------------------------------------------------------------------------
(* Ownership *)

\* A mutex put on top of a list.
OnTop(l, m, n) ==
    n \in Seq(Mutexes) /\ ToSet(n) = ToSet(l) \union {m} /\ NoDuplicates(n) /\ Head(n) = m

\* A mutex that is not in a list goes on top of it.
LEMMA PutOnTop ==
    ASSUME NEW l \in Seq(Mutexes), NEW m \in Mutexes, m \notin ToSet(l), NoDuplicates(l),
           NEW n, n = <<m>> \o l
    PROVE  OnTop(l, m, n)
<1>1. /\ n \in Seq(Mutexes) /\ Len(l) \in Nat /\ Len(n) = Len(l) + 1 /\ n[1] = m
      /\ \A i \in 2 .. Len(n) : n[i] = l[i - 1] /\ i - 1 \in 1 .. Len(l)
  OBVIOUS
<1>2. ToSet(l) = {l[i] : i \in 1 .. Len(l)} /\ ToSet(n) = {n[i] : i \in 1 .. Len(n)}
  <2>1. DOMAIN l = 1 .. Len(l)
    OBVIOUS
  <2>2. DOMAIN n = 1 .. Len(n)
    BY <1>1
  <2> QED BY <2>1, <2>2 DEF ToSet
<1>3. ToSet(n) \subseteq ToSet(l) \union {m}
  <2>1. \A i \in 1 .. Len(n) : i = 1 \/ i \in 2 .. Len(n)
    BY <1>1
  <2> QED BY <1>1, <1>2, <2>1
<1>4. ToSet(l) \union {m} \subseteq ToSet(n)
  <2>1. \A i \in 1 .. Len(l) : l[i] = n[i + 1] /\ i + 1 \in 1 .. Len(n)
    BY <1>1
  <2>2. m \in ToSet(n)
    BY <1>1, <1>2
  <2> QED BY <1>2, <2>1, <2>2
<1>5. NoDuplicates(n)
  <2>1. \A i, j \in 1 .. Len(l) : i < j => l[i] # l[j]
    BY DEF NoDuplicates, IsSorted
  <2>2. ASSUME NEW i \in 1 .. Len(n), NEW j \in 1 .. Len(n), i < j PROVE n[i] # n[j]
    <3>1. j \in 2 .. Len(n) /\ n[j] = l[j - 1] /\ j - 1 \in 1 .. Len(l)
      BY <1>1, <2>2
    <3>2. CASE i = 1
      BY <1>1, <1>2, <3>1, <3>2
    <3>3. CASE i # 1
      <4>1. i \in 2 .. Len(n) /\ n[i] = l[i - 1] /\ i - 1 \in 1 .. Len(l) /\ i - 1 < j - 1
        BY <1>1, <2>2, <3>1, <3>3
      <4> QED BY <2>1, <3>1, <4>1
    <3> QED BY <3>2, <3>3
  <2> QED BY <1>1, <2>2 DEF NoDuplicates, IsSorted
<1>6. Head(n) = m
  BY <1>1
<1> QED BY <1>1, <1>3, <1>4, <1>5, <1>6 DEF OnTop

\* The types of the ownership variables.
OwnTypes(ow, cnt, ml) ==
    /\ ow \in [Mutexes -> Threads \union {NoThread}]
    /\ cnt \in [Mutexes -> 0 .. MaxRecursion]
    /\ ml \in [Threads -> Seq(Mutexes)]

Owning(ow, cnt, ml) == OwnTypes(ow, cnt, ml) /\ OwnersOK(ow, cnt, ml)

\* t takes m, which goes on top of its list.
Taken(ow, cnt, ml, m, t, on, cn, ln) ==
    /\ on = [ow EXCEPT ![m] = t] /\ cn = [cnt EXCEPT ![m] = 1]
    /\ ln = [ml EXCEPT ![t] = <<m>> \o ml[t]]

\* t releases m, the mutex on top of its list.
Dropped(ow, cnt, ml, m, t, on, cn, ln) ==
    /\ m = Head(ml[t]) /\ on = [ow EXCEPT ![m] = NoThread] /\ cn = [cnt EXCEPT ![m] = 0]
    /\ ln = [ml EXCEPT ![t] = Tail(ml[t])]

\* The new owner has the mutex on top of its list.
OwnsOnTop(m, t, ln) == Head(ln[t]) = m

\* A thread takes a free mutex.
LEMMA TakeOwners ==
    ASSUME NEW ow, NEW cnt, NEW ml, Owning(ow, cnt, ml),
           NEW m \in Mutexes, ow[m] = NoThread, NEW t \in Threads,
           NEW on, NEW cn, NEW ln, Taken(ow, cnt, ml, m, t, on, cn, ln)
    PROVE  Owning(on, cn, ln) /\ OwnsOnTop(m, t, ln)
<1> OwnTypes(ow, cnt, ml) /\ OwnersOK(ow, cnt, ml)
  BY DEF Owning
<1> USE DEF Taken
<1>1. /\ ow \in [Mutexes -> Threads \union {NoThread}]
      /\ cnt \in [Mutexes -> 0 .. MaxRecursion] /\ ml \in [Threads -> Seq(Mutexes)]
  BY DEF OwnTypes
<1>2. NoThread \notin Threads /\ 1 \in 0 .. MaxRecursion
  BY KernelAssumption, MutexAssumption
<1>3. ml[t] \in Seq(Mutexes) /\ NoDuplicates(ml[t]) /\ m \notin ToSet(ml[t])
  BY <1>1, <1>2 DEF OwnersOK
<1> PICK l : l = <<m>> \o ml[t]
  OBVIOUS
<1>d. OnTop(ml[t], m, l)
  BY <1>3, PutOnTop
<1>4. l \in Seq(Mutexes) /\ ToSet(l) = ToSet(ml[t]) \union {m} /\ NoDuplicates(l) /\ Head(l) = m
  BY <1>d DEF OnTop
<1>5. ln[t] = l /\ \A u \in Threads \ {t} : ln[u] = ml[u]
  BY <1>1
<1>6. on[m] = t /\ \A x \in Mutexes \ {m} : on[x] = ow[x]
  BY <1>1
<1>7. cn[m] = 1 /\ \A x \in Mutexes \ {m} : cn[x] = cnt[x]
  BY <1>1
<1>a. on \in [Mutexes -> Threads \union {NoThread}]
  BY <1>1
<1>b. cn \in [Mutexes -> 0 .. MaxRecursion]
  BY <1>1, <1>2
<1>c. ln \in [Threads -> Seq(Mutexes)]
  BY <1>1, <1>4
<1>8. OwnTypes(on, cn, ln)
  BY <1>a, <1>b, <1>c DEF OwnTypes
<1>9. \A x \in Mutexes, u \in Threads : (x \in ToSet(ln[u])) <=> (on[x] = u)
  <2>1. \A x \in Mutexes, u \in Threads : (x \in ToSet(ml[u])) <=> (ow[x] = u)
    BY DEF OwnersOK
  <2> QED BY <1>2, <1>4, <1>5, <1>6, <2>1
<1>10. \A u \in Threads : NoDuplicates(ln[u])
  BY <1>4, <1>5 DEF OwnersOK
<1>11. \A x \in Mutexes : (on[x] = NoThread) <=> (cn[x] = 0)
  BY <1>2, <1>6, <1>7 DEF OwnersOK
<1> QED BY <1>4, <1>5, <1>8, <1>9, <1>10, <1>11 DEF OwnersOK, Owning, OwnsOnTop

\* The mutex on top of the list of a thread is released.
LEMMA TopMutex ==
    ASSUME NEW ow, NEW cnt, NEW ml, Owning(ow, cnt, ml), NEW t \in Threads, ml[t] # <<>>
    PROVE  Head(ml[t]) \in Mutexes /\ ow[Head(ml[t])] = t
<1> PICK l : l = ml[t]
  OBVIOUS
<1>1. l \in Seq(Mutexes) /\ l # <<>> /\ NoDuplicates(l)
  BY DEF Owning, OwnTypes, OwnersOK
<1>2. Head(l) \in ToSet(l)
  BY <1>1, FifoRemoveSet
<1>3. Head(l) \in Mutexes
  BY <1>1
<1> QED BY <1>2, <1>3 DEF Owning, OwnersOK

LEMMA DropOwners ==
    ASSUME NEW ow, NEW cnt, NEW ml, Owning(ow, cnt, ml),
           NEW t \in Threads, ml[t] # <<>>, NEW m,
           NEW on, NEW cn, NEW ln, Dropped(ow, cnt, ml, m, t, on, cn, ln)
    PROVE  Owning(on, cn, ln)
<1> OwnTypes(ow, cnt, ml) /\ OwnersOK(ow, cnt, ml)
  BY DEF Owning
<1> USE DEF Dropped
<1>1. /\ ow \in [Mutexes -> Threads \union {NoThread}]
      /\ cnt \in [Mutexes -> 0 .. MaxRecursion] /\ ml \in [Threads -> Seq(Mutexes)]
  BY DEF OwnTypes
<1>2. NoThread \notin Threads /\ 0 \in 0 .. MaxRecursion
  BY KernelAssumption, MutexAssumption
<1> PICK l : l = ml[t]
  OBVIOUS
<1>3. l \in Seq(Mutexes) /\ NoDuplicates(l) /\ l # <<>> /\ m = Head(l)
  BY <1>1 DEF OwnersOK
<1>4. m \in ToSet(l) /\ Tail(l) \in Seq(Mutexes)
  BY <1>3, FifoRemoveSet
<1>5. ToSet(Tail(l)) = ToSet(l) \ {m} /\ NoDuplicates(Tail(l))
  BY <1>3, FifoRemoveSet
<1>6. m \in Mutexes
  BY <1>3, <1>4 DEF ToSet
<1>7. \A x \in Mutexes, u \in Threads : (x \in ToSet(ml[u])) <=> (ow[x] = u)
  BY DEF OwnersOK
<1>8. ow[m] = t
  BY <1>4, <1>6, <1>7
<1>9. ln[t] = Tail(l) /\ \A u \in Threads \ {t} : ln[u] = ml[u]
  BY <1>1
<1>10. on[m] = NoThread /\ \A x \in Mutexes \ {m} : on[x] = ow[x]
  BY <1>1, <1>6
<1>11. cn[m] = 0 /\ \A x \in Mutexes \ {m} : cn[x] = cnt[x]
  BY <1>1, <1>6
<1>12. OwnTypes(on, cn, ln)
  BY <1>1, <1>2, <1>4 DEF OwnTypes
<1>13. ASSUME NEW x \in Mutexes, NEW u \in Threads PROVE (x \in ToSet(ln[u])) <=> (on[x] = u)
  <2>1. CASE u = t
    BY <1>2, <1>5, <1>7, <1>9, <1>10, <2>1
  <2>2. CASE u # t
    BY <1>2, <1>7, <1>8, <1>9, <1>10, <2>2
  <2> QED BY <2>1, <2>2
<1>14. \A u \in Threads : NoDuplicates(ln[u])
  BY <1>5, <1>9 DEF OwnersOK
<1>15. \A x \in Mutexes : (on[x] = NoThread) <=> (cn[x] = 0)
  BY <1>10, <1>11 DEF OwnersOK
<1> QED BY <1>12, <1>13, <1>14, <1>15 DEF OwnersOK, Owning

\* It goes to another thread.
LEMMA PassOwners ==
    ASSUME NEW ow, NEW cnt, NEW ml, Owning(ow, cnt, ml),
           NEW t \in Threads, ml[t] # <<>>, NEW m, m = Head(ml[t]), NEW h \in Threads,
           NEW rest, rest = [ml EXCEPT ![t] = Tail(ml[t])],
           NEW on, NEW cn, NEW ln, on = [ow EXCEPT ![m] = h], cn = [cnt EXCEPT ![m] = 1],
           ln = [rest EXCEPT ![h] = <<m>> \o rest[h]]
    PROVE  Owning(on, cn, ln) /\ OwnsOnTop(m, h, ln)
<1> PICK o1 : o1 = [ow EXCEPT ![m] = NoThread]
  OBVIOUS
<1> PICK c1 : c1 = [cnt EXCEPT ![m] = 0]
  OBVIOUS
<1>1. Dropped(ow, cnt, ml, m, t, o1, c1, rest)
  BY DEF Dropped
<1>2. Owning(o1, c1, rest)
  BY <1>1, DropOwners
<1>3. m \in Mutexes
  BY TopMutex
<1>4. ow \in [Mutexes -> Threads \union {NoThread}] /\ cnt \in [Mutexes -> 0 .. MaxRecursion]
  BY DEF OwnTypes, Owning
<1>5. o1[m] = NoThread /\ on = [o1 EXCEPT ![m] = h] /\ cn = [c1 EXCEPT ![m] = 1]
  BY <1>3, <1>4
<1>6. Taken(o1, c1, rest, m, h, on, cn, ln)
  BY <1>5 DEF Taken
<1> QED BY <1>2, <1>3, <1>5, <1>6, TakeOwners

-----------------------------------------------------------------------------
(* What the calls of the kernel do to the other parts of the invariant       *)

\* The threads outside Y go on waiting, or not; those of Y are not inside a
\* condition wait or do not leave it.
LEMMA ContsMove ==
    ASSUME NEW kk, NEW ct, NEW ow, ContsOK(kk, ct, ow), NEW r, NEW t, Others(kk, r, {t}),
           ct[t] = NoObj \/ r.state[t] \in {"WTCOND", "READY", "CURRENT"}
    PROVE  ContsOK(r, ct, ow)
<1> SUFFICES ASSUME NEW u \in Threads, ct[u] # NoObj
             PROVE  /\ u \in UserThreads /\ ow[ct[u]] # u
                    /\ r.state[u] \in {"WTCOND", "READY", "CURRENT"}
  BY DEF ContsOK
<1>1. /\ u \in UserThreads /\ ow[ct[u]] # u
      /\ kk.state[u] \in {"WTCOND", "READY", "CURRENT"}
  BY DEF ContsOK
<1>2. CASE u = t
  BY <1>1, <1>2
<1>3. CASE u # t
  BY <1>1, <1>3 DEF Others
<1> QED BY <1>2, <1>3

LEMMA ContsStill ==
    ASSUME NEW kk, NEW ct, NEW ow, ContsOK(kk, ct, ow), NEW r, Others(kk, r, {})
    PROVE  ContsOK(r, ct, ow)
BY DEF ContsOK, Others

\* Only t may have begun a wait with a timeout, and not for a mutex.
LEMMA TimeoutsMove ==
    ASSUME NEW kk, TimeoutsOK(kk), NEW r, NEW X, Sound(r, X), NEW t, Others(kk, r, {t}),
           Pending(r) \subseteq Pending(kk) \union {t},
           t \notin Pending(r) \/ r.state[t] \in {"WTCOND", "SLEEPING", "READY", "CURRENT"}
    PROVE  TimeoutsOK(r)
<1> SUFFICES ASSUME NEW u \in Pending(r) PROVE r.state[u] \in {"WTCOND", "SLEEPING", "READY"}
  BY DEF TimeoutsOK
<1>1. u \in Threads /\ r.state[u] \in TimedStates
  BY SoundFacts DEF Pending
<1>2. CASE u = t
  BY <1>1, <1>2 DEF TimedStates
<1>3. CASE u # t
  <2>1. kk.state[u] \in {"WTCOND", "SLEEPING", "READY"}
    BY <1>3 DEF TimeoutsOK
  <2> QED BY <1>1, <1>3, <2>1 DEF Others, TimedStates
<1> QED BY <1>2, <1>3

LEMMA TimeoutsStill ==
    ASSUME NEW kk, TimeoutsOK(kk), NEW r, NEW X, Sound(r, X), Others(kk, r, {}),
           Pending(r) \subseteq Pending(kk)
    PROVE  TimeoutsOK(r)
<1> SUFFICES ASSUME NEW u \in Pending(r) PROVE r.state[u] \in {"WTCOND", "SLEEPING", "READY"}
  BY DEF TimeoutsOK
<1>1. u \in Threads /\ r.state[u] \in TimedStates
  BY SoundFacts DEF Pending
<1>2. kk.state[u] \in {"WTCOND", "SLEEPING", "READY"}
  BY DEF TimeoutsOK
<1> QED BY <1>1, <1>2 DEF Others, TimedStates

\* A switch happens on core c only, out of its handlers.
Moved(kk, r, c) ==
    /\ c \notin r.isr
    /\ \A d \in Cores \ {c} : r.current[d] = kk.current[d] /\ (d \in r.isr <=> d \in kk.isr)

LEMMA MovedCalls ==
    ASSUME NEW kk \in KernelType, NEW c \in Cores, c \notin kk.isr, NEW r, NEW w, NEW timed, NEW t, NEW msg,
           \/ r = chSchGoSleepS(kk, c, w) \/ r = chSchGoSleepTimeoutS(kk, c, w, timed)
           \/ r = chSchRescheduleS(kk, c) \/ r = chSchWakeupS(kk, c, t, msg)
    PROVE  Moved(kk, r, c)
<1> USE DEF KernelType, SwitchIn, SwitchToFirst, sch_ready_ahead, sch_ready_behind
<1>1. CASE r = chSchGoSleepS(kk, c, w)
  BY <1>1 DEF chSchGoSleepS, Moved
<1>2. CASE r = chSchGoSleepTimeoutS(kk, c, w, timed)
  BY <1>2 DEF chSchGoSleepS, chSchGoSleepTimeoutS, Moved
<1>3. CASE r = chSchRescheduleS(kk, c)
  BY <1>3 DEF chSchRescheduleS, sch_reschedule_ahead, Moved
<1>4. CASE r = chSchWakeupS(kk, c, t, msg)
  BY <1>4 DEF chSchWakeupS, chSysNotifyInstance, Moved
<1> QED BY <1>1, <1>2, <1>3, <1>4

LEMMA MovedExit ==
    ASSUME NEW kk \in KernelType, NEW c \in Cores, NEW r, r = IsrExit(kk, c)
    PROVE  Moved(kk, r, c)
BY DEF IsrExit, chSchDoPreemption, Moved, KernelType, SwitchIn, SwitchToFirst,
       sch_ready_ahead, sch_ready_behind

LEMMA ResumeMove ==
    ASSUME NEW kk, NEW ct, ResumeOK(kk, ct), NEW r, NEW c, Moved(kk, r, c)
    PROVE  ResumeOK(r, ct)
BY DEF ResumeOK, Moved

-----------------------------------------------------------------------------
(* The invariant taken apart and put together                                *)

\* The invariant, part by part.
LEMMA Parts ==
    ASSUME IInv
    PROVE  /\ k \in KernelType /\ Sound(k, Busy(cs))
           /\ realprio \in [Threads -> Prios]
           /\ Owning(owner, mcnt, mtxlist)
           /\ Waiting(k, mqueue, cqueue, wtobj, owner)
           /\ wtobj \in [Threads -> Mutexes \union Conds \union {NoObj}]
           /\ cont \in [Threads -> Mutexes \union {NoObj}]
           /\ cs \in Sections \union {NoCS}
           /\ ContsOK(k, cont, owner) /\ ResumeOK(k, cont) /\ TimeoutsOK(k)
           /\ SectionOK(k, cs, owner, cont)
           /\ InheritOK(k, wtobj, owner, realprio, cs)
BY DEF IInv, CodeTypes, Owning, OwnTypes

\* Out of the kernel.
LEMMA Quiet ==
    ASSUME IInv, cs = NoCS
    PROVE  Sound(k, {}) /\ Exacts(k, wtobj, owner, realprio, {})
<1>1. cs.op = "none"
  BY DEF NoCS
<1> QED BY <1>1 DEF IInv, Busy, InheritOK

\* The invariant put together from its parts.
LEMMA Pieces ==
    ASSUME realprio' \in [Threads -> Prios],
           wtobj' \in [Threads -> Mutexes \union Conds \union {NoObj}],
           cont' \in [Threads -> Mutexes \union {NoObj}],
           cs' \in Sections \union {NoCS},
           Sound(k', Busy(cs')), Owning(owner', mcnt', mtxlist'),
           Waiting(k', mqueue', cqueue', wtobj', owner'),
           ContsOK(k', cont', owner'), ResumeOK(k', cont'), TimeoutsOK(k'),
           SectionOK(k', cs', owner', cont'), InheritOK(k', wtobj', owner', realprio', cs')
    PROVE  IInv'
<1>1. k' \in KernelType
  BY DEF Sound, KInv, KInvX
<1>2. mqueue' \in [Mutexes -> Seq(Threads)] /\ cqueue' \in [Conds -> Seq(Threads)]
  BY DEF Waiting, QueuesExact
<1>3. CodeTypes'
  BY <1>1, <1>2 DEF CodeTypes, Owning, OwnTypes
<1>4. OwnersOK(owner', mcnt', mtxlist')
  BY DEF Owning
<1> QED BY <1>3, <1>4 DEF IInv

\* The kernel is left.
LEMMA Calm ==
    ASSUME realprio' \in [Threads -> Prios],
           wtobj' \in [Threads -> Mutexes \union Conds \union {NoObj}],
           cont' \in [Threads -> Mutexes \union {NoObj}], cs' = NoCS,
           Sound(k', {}), Owning(owner', mcnt', mtxlist'),
           Waiting(k', mqueue', cqueue', wtobj', owner'),
           ContsOK(k', cont', owner'), ResumeOK(k', cont'), TimeoutsOK(k'),
           Exacts(k', wtobj', owner', realprio', {})
    PROVE  IInv'
<1>1. cs'.op = "none" /\ cs' \in Sections \union {NoCS}
  BY DEF NoCS
<1>2. Busy(cs') = {}
  BY <1>1 DEF Busy
<1>3. SectionOK(k', cs', owner', cont')
  BY <1>1 DEF SectionOK
<1>4. InheritOK(k', wtobj', owner', realprio', cs')
  BY <1>1 DEF InheritOK
<1> QED BY <1>1, <1>2, <1>3, <1>4, Pieces

\* It is left with a reschedule, or entered by an interrupt, from a state kk.
LEMMA StillInv ==
    ASSUME IInv, NEW kk, Waiting(kk, mqueue, cqueue, wtobj, owner), ContsOK(kk, cont, owner),
           TimeoutsOK(kk), Exacts(kk, wtobj, owner, realprio, {}),
           Sound(k', {}), Still(kk, k'), ResumeOK(k', cont),
           UNCHANGED <<objs, cont>>, cs' = NoCS
    PROVE  IInv'
<1>1. Others(kk, k', {}) /\ Pending(k') \subseteq Pending(kk)
  BY DEF Still
<1>2. Same(kk, k')
  BY <1>1, SameStill
<1>3. Waiting(k', mqueue, cqueue, wtobj, owner)
  BY <1>2, SameWaiting
<1>4. Exacts(k', wtobj, owner, realprio, {})
  BY <1>2, SameExacts
<1>5. ContsOK(k', cont, owner)
  BY <1>1, ContsStill
<1>6. TimeoutsOK(k')
  BY <1>1, TimeoutsStill
<1>7. UNCHANGED <<realprio, owner, mcnt, mqueue, mtxlist, cqueue, wtobj, cont>>
  BY DEF objs
<1>8. /\ realprio \in [Threads -> Prios] /\ Owning(owner, mcnt, mtxlist)
      /\ wtobj \in [Threads -> Mutexes \union Conds \union {NoObj}]
      /\ cont \in [Threads -> Mutexes \union {NoObj}]
  BY Parts
<1> QED BY <1>3, <1>4, <1>5, <1>6, <1>7, <1>8, Calm

\* Nobody is inside a condition wait on any core.
LEMMA ResumeQuiet ==
    ASSUME Unlocked, NEW r, r.current = k.current
    PROVE  ResumeOK(r, cont)
BY DEF Unlocked, Resuming, ResumeOK

LEMMA IrqCurrent ==
    ASSUME NEW kk \in KernelType, NEW c \in Cores, NEW t, NEW msg, NEW r,
           \/ r = EnterIsr(kk, c) \/ r = NotifyIrq(kk, c) \/ r = TimerDue(kk, c, t)
           \/ r = ReadyWithMsg(EnterIsr(kk, c), c, t, msg) \/ r = Callback(kk, c)
    PROVE  r.current = kk.current
<1> USE DEF KernelType, EnterIsr
<1>1. CASE r = EnterIsr(kk, c) \/ r = NotifyIrq(kk, c) \/ r = TimerDue(kk, c, t)
  BY <1>1 DEF NotifyIrq, TimerDue
<1>2. CASE r = ReadyWithMsg(EnterIsr(kk, c), c, t, msg)
  BY <1>2 DEF ReadyWithMsg, chSchReadyI, chSysNotifyInstance, sch_ready_behind
<1>3. CASE r = Callback(kk, c)
  BY <1>3 DEF Callback, sch_ready_behind
<1> QED BY <1>1, <1>2, <1>3

-----------------------------------------------------------------------------
(* Interrupts and sleeps *)

\* Interrupts that wake nobody.
LEMMA IrqInv ==
    ASSUME IInv, NEW c \in Cores,
           \/ \E t \in Threads : Expire(c, t)
           \/ Notified(c) \/ ExitIsr(c)
    PROVE  IInv'
<1>1. Unlocked /\ cs = NoCS /\ UNCHANGED <<objs, cont, cs>>
  BY DEF Expire, Notified, ExitIsr, Unlocked
<1>2. k \in KernelType /\ Sound(k, {}) /\ Exacts(k, wtobj, owner, realprio, {})
  BY <1>1, Parts, Quiet
<1>3. /\ Waiting(k, mqueue, cqueue, wtobj, owner) /\ ContsOK(k, cont, owner)
      /\ TimeoutsOK(k) /\ ResumeOK(k, cont)
  BY Parts
<1>4. Sound(k', {}) /\ Still(k, k')
  <2>1. \/ k' = NotifyIrq(k, c)
        \/ \E t \in Threads : TimerDueEnabled(k, c, t) /\ k' = TimerDue(k, c, t)
        \/ IsrExitEnabled(k, c) /\ k' = IsrExit(k, c)
    BY DEF Expire, Notified, ExitIsr
  <2> QED BY <1>2, <2>1, RunIrq
<1>5. ResumeOK(k', cont)
  <2>1. CASE k' = NotifyIrq(k, c) \/ \E t \in Threads : k' = TimerDue(k, c, t)
    <3>1. k'.current = k.current
      BY <1>2, <2>1, IrqCurrent
    <3> QED BY <1>1, <3>1, ResumeQuiet
  <2>2. CASE k' = IsrExit(k, c)
    <3>1. Moved(k, k', c)
      BY <1>2, <2>2, MovedExit
    <3> QED BY <1>3, <3>1, ResumeMove
  <2> QED BY <2>1, <2>2 DEF Expire, Notified, ExitIsr
<1> QED BY <1>1, <1>2, <1>3, <1>4, <1>5, StillInv

\* The parts of the invariant that do not depend on the critical section.
Settled ==
    /\ realprio \in [Threads -> Prios]
    /\ wtobj \in [Threads -> Mutexes \union Conds \union {NoObj}]
    /\ cont \in [Threads -> Mutexes \union {NoObj}]
    /\ Owning(owner, mcnt, mtxlist) /\ Waiting(k, mqueue, cqueue, wtobj, owner)
    /\ ContsOK(k, cont, owner) /\ TimeoutsOK(k)

\* The kernel is left in a settled state.
LEMMA SettledCalm ==
    ASSUME Settled', cs' = NoCS, Sound(k', {}), ResumeOK(k', cont'),
           Exacts(k', wtobj', owner', realprio', {})
    PROVE  IInv'
<1>1. /\ realprio' \in [Threads -> Prios]
      /\ wtobj' \in [Threads -> Mutexes \union Conds \union {NoObj}]
      /\ cont' \in [Threads -> Mutexes \union {NoObj}]
      /\ Owning(owner', mcnt', mtxlist') /\ Waiting(k', mqueue', cqueue', wtobj', owner')
      /\ ContsOK(k', cont', owner') /\ TimeoutsOK(k')
  BY DEF Settled
<1> QED BY <1>1, Calm

\* A critical section goes on in a settled state.
LEMMA SettledPieces ==
    ASSUME Settled', cs' \in Sections \union {NoCS}, Sound(k', Busy(cs')), ResumeOK(k', cont'),
           SectionOK(k', cs', owner', cont'), InheritOK(k', wtobj', owner', realprio', cs')
    PROVE  IInv'
<1>1. /\ realprio' \in [Threads -> Prios]
      /\ wtobj' \in [Threads -> Mutexes \union Conds \union {NoObj}]
      /\ cont' \in [Threads -> Mutexes \union {NoObj}]
      /\ Owning(owner', mcnt', mtxlist') /\ Waiting(k', mqueue', cqueue', wtobj', owner')
      /\ ContsOK(k', cont', owner') /\ TimeoutsOK(k')
  BY DEF Settled
<1> QED BY <1>1, Pieces

\* A thread that waits for nothing of this module sleeps or is woken.
LEMMA AsideInv ==
    ASSUME IInv, cs = NoCS, cs' = NoCS, UNCHANGED <<objs, cont>>, NEW t \in Threads,
           Sound(k', {}), Others(k, k', {t}), Pending(k') \subseteq Pending(k) \union {t},
           k.state[t] \notin {"WTMTX", "WTCOND"},
           k'.state[t] \in {"SLEEPING", "READY", "CURRENT"},
           cont[t] = NoObj \/ k'.state[t] # "SLEEPING", ResumeOK(k', cont)
    PROVE  IInv'
<1>1. Same(k, k')
  <2>1. \A s \in {k.state[t], k'.state[t]} : s \notin {"WTMTX", "WTCOND"}
    OBVIOUS
  <2> QED BY <2>1, SameOthers
<1>2. /\ Exacts(k, wtobj, owner, realprio, {}) /\ Waiting(k, mqueue, cqueue, wtobj, owner)
      /\ ContsOK(k, cont, owner) /\ TimeoutsOK(k)
  BY Parts, Quiet
<1>3. Waiting(k', mqueue, cqueue, wtobj, owner)
  BY <1>1, <1>2, SameWaiting
<1>4. Exacts(k', wtobj, owner, realprio, {})
  BY <1>1, <1>2, SameExacts
<1>5. ContsOK(k', cont, owner)
  <2>1. cont[t] = NoObj \/ k'.state[t] \in {"WTCOND", "READY", "CURRENT"}
    OBVIOUS
  <2> QED BY <1>2, <2>1, ContsMove
<1>6. TimeoutsOK(k')
  <2>1. k'.state[t] \in {"WTCOND", "SLEEPING", "READY", "CURRENT"}
    OBVIOUS
  <2> QED BY <1>2, <2>1, TimeoutsMove
<1>7. UNCHANGED <<realprio, owner, mcnt, mqueue, mtxlist, cqueue, wtobj, cont>>
  BY DEF objs
<1>8. /\ realprio \in [Threads -> Prios] /\ Owning(owner, mcnt, mtxlist)
      /\ wtobj \in [Threads -> Mutexes \union Conds \union {NoObj}]
      /\ cont \in [Threads -> Mutexes \union {NoObj}]
  BY Parts
<1> QED BY <1>3, <1>4, <1>5, <1>6, <1>7, <1>8, Calm

\* The thread that calls is not inside a condition wait.
LEMMA CallerFacts ==
    ASSUME IInv, NEW c \in Cores, Caller(c)
    PROVE  /\ cs = NoCS /\ Unlocked /\ InThread(k, c) /\ c \notin k.isr
           /\ k.current[c] \in Threads /\ k.current[c] \in UserThreads
           /\ k.state[k.current[c]] = "CURRENT" /\ cont[k.current[c]] = NoObj
<1>1. Sound(k, Busy(cs))
  BY Parts
<1>2. k.current[c] \in Threads /\ k.state[k.current[c]] = "CURRENT"
  BY <1>1, SoundFacts
<1> QED BY <1>2 DEF Caller, Unlocked, Resuming, InThread

\* chThdSleepS() preserves the invariant.
LEMMA SleepInv ==
    ASSUME IInv, NEW c \in Cores, chThdSleepS(c)
    PROVE  IInv'
<1>1. Caller(c) /\ k' = chSchGoSleepTimeoutS(k, c, "SLEEPING", TRUE) /\ UNCHANGED <<objs, cont, cs>>
  BY DEF chThdSleepS
<1>2. PICK t : t = k.current[c]
  OBVIOUS
<1>3. /\ cs = NoCS /\ InThread(k, c) /\ c \notin k.isr /\ t \in Threads
      /\ k.state[t] = "CURRENT" /\ cont[t] = NoObj
  BY <1>1, <1>2, CallerFacts
<1>4. k \in KernelType /\ Sound(k, {}) /\ ResumeOK(k, cont)
  BY <1>3, Parts, Quiet
<1>5. "SLEEPING" \in TimedStates \ {"READY"} /\ {} \subseteq {c}
  BY DEF TimedStates, States
<1>a. PICK timed \in BOOLEAN : k' = chSchGoSleepTimeoutS(k, c, "SLEEPING", timed)
  BY <1>1
<1>6. Sound(k', {}) /\ Rested(k, k', t, "SLEEPING")
  BY <1>a, <1>2, <1>3, <1>4, <1>5, RunSleep
<1>7. /\ Others(k, k', {t}) /\ k'.state[t] = "SLEEPING"
      /\ Pending(k') \subseteq Pending(k) \union {t}
  BY <1>6 DEF Rested, Asleep
<1>8. Moved(k, k', c)
  BY <1>1, <1>3, <1>4, MovedCalls
<1>9. ResumeOK(k', cont)
  BY <1>4, <1>8, ResumeMove
<1>10. /\ k.state[t] \notin {"WTMTX", "WTCOND"} /\ k'.state[t] \in {"SLEEPING", "READY", "CURRENT"}
       /\ cs' = NoCS /\ UNCHANGED <<objs, cont>>
  BY <1>1, <1>3, <1>7
<1> QED BY <1>3, <1>6, <1>7, <1>9, <1>10, AsideInv

\* chThdStartI() preserves the invariant.
LEMMA StartInv ==
    ASSUME IInv, NEW c \in Cores, NEW t \in UserThreads, chThdStartI(c, t)
    PROVE  IInv'
<1>1. /\ Unlocked /\ cs = NoCS /\ k.state[t] = "WTSTART" /\ t \in Threads
      /\ k' = ReadyWithMsg(EnterIsr(k, c), c, t, "OK") /\ UNCHANGED <<objs, cont, cs>>
  BY DEF chThdStartI, Unlocked, UserThreads
<1>2. k \in KernelType /\ Sound(k, {}) /\ "OK" \in Messages
  BY <1>1, Parts, Quiet, KernelAssumption
<1>3. Sound(k', {}) /\ Roused(k, k', t, "OK")
  BY <1>1, <1>2, RunReadyI
<1>4. /\ Others(k, k', {t}) /\ k'.state[t] \in {"READY", "CURRENT"}
      /\ Pending(k') \subseteq Pending(k) \union {t}
  BY <1>3 DEF Roused, Woken
<1>5. k'.current = k.current
  BY <1>1, <1>2, IrqCurrent
<1>6. ResumeOK(k', cont)
  BY <1>1, <1>5, ResumeQuiet
<1>7. /\ k.state[t] \notin {"WTMTX", "WTCOND"} /\ k'.state[t] \in {"SLEEPING", "READY", "CURRENT"}
      /\ cs' = NoCS /\ UNCHANGED <<objs, cont>> /\ k'.state[t] # "SLEEPING"
  BY <1>1, <1>4
<1> QED BY <1>1, <1>3, <1>4, <1>6, <1>7, AsideInv

\* A thread leaves the queue of a condition variable.
LEMMA LeftCond ==
    ASSUME IInv, Exacts(k, wtobj, owner, realprio, {}), NEW v \in Conds, NEW t \in ToSet(cqueue[v]),
           NEW q, QueueLess(k, cqueue[v], q, t, TRUE), t \in Threads, k.state[t] = "WTCOND",
           cqueue' = [cqueue EXCEPT ![v] = q], wtobj' = [wtobj EXCEPT ![t] = NoObj],
           UNCHANGED <<realprio, owner, mcnt, mqueue, mtxlist, cont>>,
           NEW X, Sound(k', X), NEW msg, Roused(k, k', t, msg)
    PROVE  Settled' /\ Exacts(k', wtobj', owner', realprio', {})
<1>1. /\ Woken(k, k', t) /\ Others(k, k', {t}) /\ k'.state[t] \in {"READY", "CURRENT"}
      /\ Pending(k') \subseteq Pending(k) \union {t}
  BY DEF Roused, Woken
<1>2. /\ Waiting(k, mqueue, cqueue, wtobj, owner) /\ ContsOK(k, cont, owner) /\ TimeoutsOK(k)
      /\ realprio \in [Threads -> Prios] /\ Owning(owner, mcnt, mtxlist)
      /\ wtobj \in [Threads -> Mutexes \union Conds \union {NoObj}]
      /\ cont \in [Threads -> Mutexes \union {NoObj}]
  BY Parts
<1>3. PICK wn : wn = wtobj'
  OBVIOUS
<1>4. Waiting(k', mqueue, [cqueue EXCEPT ![v] = q], [wtobj EXCEPT ![t] = NoObj], owner)
  BY <1>1, <1>2, LeaveCond
<1>5. /\ DOMAIN wtobj = Threads /\ k.state[t] # "WTMTX" /\ k'.state[t] # "WTMTX"
      /\ wn = [wtobj EXCEPT ![t] = NoObj]
  BY <1>1, <1>2, <1>3
<1>6. Exacts(k', [wtobj EXCEPT ![t] = NoObj], owner, realprio, {})
  BY <1>1, <1>5, AsideExacts
<1>7. ContsOK(k', cont, owner)
  <2>1. k'.state[t] \in {"WTCOND", "READY", "CURRENT"}
    BY <1>1
  <2> QED BY <1>1, <1>2, <2>1, ContsMove
<1>8. TimeoutsOK(k')
  <2>1. k'.state[t] \in {"WTCOND", "SLEEPING", "READY", "CURRENT"}
    BY <1>1
  <2> QED BY <1>1, <1>2, <2>1, TimeoutsMove
<1>9. wtobj' \in [Threads -> Mutexes \union Conds \union {NoObj}]
  BY <1>2
<1> QED BY <1>2, <1>4, <1>6, <1>7, <1>8, <1>9 DEF Settled

-----------------------------------------------------------------------------
(* Signals and timeouts of condition variables                               *)

\* The first waiter of a condition variable.
LEMMA PopFacts ==
    ASSUME IInv, NEW v \in Conds, cqueue[v] # <<>>, NEW t, t = Head(cqueue[v]),
           NEW q, q = ch_queue_fifo_remove(cqueue[v])
    PROVE  /\ t \in ToSet(cqueue[v]) /\ t \in Threads /\ k.state[t] = "WTCOND"
           /\ QueueLess(k, cqueue[v], q, t, TRUE)
<1>1. k \in KernelType /\ QueuesExact(k, cqueue, wtobj, Conds, "WTCOND", TRUE)
  BY Parts DEF Waiting
<1>2. QueueLess(k, cqueue[v], q, t, TRUE)
  BY <1>1, QueueHead
<1>3. t \in ToSet(cqueue[v])
  BY <1>1, QueueHead
<1>4. t \in Threads /\ k.state[t] = "WTCOND"
  BY <1>1, <1>3 DEF QueuesExact
<1> QED BY <1>2, <1>3, <1>4

\* It is woken: the queues, the waits and the priorities stay exact.
LEMMA PopInv ==
    ASSUME IInv, Exacts(k, wtobj, owner, realprio, {}), NEW v \in Conds, CondPop(v),
           NEW t, t = Head(cqueue[v]), NEW X, Sound(k', X), NEW msg, Roused(k, k', t, msg)
    PROVE  Settled' /\ Exacts(k', wtobj', owner', realprio', {})
<1>1. PICK q : q = ch_queue_fifo_remove(cqueue[v])
  OBVIOUS
<1>2. /\ cqueue[v] # <<>> /\ cqueue' = [cqueue EXCEPT ![v] = q]
      /\ wtobj' = [wtobj EXCEPT ![t] = NoObj]
      /\ UNCHANGED <<realprio, owner, mcnt, mqueue, mtxlist, cont>>
  BY <1>1 DEF CondPop
<1>3. /\ t \in ToSet(cqueue[v]) /\ t \in Threads /\ k.state[t] = "WTCOND"
      /\ QueueLess(k, cqueue[v], q, t, TRUE)
  BY <1>1, <1>2, PopFacts
<1> QED BY <1>2, <1>3, LeftCond

\* chCondSignal() preserves the invariant.
LEMMA SignalInv ==
    ASSUME IInv, NEW c \in Cores, NEW v \in Conds, chCondSignal(c, v)
    PROVE  IInv'
<1>1. /\ Caller(c) /\ CondPop(v) /\ cqueue[v] # <<>> /\ UNCHANGED <<cs, cont>>
      /\ k' = chSchWakeupS(k, c, Head(cqueue[v]), "OK")
  BY DEF chCondSignal, CondPop
<1>2. PICK t : t = Head(cqueue[v])
  OBVIOUS
<1>3. cs = NoCS /\ c \notin k.isr
  BY <1>1, CallerFacts
<1>4. /\ k \in KernelType /\ Sound(k, {}) /\ ResumeOK(k, cont)
      /\ Exacts(k, wtobj, owner, realprio, {}) /\ "OK" \in Messages
  BY <1>3, Parts, Quiet, KernelAssumption
<1>5. t \in Threads /\ k.state[t] \notin {"READY", "CURRENT"}
  BY <1>1, <1>2, PopFacts
<1>6. k' = chSchWakeupS(k, c, t, "OK")
  BY <1>1, <1>2
<1>7. Sound(k', {}) /\ Roused(k, k', t, "OK")
  BY <1>3, <1>4, <1>5, <1>6, RunWakeup
<1>8. Settled' /\ Exacts(k', wtobj', owner', realprio', {})
  BY <1>1, <1>2, <1>4, <1>7, PopInv
<1>9. Moved(k, k', c)
  BY <1>3, <1>4, <1>6, MovedCalls
<1>10. ResumeOK(k', cont')
  BY <1>1, <1>4, <1>9, ResumeMove
<1> QED BY <1>1, <1>3, <1>7, <1>8, <1>10, SettledCalm

\* chCondSignalI() preserves the invariant.
LEMMA SignalIInv ==
    ASSUME IInv, NEW c \in Cores, NEW v \in Conds, chCondSignalI(c, v)
    PROVE  IInv'
<1>1. /\ Unlocked /\ cs = NoCS /\ CondPop(v) /\ cqueue[v] # <<>> /\ UNCHANGED <<cs, cont>>
      /\ k' = ReadyWithMsg(EnterIsr(k, c), c, Head(cqueue[v]), "OK")
  BY DEF chCondSignalI, CondPop, Unlocked
<1>2. PICK t : t = Head(cqueue[v])
  OBVIOUS
<1>4. /\ k \in KernelType /\ Sound(k, {})
      /\ Exacts(k, wtobj, owner, realprio, {}) /\ "OK" \in Messages
  BY <1>1, Parts, Quiet, KernelAssumption
<1>5. t \in Threads /\ k.state[t] \notin {"READY", "CURRENT"}
  BY <1>1, <1>2, PopFacts
<1>6. k' = ReadyWithMsg(EnterIsr(k, c), c, t, "OK")
  BY <1>1, <1>2
<1>7. Sound(k', {}) /\ Roused(k, k', t, "OK")
  BY <1>4, <1>5, <1>6, RunReadyI
<1>8. Settled' /\ Exacts(k', wtobj', owner', realprio', {})
  BY <1>1, <1>2, <1>4, <1>7, PopInv
<1>9. k'.current = k.current
  BY <1>4, <1>6, IrqCurrent
<1>10. ResumeOK(k', cont')
  BY <1>1, <1>9, ResumeQuiet
<1> QED BY <1>1, <1>7, <1>8, <1>10, SettledCalm

\* The timeout callback takes a thread out of a condition queue only.
LEMMA TimeoutInv ==
    ASSUME IInv, NEW c \in Cores, sch_wakeup(c)
    PROVE  IInv'
<1>1. PICK t : t = k.firing[c]
  OBVIOUS
<1>2. /\ Unlocked /\ cs = NoCS /\ cs' = NoCS /\ t # NoThread /\ k' = Callback(k, c)
      /\ UNCHANGED <<realprio, owner, mcnt, mqueue, mtxlist, cont>>
  BY <1>1 DEF sch_wakeup, Callback, Unlocked
<1>3. /\ k \in KernelType /\ Sound(k, {}) /\ Exacts(k, wtobj, owner, realprio, {})
      /\ QueuesExact(k, cqueue, wtobj, Conds, "WTCOND", TRUE) /\ WaitersOK(k, wtobj, owner)
      /\ TimeoutsOK(k) /\ Waiting(k, mqueue, cqueue, wtobj, owner) /\ ContsOK(k, cont, owner)
  BY <1>2, Parts, Quiet DEF Waiting
<1>4. CalledBack(k, c, k')
  BY <1>1, <1>2, <1>3, RunCallback
<1>5. /\ t \in Threads /\ t \in Pending(k) /\ Sound(k', {})
      /\ IF AlreadyReady(k, t) THEN Still(k, k') ELSE Roused(k, k', t, "TIMEOUT")
  BY <1>1, <1>4 DEF CalledBack
<1>6. k.state[t] \in {"WTCOND", "SLEEPING", "READY"}
  BY <1>3, <1>5 DEF TimeoutsOK
<1>7. k'.current = k.current
  BY <1>2, <1>3, IrqCurrent
<1>8. ResumeOK(k', cont) /\ ResumeOK(k', cont')
  BY <1>2, <1>7, ResumeQuiet
<1>9. CASE k.state[t] = "READY"
  <2>1. Still(k, k') /\ UNCHANGED <<objs, cont>>
    BY <1>1, <1>2, <1>5, <1>9 DEF AlreadyReady, sch_wakeup, objs
  <2> QED BY <1>2, <1>3, <1>5, <1>8, <2>1, StillInv
<1>10. CASE k.state[t] = "SLEEPING"
  <2>1. Roused(k, k', t, "TIMEOUT") /\ UNCHANGED <<objs, cont>>
    BY <1>1, <1>2, <1>5, <1>10 DEF AlreadyReady, sch_wakeup, objs
  <2>2. /\ Others(k, k', {t}) /\ k'.state[t] \in {"READY", "CURRENT"}
        /\ Pending(k') \subseteq Pending(k) \union {t}
    BY <2>1 DEF Roused, Woken
  <2>3. /\ k.state[t] \notin {"WTMTX", "WTCOND"} /\ k'.state[t] # "SLEEPING"
        /\ k'.state[t] \in {"SLEEPING", "READY", "CURRENT"}
    BY <1>10, <2>2
  <2> QED BY <1>2, <1>5, <1>8, <2>1, <2>2, <2>3, AsideInv
<1>11. CASE k.state[t] = "WTCOND"
  <2>1. PICK v : v = wtobj[t]
    OBVIOUS
  <2>2. PICK q : q = ch_queue_dequeue(cqueue[v], t)
    OBVIOUS
  <2>3. /\ Roused(k, k', t, "TIMEOUT") /\ wtobj' = [wtobj EXCEPT ![t] = NoObj]
        /\ cqueue' = [cqueue EXCEPT ![v] = q]
    BY <1>1, <1>5, <1>11, <2>1, <2>2 DEF AlreadyReady, sch_wakeup
  <2>4. v \in Conds /\ t \in ToSet(cqueue[v])
    <3>1. v \in Conds
      BY <1>3, <1>5, <1>11, <2>1 DEF WaitersOK
    <3> QED BY <1>3, <1>5, <1>11, <2>1, <3>1 DEF QueuesExact
  <2>5. QueueLess(k, cqueue[v], q, t, TRUE)
    BY <1>3, <2>2, <2>4, QueueMember
  <2>6. Settled' /\ Exacts(k', wtobj', owner', realprio', {})
    BY <1>2, <1>3, <1>5, <1>11, <2>3, <2>4, <2>5, LeftCond
  <2> QED BY <1>2, <1>5, <1>8, <2>6, SettledCalm
<1> QED BY <1>6, <1>9, <1>10, <1>11

\* A broadcast begins, in a thread or in a handler.
LEMMA BroadcastInv ==
    ASSUME IInv, NEW c \in Cores, NEW v \in Conds, NEW thread \in BOOLEAN,
           chCondBroadcast(c, v, thread)
    PROVE  IInv'
<1>1. /\ Unlocked /\ cs = NoCS
      /\ thread => Caller(c)
      /\ k' = IF thread THEN k ELSE EnterIsr(k, c)
      /\ cs' = [op |-> "broadcast", core |-> c, cp |-> v, thread |-> thread]
      /\ UNCHANGED <<objs, cont>>
  BY DEF chCondBroadcast, Unlocked
<1>2. /\ k \in KernelType /\ Sound(k, {}) /\ Exacts(k, wtobj, owner, realprio, {})
      /\ TimeoutsOK(k) /\ Waiting(k, mqueue, cqueue, wtobj, owner) /\ ContsOK(k, cont, owner)
      /\ realprio \in [Threads -> Prios] /\ Owning(owner, mcnt, mtxlist)
      /\ wtobj \in [Threads -> Mutexes \union Conds \union {NoObj}]
      /\ cont \in [Threads -> Mutexes \union {NoObj}] /\ ResumeOK(k, cont)
  BY <1>1, Parts, Quiet
<1>3. cs' \in Sections \union {NoCS} /\ cs'.op = "broadcast" /\ cs'.core = c /\ cs'.thread = thread
  BY <1>1 DEF Sections
<1>4. Sound(k', {}) /\ Others(k, k', {}) /\ Pending(k') \subseteq Pending(k) /\ k'.current = k.current
  <2>1. CASE thread
    BY <1>1, <1>2, <2>1 DEF Others
  <2>2. CASE ~ thread
    <3>1. k' = EnterIsr(k, c)
      BY <1>1, <2>2
    <3>2. Sound(k', {}) /\ Still(k, k')
      BY <1>2, <3>1, RunIrq
    <3>3. k'.current = k.current
      BY <1>2, <3>1, IrqCurrent
    <3> QED BY <3>2, <3>3 DEF Still
  <2> QED BY <2>1, <2>2
<1>5. Same(k, k')
  BY <1>4, SameStill
<1>6. Waiting(k', mqueue, cqueue, wtobj, owner)
  BY <1>2, <1>5, SameWaiting
<1>7. Exacts(k', wtobj, owner, realprio, {})
  BY <1>2, <1>5, SameExacts
<1>8. ContsOK(k', cont, owner)
  BY <1>2, <1>4, ContsStill
<1>9. TimeoutsOK(k')
  BY <1>2, <1>4, TimeoutsStill
<1>10. ResumeOK(k', cont)
  BY <1>1, <1>4, ResumeQuiet
<1>11. UNCHANGED <<realprio, owner, mcnt, mqueue, mtxlist, cqueue, wtobj, cont>>
  BY <1>1 DEF objs
<1>12. Settled'
  BY <1>2, <1>6, <1>8, <1>9, <1>11 DEF Settled
<1>13. Sound(k', Busy(cs'))
  BY <1>4, SoundMore
<1>14. SectionOK(k', cs', owner', cont')
  <2>1. CASE thread
    <3>1. InThread(k, c) /\ k' = k
      BY <1>1, <2>1, CallerFacts
    <3> QED BY <1>3, <2>1, <3>1 DEF SectionOK
  <2>2. CASE ~ thread
    <3>1. c \in k'.isr
      BY <1>1, <1>2, <2>2 DEF EnterIsr, KernelType
    <3> QED BY <1>3, <2>2, <3>1 DEF SectionOK
  <2> QED BY <2>1, <2>2
<1>15. InheritOK(k', wtobj', owner', realprio', cs')
  BY <1>3, <1>7, <1>11 DEF InheritOK
<1> QED BY <1>3, <1>10, <1>11, <1>12, <1>13, <1>14, <1>15, SettledPieces

\* The parts of a broadcast in progress.
LEMMA BroadcastFacts ==
    ASSUME IInv, cs.op = "broadcast"
    PROVE  /\ cs.core \in Cores /\ cs.cp \in Conds /\ cs.thread \in BOOLEAN
           /\ Sound(k, {cs.core}) /\ Exacts(k, wtobj, owner, realprio, {})
           /\ IF cs.thread THEN InThread(k, cs.core) ELSE cs.core \in k.isr
<1>1. cs \in Sections \union {NoCS} /\ Sound(k, Busy(cs)) /\ SectionOK(k, cs, owner, cont)
  BY Parts
<1>2. InheritOK(k, wtobj, owner, realprio, cs)
  BY Parts
<1>3. cs.core \in Cores /\ cs.cp \in Conds /\ cs.thread \in BOOLEAN
  BY <1>1 DEF Sections, NoCS
<1>4. Busy(cs) = {cs.core}
  BY DEF Busy
<1>5. Exacts(k, wtobj, owner, realprio, {})
  BY <1>2 DEF InheritOK
<1> QED BY <1>1, <1>3, <1>4, <1>5 DEF SectionOK

\* A turn of the loop of chCondBroadcastI().
LEMMA BroadcastIterationInv ==
    ASSUME IInv, BroadcastIteration
    PROVE  IInv'
<1>1. PICK c, v, t : c = cs.core /\ v = cs.cp /\ t = Head(cqueue[cs.cp])
  OBVIOUS
<1>2. /\ cs.op = "broadcast" /\ CondPop(v) /\ cqueue[v] # <<>> /\ t = Head(cqueue[v])
      /\ UNCHANGED <<cs, cont>> /\ k' = ReadyWithMsg(k, c, t, "RESET")
  BY <1>1 DEF BroadcastIteration, CondPop
<1>3. /\ c \in Cores /\ v \in Conds /\ Sound(k, {c}) /\ Exacts(k, wtobj, owner, realprio, {})
  BY <1>1, <1>2, BroadcastFacts
<1>4. t \in Threads /\ k.state[t] \notin {"READY", "CURRENT"} /\ "RESET" \in Messages
  BY <1>2, <1>3, PopFacts, KernelAssumption
<1>5. Sound(k', {c} \union {c}) /\ Roused(k, k', t, "RESET") /\ NoSwitch(k, k')
  BY <1>2, <1>3, <1>4, RunReady
<1>6. Busy(cs') = {c} /\ {c} \union {c} = {c}
  BY <1>1, <1>2 DEF Busy
<1>7. Settled' /\ Exacts(k', wtobj', owner', realprio', {})
  BY <1>2, <1>3, <1>5, PopInv
<1>8. ResumeOK(k, cont) /\ SectionOK(k, cs, owner, cont) /\ cs \in Sections \union {NoCS}
  BY Parts
<1>9. ResumeOK(k', cont')
  BY <1>2, <1>5, <1>8 DEF ResumeOK, NoSwitch
<1>10. SectionOK(k', cs', owner', cont')
  BY <1>2, <1>5, <1>8 DEF SectionOK, NoSwitch, InThread
<1>11. InheritOK(k', wtobj', owner', realprio', cs')
  BY <1>2, <1>7 DEF InheritOK
<1> QED BY <1>2, <1>5, <1>6, <1>7, <1>8, <1>9, <1>10, <1>11, SettledPieces

\* The end of a broadcast.
LEMMA BroadcastEndInv ==
    ASSUME IInv, BroadcastEnd
    PROVE  IInv'
<1>1. PICK c : c = cs.core
  OBVIOUS
<1>2. /\ cs.op = "broadcast" /\ k' = IF cs.thread THEN chSchRescheduleS(k, c) ELSE k
      /\ cs' = NoCS /\ UNCHANGED <<objs, cont>>
  BY <1>1 DEF BroadcastEnd
<1>3. /\ c \in Cores /\ Sound(k, {c}) /\ Exacts(k, wtobj, owner, realprio, {})
      /\ IF cs.thread THEN InThread(k, c) ELSE c \in k.isr
  BY <1>1, <1>2, BroadcastFacts
<1>4. /\ k \in KernelType /\ Waiting(k, mqueue, cqueue, wtobj, owner) /\ ContsOK(k, cont, owner)
      /\ TimeoutsOK(k) /\ ResumeOK(k, cont)
  BY Parts
<1>5. Sound(k', {}) /\ Still(k, k') /\ ResumeOK(k', cont)
  <2>1. CASE cs.thread
    <3>1. k' = chSchRescheduleS(k, c) /\ c \notin k.isr /\ {c} \subseteq {c}
      BY <1>2, <1>3, <2>1 DEF InThread
    <3>2. Sound(k', {}) /\ Still(k, k')
      BY <1>3, <3>1, RunReschedule
    <3>3. Moved(k, k', c)
      BY <1>3, <1>4, <3>1, MovedCalls
    <3> QED BY <1>4, <3>2, <3>3, ResumeMove
  <2>2. CASE ~ cs.thread
    <3>1. k' = k /\ c \in k.isr
      BY <1>2, <1>3, <2>2
    <3>2. Sound(k, {})
      BY <1>3, <3>1, SoundIsr
    <3> QED BY <1>4, <3>1, <3>2 DEF Still, Others
  <2> QED BY <2>1, <2>2
<1> QED BY <1>2, <1>3, <1>4, <1>5, StillInv

-----------------------------------------------------------------------------
(* A mutex is taken *)

\* Nobody waits for a free mutex.
LEMMA FreeQueue ==
    ASSUME NEW kk \in KernelType, NEW mq, NEW cq, NEW wt, NEW ow, Waiting(kk, mq, cq, wt, ow),
           NEW m \in Mutexes, ow[m] = NoThread
    PROVE  mq[m] = <<>>
<1>1. QueuesExact(kk, mq, wt, Mutexes, "WTMTX", TRUE) /\ WaitersOK(kk, wt, ow)
  BY DEF Waiting
<1>2. SUFFICES ASSUME mq[m] # <<>> PROVE FALSE
  OBVIOUS
<1>3. PICK h, q : h = Head(mq[m]) /\ q = ch_queue_fifo_remove(mq[m])
  OBVIOUS
<1>4. h \in ToSet(mq[m])
  BY <1>1, <1>2, <1>3, QueueHead
<1>5. h \in Threads /\ kk.state[h] = "WTMTX" /\ wt[h] = m
  BY <1>1, <1>4 DEF QueuesExact
<1>6. ow[m] \in Threads
  BY <1>1, <1>5 DEF WaitersOK
<1> QED BY <1>6, KernelAssumption

\* The thread that is locking is not inside a condition wait any more; the
\* others are where they were.
ContFor(t, cn) ==
    /\ cn \in [Threads -> Mutexes \union {NoObj}]
    /\ cn[t] = NoObj /\ \A u \in Threads \ {t} : cn[u] = cont[u]

LEMMA ContForOK ==
    ASSUME IInv, NEW t \in Threads, NEW cn, ContFor(t, cn), NEW m \in Mutexes
    PROVE  /\ ResumeOK(k, cn) /\ ContsOK(k, cn, owner)
           /\ ContsOK(k, cn, [owner EXCEPT ![m] = t])
<1>1. ContsOK(k, cont, owner) /\ ResumeOK(k, cont) /\ Owning(owner, mcnt, mtxlist)
  BY Parts
<1>2. owner \in [Mutexes -> Threads \union {NoThread}] /\ NoObj \notin Mutexes
  BY <1>1, MutexAssumption DEF Owning, OwnTypes
<1>3. \A u \in Threads : cn[u] # NoObj => u # t /\ cn[u] = cont[u] /\ cont[u] # NoObj /\ cn[u] \in Mutexes
  BY DEF ContFor
<1>4. ContsOK(k, cn, owner)
  BY <1>1, <1>3 DEF ContsOK
<1>5. ContsOK(k, cn, [owner EXCEPT ![m] = t])
  <2> SUFFICES ASSUME NEW u \in Threads, cn[u] # NoObj
               PROVE  [owner EXCEPT ![m] = t][cn[u]] # u
    BY <1>4 DEF ContsOK
  <2>1. owner[cn[u]] # u /\ u # t /\ cn[u] \in Mutexes
    BY <1>3, <1>4 DEF ContsOK
  <2> QED BY <1>2, <2>1
<1>6. ResumeOK(k, cn)
  <2>1. k \in KernelType
    BY Parts
  <2>2. \A c \in Cores : k.current[c] \in Threads
    BY <2>1 DEF KernelType
  <2> QED BY <1>1, <1>3, <2>2 DEF ResumeOK
<1> QED BY <1>4, <1>5, <1>6

\* The lock of a free mutex.
LEMMA LockFree ==
    ASSUME IInv, cs = NoCS, NEW t \in Threads, NEW m \in Mutexes, ContFor(t, cont'),
           owner[m] = NoThread, Own(m, t, mtxlist),
           UNCHANGED <<k, realprio, mqueue, cqueue, wtobj, cs>>
    PROVE  IInv'
<1>1. /\ k \in KernelType /\ Waiting(k, mqueue, cqueue, wtobj, owner) /\ Owning(owner, mcnt, mtxlist)
      /\ TimeoutsOK(k) /\ realprio \in [Threads -> Prios]
      /\ wtobj \in [Threads -> Mutexes \union Conds \union {NoObj}]
  BY Parts
<1>2. Sound(k, {}) /\ Exacts(k, wtobj, owner, realprio, {})
  BY Quiet
<1>3. PICK on, cn, ln : on = owner' /\ cn = mcnt' /\ ln = mtxlist'
  OBVIOUS
<1>4. on = [owner EXCEPT ![m] = t] /\ Taken(owner, mcnt, mtxlist, m, t, on, cn, ln)
  BY <1>3 DEF Own, Taken
<1>5. Owning(on, cn, ln)
  BY <1>1, <1>4, TakeOwners
<1>6. mqueue[m] = <<>> /\ DOMAIN owner = Mutexes
  BY <1>1, FreeQueue DEF Owning, OwnTypes
<1>7. Waiting(k, mqueue, cqueue, wtobj, on)
  BY <1>1, <1>4, <1>6, FreeWaiting
<1>8. Exacts(k, wtobj, on, realprio, {})
  BY <1>1, <1>2, <1>4, <1>6, FreeExacts
<1>9. PICK ct : ct = cont'
  OBVIOUS
<1>10. ResumeOK(k, ct) /\ ContsOK(k, ct, on) /\ ct \in [Threads -> Mutexes \union {NoObj}]
  BY <1>4, <1>9, ContForOK DEF ContFor
<1> QED BY <1>1, <1>2, <1>3, <1>5, <1>7, <1>8, <1>9, <1>10, Calm

\* A recursive lock.
LEMMA LockAgain ==
    ASSUME IInv, cs = NoCS, NEW t \in Threads, NEW m \in Mutexes, ContFor(t, cont'),
           owner[m] = t, mcnt[m] < MaxRecursion, mcnt' = [mcnt EXCEPT ![m] = @ + 1],
           UNCHANGED <<k, realprio, owner, mqueue, mtxlist, cqueue, wtobj, cs>>
    PROVE  IInv'
<1>1. /\ k \in KernelType /\ Waiting(k, mqueue, cqueue, wtobj, owner) /\ Owning(owner, mcnt, mtxlist)
      /\ TimeoutsOK(k) /\ realprio \in [Threads -> Prios]
      /\ wtobj \in [Threads -> Mutexes \union Conds \union {NoObj}]
  BY Parts
<1>2. Sound(k, {}) /\ Exacts(k, wtobj, owner, realprio, {})
  BY Quiet
<1>3. mcnt \in [Mutexes -> 0 .. MaxRecursion] /\ MaxRecursion \in Nat /\ owner[m] # NoThread
  BY <1>1, MutexAssumption, KernelAssumption DEF Owning, OwnTypes
<1>4. mcnt' \in [Mutexes -> 0 .. MaxRecursion] /\ \A x \in Mutexes : x # m => mcnt'[x] = mcnt[x]
  BY <1>3
<1>5. mcnt'[m] # 0 /\ mcnt[m] # 0
  BY <1>1, <1>3 DEF Owning, OwnersOK
<1>6. Owning(owner, mcnt', mtxlist)
  <2>1. \A x \in Mutexes : (owner[x] = NoThread) <=> (mcnt'[x] = 0)
    BY <1>1, <1>3, <1>4, <1>5 DEF Owning, OwnersOK
  <2> QED BY <1>1, <1>4, <2>1 DEF Owning, OwnersOK, OwnTypes
<1>9. PICK ct : ct = cont'
  OBVIOUS
<1>10. ResumeOK(k, ct) /\ ContsOK(k, ct, owner) /\ ct \in [Threads -> Mutexes \union {NoObj}]
  BY <1>9, ContForOK DEF ContFor
<1> QED BY <1>1, <1>2, <1>6, <1>9, <1>10, Calm

\* The lock of a mutex of another thread enters the inheritance loop.
LEMMA LockStart ==
    ASSUME IInv, cs = NoCS, NEW c \in Cores, InThread(k, c), NEW m \in Mutexes,
           ContFor(k.current[c], cont'), owner[m] \notin {NoThread, k.current[c]},
           cs' = [op |-> "lock", core |-> c, mp |-> m, tp |-> owner[m]],
           UNCHANGED <<k, objs>>
    PROVE  IInv'
<1>1. /\ k \in KernelType /\ Waiting(k, mqueue, cqueue, wtobj, owner) /\ Owning(owner, mcnt, mtxlist)
      /\ TimeoutsOK(k) /\ realprio \in [Threads -> Prios]
      /\ wtobj \in [Threads -> Mutexes \union Conds \union {NoObj}]
  BY Parts
<1>2. Sound(k, {}) /\ Exacts(k, wtobj, owner, realprio, {})
  BY Quiet
<1>3. PICK t : t = k.current[c]
  OBVIOUS
<1>4. t \in Threads /\ owner[m] \in Threads /\ k.prio \in [Threads -> Nat]
  BY <1>1, <1>2, <1>3, SoundFacts DEF Owning, OwnTypes
<1>5. /\ cs' \in Sections \union {NoCS} /\ cs'.op = "lock" /\ cs'.core = c /\ cs'.mp = m
      /\ cs'.tp = owner[m]
  BY <1>4 DEF Sections
<1>6. PICK ct : ct = cont'
  OBVIOUS
<1>7. /\ ResumeOK(k, ct) /\ ContsOK(k, ct, owner) /\ ct \in [Threads -> Mutexes \union {NoObj}]
      /\ ct[t] = NoObj
  BY <1>3, <1>4, <1>6, ContForOK DEF ContFor
<1>8. UNCHANGED <<k, realprio, owner, mcnt, mqueue, mtxlist, cqueue, wtobj>>
  BY DEF objs
<1>9. Settled'
  BY <1>1, <1>6, <1>7, <1>8 DEF Settled
<1>10. Sound(k', Busy(cs')) /\ ResumeOK(k', cont')
  BY <1>2, <1>6, <1>7, <1>8, SoundMore
<1>11. SectionOK(k', cs', owner', cont')
  BY <1>3, <1>5, <1>6, <1>7, <1>8 DEF SectionOK
<1>12. LockExact(k, wtobj, owner, realprio, cs')
  <2>1. PICK P : P = k.prio[t]
    OBVIOUS
  <2>2. P \in Nat
    BY <1>4, <2>1
  <2> SUFFICES ASSUME NEW u \in Threads
               PROVE  Exact(k, wtobj, owner, realprio, u, IF u = owner[m] THEN {P} ELSE {},
                            IF u = owner[m] /\ k.prio[u] < P THEN P ELSE k.prio[u])
    BY <1>3, <1>5, <2>1 DEF LockExact
  <2>3. Exact(k, wtobj, owner, realprio, u, {}, k.prio[u])
    BY <1>2 DEF Exacts
  <2>4. CASE u # owner[m]
    BY <2>3, <2>4
  <2>5. CASE u = owner[m] /\ k.prio[u] < P
    <3>1. Exact(k, wtobj, owner, realprio, u, {P}, P)
      BY <1>1, <1>4, <2>2, <2>3, <2>5 DEF Exact, Prios
    <3> QED BY <2>5, <3>1
  <2>6. CASE u = owner[m] /\ ~ (k.prio[u] < P)
    <3>1. Exact(k, wtobj, owner, realprio, u, {P}, k.prio[u])
      BY <1>4, <2>2, <2>3, <2>6 DEF Exact
    <3> QED BY <2>6, <3>1
  <2> QED BY <2>4, <2>5, <2>6
<1>13. InheritOK(k', wtobj', owner', realprio', cs')
  <2>1. LockExact(k', wtobj', owner', realprio', cs')
    BY <1>8, <1>12
  <2> QED BY <1>5, <2>1 DEF InheritOK
<1> QED BY <1>5, <1>9, <1>10, <1>11, <1>13, SettledPieces

\* The start of a lock, from a caller or from a condition wait.
LEMMA LockSInv ==
    ASSUME IInv, cs = NoCS, NEW c \in Cores, InThread(k, c), NEW m \in Mutexes,
           ContFor(k.current[c], cont'), LockS(c, m)
    PROVE  IInv'
<1>1. PICK t : t = k.current[c]
  OBVIOUS
<1>2. k.current[c] \in Threads /\ t \in Threads
  BY <1>1 DEF InThread, UserThreads
<1>3. CASE owner[m] = NoThread /\ Own(m, t, mtxlist) /\ UNCHANGED <<k, realprio, mqueue, cqueue, wtobj, cs>>
  BY <1>1, <1>2, <1>3, LockFree
<1>4. CASE /\ owner[m] = t /\ mcnt[m] < MaxRecursion /\ mcnt' = [mcnt EXCEPT ![m] = @ + 1]
           /\ UNCHANGED <<k, realprio, owner, mqueue, mtxlist, cqueue, wtobj, cs>>
  BY <1>1, <1>2, <1>4, LockAgain
<1>5. CASE /\ owner[m] \notin {NoThread, k.current[c]}
           /\ cs' = [op |-> "lock", core |-> c, mp |-> m, tp |-> owner[m]]
           /\ UNCHANGED <<k, objs>>
  BY <1>5, LockStart
<1> QED BY <1>1, <1>3, <1>4, <1>5 DEF LockS

\* chMtxLock() and chMtxTryLock() preserve the invariant.
LEMMA LockInv ==
    ASSUME IInv, NEW c \in Cores, NEW m \in Mutexes, chMtxLock(c, m) \/ chMtxTryLock(c, m)
    PROVE  IInv'
<1>1. Caller(c) /\ LockS(c, m) /\ cont' = cont
  BY DEF chMtxLock, chMtxTryLock
<1>2. cs = NoCS /\ InThread(k, c) /\ cont[k.current[c]] = NoObj
  BY <1>1, CallerFacts
<1>3. cont \in [Threads -> Mutexes \union {NoObj}]
  BY Parts
<1>4. ContFor(k.current[c], cont')
  BY <1>1, <1>2, <1>3 DEF ContFor
<1> QED BY <1>1, <1>2, <1>4, LockSInv

\* A condition wait goes on: with its mutex, or without it after a timeout.
LEMMA ResumeInv ==
    ASSUME IInv, NEW c \in Cores, CondResume(c)
    PROVE  IInv'
<1>1. PICK t : t = k.current[c]
  OBVIOUS
<1>2. /\ cs = NoCS /\ cont[t] # NoObj /\ cont' = [cont EXCEPT ![t] = NoObj]
      /\ \/ UNCHANGED <<k, objs, cs>>
         \/ LockS(c, cont[t])
  BY <1>1 DEF CondResume, Resuming
<1>3. /\ k \in KernelType /\ cont \in [Threads -> Mutexes \union {NoObj}]
      /\ ContsOK(k, cont, owner) /\ ResumeOK(k, cont)
  BY Parts
<1>4. t \in Threads
  BY <1>1, <1>3 DEF KernelType
<1>5. InThread(k, c) /\ cont[t] \in Mutexes
  <2>1. t \in UserThreads /\ cont[t] \in Mutexes
    BY <1>2, <1>3, <1>4 DEF ContsOK
  <2>2. c \notin k.isr
    BY <1>1, <1>2, <1>3 DEF ResumeOK
  <2> QED BY <1>1, <2>1, <2>2 DEF InThread
<1>6. ContFor(k.current[c], cont')
  BY <1>1, <1>2, <1>3, <1>4 DEF ContFor
<1>7. CASE LockS(c, cont[t])
  BY <1>2, <1>5, <1>6, <1>7, LockSInv
<1>8. CASE UNCHANGED <<k, objs, cs>>
  <2>1. UNCHANGED <<k, realprio, owner, mcnt, mqueue, mtxlist, cqueue, wtobj, cs>>
    BY <1>8 DEF objs
  <2>2. /\ Waiting(k, mqueue, cqueue, wtobj, owner) /\ Owning(owner, mcnt, mtxlist)
        /\ TimeoutsOK(k) /\ realprio \in [Threads -> Prios]
        /\ wtobj \in [Threads -> Mutexes \union Conds \union {NoObj}]
    BY Parts
  <2>3. Sound(k, {}) /\ Exacts(k, wtobj, owner, realprio, {})
    BY <1>2, Quiet
  <2>4. PICK ct : ct = cont'
    OBVIOUS
  <2>5. ResumeOK(k, ct) /\ ContsOK(k, ct, owner) /\ ct \in [Threads -> Mutexes \union {NoObj}]
    BY <1>1, <1>4, <1>5, <1>6, <2>4, ContForOK DEF ContFor
  <2> QED BY <1>2, <2>1, <2>2, <2>3, <2>4, <2>5, Calm
<1> QED BY <1>2, <1>7, <1>8

-----------------------------------------------------------------------------
(* The inheritance loop *)

\* What holds in the inheritance loop of a lock.
LEMMA LockFacts ==
    ASSUME IInv, cs.op = "lock"
    PROVE  /\ cs \in [op : {"lock"}, core : Cores, mp : Mutexes, tp : Threads]
           /\ cs.core \in Cores /\ cs.mp \in Mutexes /\ cs.tp \in Threads
           /\ Sound(k, {cs.core}) /\ InThread(k, cs.core)
           /\ k.current[cs.core] \in Threads /\ k.state[k.current[cs.core]] = "CURRENT"
           /\ owner[cs.mp] \in Threads \ {k.current[cs.core]}
           /\ cont[k.current[cs.core]] = NoObj
           /\ LockExact(k, wtobj, owner, realprio, cs)
<1>1. /\ cs \in Sections \union {NoCS} /\ Sound(k, Busy(cs)) /\ SectionOK(k, cs, owner, cont)
      /\ Owning(owner, mcnt, mtxlist)
  BY Parts
<1>2. InheritOK(k, wtobj, owner, realprio, cs)
  BY Parts
<1>3. cs \in [op : {"lock"}, core : Cores, mp : Mutexes, tp : Threads]
  BY <1>1 DEF Sections, NoCS
<1>4. Busy(cs) = {cs.core} /\ cs.core \in Cores /\ cs.mp \in Mutexes /\ cs.tp \in Threads
  BY <1>3 DEF Busy
<1>5. LockExact(k, wtobj, owner, realprio, cs)
  BY <1>2 DEF InheritOK
<1>6. k.current[cs.core] \in Threads /\ k.state[k.current[cs.core]] = "CURRENT"
  BY <1>1, <1>4, SoundFacts
<1>7. /\ InThread(k, cs.core) /\ owner[cs.mp] \notin {NoThread, k.current[cs.core]}
      /\ cont[k.current[cs.core]] = NoObj
  BY <1>1 DEF SectionOK
<1>8. owner[cs.mp] \in Threads \ {k.current[cs.core]}
  BY <1>1, <1>4, <1>7 DEF Owning, OwnTypes
<1> QED BY <1>1, <1>3, <1>4, <1>5, <1>6, <1>7, <1>8

\* A thread that runs has no timeout.
LEMMA RunningUntimed ==
    ASSUME TimeoutsOK(k), NEW t, k.state[t] = "CURRENT"
    PROVE  t \notin Pending(k)
BY DEF TimeoutsOK

\* At the end of the loop the virtual waiter becomes a real one.
LEMMA LockSleepInv ==
    ASSUME IInv, LockSleep
    PROVE  IInv'
<1>1. PICK c, m, t, P : c = cs.core /\ m = cs.mp /\ t = k.current[c] /\ P = k.prio[t]
  OBVIOUS
<1>2. /\ cs.op = "lock" /\ k.prio[cs.tp] >= P
      /\ mqueue' = [mqueue EXCEPT ![m] = ch_sch_prio_insert(mqueue[m], t, k.prio)]
      /\ wtobj' = [wtobj EXCEPT ![t] = m] /\ k' = chSchGoSleepS(k, c, "WTMTX") /\ cs' = NoCS
      /\ UNCHANGED <<realprio, owner, mcnt, mtxlist, cqueue, cont>>
  BY <1>1 DEF LockSleep
<1>3. /\ c \in Cores /\ m \in Mutexes /\ cs.tp \in Threads /\ Sound(k, {c}) /\ InThread(k, c)
      /\ t \in Threads /\ k.state[t] = "CURRENT" /\ owner[m] \in Threads \ {t}
      /\ cont[t] = NoObj /\ LockExact(k, wtobj, owner, realprio, cs) /\ c \notin k.isr
  BY <1>1, <1>2, LockFacts DEF InThread
<1>4. /\ k \in KernelType /\ Waiting(k, mqueue, cqueue, wtobj, owner) /\ ContsOK(k, cont, owner)
      /\ TimeoutsOK(k) /\ ResumeOK(k, cont) /\ Owning(owner, mcnt, mtxlist)
      /\ realprio \in [Threads -> Prios] /\ cont \in [Threads -> Mutexes \union {NoObj}]
      /\ wtobj \in [Threads -> Mutexes \union Conds \union {NoObj}]
  BY Parts
<1>5. "WTMTX" \in TimedStates \ {"READY"} /\ {c} \subseteq {c}
  BY DEF TimedStates, States
<1>6. Sound(k', {}) /\ Rested(k, k', t, "WTMTX") /\ Untimed(k, k')
  BY <1>1, <1>2, <1>3, <1>5, RunSleepS
<1>7. /\ Asleep(k, k', t, "WTMTX") /\ Others(k, k', {t}) /\ k'.prio = k.prio
      /\ Pending(k') \subseteq Pending(k)
  BY <1>6 DEF Rested, Asleep, Untimed, Others
<1>8. Waiting(k', [mqueue EXCEPT ![m] = ch_sch_prio_insert(mqueue[m], t, k.prio)], cqueue,
              [wtobj EXCEPT ![t] = m], owner)
  BY <1>3, <1>4, <1>7, SleepWaiting
<1>9. Exacts(k', [wtobj EXCEPT ![t] = m], owner, realprio, {})
  <2> SUFFICES ASSUME NEW o \in Threads
               PROVE  Exact(k', [wtobj EXCEPT ![t] = m], owner, realprio, o, {}, k.prio[o])
    BY <1>7 DEF Exacts
  <2>1. Exact(k, wtobj, owner, realprio, o, IF o = owner[m] THEN {P} ELSE {},
              IF o = cs.tp /\ k.prio[o] < P THEN P ELSE k.prio[o])
    BY <1>1, <1>3 DEF LockExact
  <2>2. ~ (o = cs.tp /\ k.prio[o] < P)
    <3>1. k.prio \in [Threads -> Nat]
      BY <1>3, SoundFacts
    <3> QED BY <1>1, <1>2, <1>3, <3>1
  <2>3. Exact(k, wtobj, owner, realprio, o, IF o = owner[m] THEN {k.prio[t]} ELSE {}, k.prio[o])
    BY <1>1, <2>1, <2>2
  <2>4. DOMAIN wtobj = Threads
    BY <1>4
  <2> QED BY <1>3, <1>7, <2>3, <2>4, SleepExact
<1>10. ContsOK(k', cont, owner)
  BY <1>3, <1>4, <1>7, ContsMove
<1>11. TimeoutsOK(k')
  <2>1. t \notin Pending(k') /\ Pending(k') \subseteq Pending(k) \union {t}
    BY <1>3, <1>4, <1>7, RunningUntimed
  <2> QED BY <1>4, <1>6, <1>7, <2>1, TimeoutsMove
<1>12. ResumeOK(k', cont)
  <2>1. Moved(k, k', c)
    BY <1>2, <1>3, <1>4, MovedCalls
  <2> QED BY <1>4, <2>1, ResumeMove
<1>13. wtobj' \in [Threads -> Mutexes \union Conds \union {NoObj}]
  BY <1>2, <1>3, <1>4
<1> QED BY <1>2, <1>4, <1>6, <1>8, <1>9, <1>10, <1>11, <1>12, <1>13, Calm

\* A thread of the chain takes priority p: the queues are reordered, the
\* order of the cores but c is kept.
LEMMA NewPrio ==
    ASSUME IInv, NEW c \in Cores, Sound(k, {c}), NEW t \in Threads, NEW p \in Prios, NEW kk,
           NewEffective(kk, c, t, p),
           \/ kk = k /\ (k.state[t] = "CURRENT" => Owner[t] = c \/ p >= k.prio[t])
           \/ kk = IF k.state[t] = "CURRENT" THEN chSysNotifyInstance(k, c, t) ELSE k
    PROVE  /\ Sound(k', {c}) /\ Repriced(k, k', t, p)
           /\ Waiting(k', mqueue', cqueue', wtobj, owner)
<1>1. k \in KernelType /\ Waiting(k, mqueue, cqueue, wtobj, owner) /\ k.prio \in [Threads -> Nat]
  BY Parts, SoundFacts
<1>2. {c} \union {c} = {c}
  OBVIOUS
<1>3. Sound(k', {c}) /\ Repriced(k, k', t, p)
  <2>1. CASE k.state[t] = "READY"
    <3>1. kk = k
      BY <2>1
    <3>2. k' = sch_requeue_behind([k EXCEPT !.prio[t] = p], c, t)
      BY <2>1, <3>1 DEF NewEffective
    <3>3. Sound(k', {c} \union {c}) /\ Repriced(k, k', t, p)
      BY <2>1, <3>2, PriceReady
    <3> QED BY <1>2, <3>3
  <2>2. CASE k.state[t] # "READY"
    <3>1. k' = [kk EXCEPT !.prio[t] = p]
      BY <2>2 DEF NewEffective
    <3>2. \/ /\ k' = [k EXCEPT !.prio[t] = p]
             /\ Owner[t] = c \/ (k.state[t] = "CURRENT" => p >= k.prio[t])
          \/ k' = [chSysNotifyInstance(k, c, t) EXCEPT !.prio[t] = p]
      BY <3>1
    <3>3. Sound(k', {c} \union {c}) /\ Repriced(k, k', t, p)
      BY <2>2, <3>2, PricePlain
    <3> QED BY <1>2, <3>3
  <2> QED BY <2>1, <2>2
<1>4. k'.prio = [k.prio EXCEPT ![t] = p] /\ p \in Nat
  BY <1>3 DEF Repriced, Prios
<1>5. PICK kp : kp = [kk EXCEPT !.prio[t] = p]
  OBVIOUS
<1>6. kp.prio = k'.prio
  <2>1. CASE kk = k
    BY <1>1, <1>4, <1>5, <2>1 DEF KernelType
  <2>2. CASE kk = chSysNotifyInstance(k, c, t)
    BY <1>1, <1>4, <1>5, <2>2 DEF KernelType, chSysNotifyInstance
  <2> QED BY <2>1, <2>2
<1>7. PICK mn, cn : mn = mqueue' /\ cn = cqueue'
  OBVIOUS
<1>8. /\ mn = IF k.state[t] = "WTMTX"
                THEN [mqueue EXCEPT ![wtobj[t]] = Requeue(mqueue[wtobj[t]], t, k'.prio)] ELSE mqueue
      /\ cn = IF k.state[t] = "WTCOND"
                THEN [cqueue EXCEPT ![wtobj[t]] = Requeue(cqueue[wtobj[t]], t, k'.prio)] ELSE cqueue
  <2>1. /\ mn = IF k.state[t] = "WTMTX"
                  THEN [mqueue EXCEPT ![wtobj[t]] = Requeue(mqueue[wtobj[t]], t, kp.prio)] ELSE mqueue
        /\ cn = IF k.state[t] = "WTCOND"
                  THEN [cqueue EXCEPT ![wtobj[t]] = Requeue(cqueue[wtobj[t]], t, kp.prio)] ELSE cqueue
    BY <1>5, <1>7 DEF NewEffective
  <2> QED BY <1>6, <2>1
<1>9. Waiting(k', mn, cn, wtobj, owner)
  BY <1>1, <1>3, <1>4, <1>8, PriceWaiting
<1> QED BY <1>3, <1>7, <1>9

\* What a change of priority leaves alone.
LEMMA PricedSettled ==
    ASSUME IInv, NEW t, NEW p, Repriced(k, k', t, p), Waiting(k', mqueue', cqueue', wtobj, owner),
           UNCHANGED <<realprio, owner, mcnt, mtxlist, wtobj, cont>>
    PROVE  Settled' /\ ResumeOK(k', cont')
<1>1. /\ k'.state = k.state /\ k'.current = k.current /\ k'.isr = k.isr
      /\ k'.armed = k.armed /\ k'.firing = k.firing
  BY DEF Repriced
<1>2. Pending(k') = Pending(k)
  BY <1>1 DEF Pending
<1>3. /\ ContsOK(k, cont, owner) /\ TimeoutsOK(k) /\ ResumeOK(k, cont) /\ Owning(owner, mcnt, mtxlist)
      /\ realprio \in [Threads -> Prios] /\ cont \in [Threads -> Mutexes \union {NoObj}]
      /\ wtobj \in [Threads -> Mutexes \union Conds \union {NoObj}]
  BY Parts
<1>4. ContsOK(k', cont, owner)
  BY <1>1, <1>3 DEF ContsOK
<1>5. TimeoutsOK(k')
  BY <1>1, <1>2, <1>3 DEF TimeoutsOK
<1>6. ResumeOK(k', cont)
  BY <1>1, <1>3 DEF ResumeOK
<1> QED BY <1>3, <1>4, <1>5, <1>6 DEF Settled

\* The next thread of the chain.
LEMMA NextFacts ==
    ASSUME IInv, NEW t \in Threads, NEW n, n = NextInChain(t)
    PROVE  /\ n \in Threads /\ ~ Waits(k, wtobj, owner, t, t)
           /\ \A u \in Threads : Waits(k, wtobj, owner, t, u) => u = n /\ u # t
           /\ ~ Waits(k, wtobj, owner, t, n) => n = t
<1>1. WaitersOK(k, wtobj, owner)
  BY Parts DEF Waiting
<1>2. k.state[t] = "WTMTX" => owner[wtobj[t]] \in Threads \ {t}
  BY <1>1 DEF WaitersOK
<1>3. CASE k.state[t] = "WTMTX"
  BY <1>2, <1>3 DEF NextInChain, Waits
<1>4. CASE k.state[t] # "WTMTX"
  BY <1>4 DEF NextInChain, Waits
<1> QED BY <1>3, <1>4

\* The owner of the mutex a thread waits for, when the thread is boosted to P.
LEMMA BoostExact ==
    ASSUME NEW kk, NEW wt, NEW ow, NEW rp \in [Threads -> Nat], NEW t \in Threads, NEW P \in Nat,
           NEW r, Repriced(kk, r, t, P), kk.prio \in [Threads -> Nat], kk.prio[t] < P,
           NEW o \in Threads, o # t, Waits(kk, wt, ow, t, o), NEW E, E \subseteq Nat,
           Exact(kk, wt, ow, rp, o, E, kk.prio[o]),
           NEW q, q = IF kk.prio[o] < P THEN P ELSE kk.prio[o]
    PROVE  Exact(r, wt, ow, rp, o, E, q)
<1>1. r.prio = [kk.prio EXCEPT ![t] = P] /\ r.state = kk.state
  BY DEF Repriced
<1>2. \A u \in Threads : Waits(r, wt, ow, u, o) <=> Waits(kk, wt, ow, u, o)
  BY <1>1 DEF Waits
<1>3. r.prio[t] = P /\ \A u \in Threads \ {t} : r.prio[u] = kk.prio[u]
  BY <1>1
<1>4. q \in Nat /\ q >= P /\ q >= kk.prio[o]
  OBVIOUS
<1>5. q >= rp[o]
  BY <1>4 DEF Exact
<1>6. \A e \in E : q >= e
  BY <1>4 DEF Exact
<1>7. ASSUME NEW u \in Threads, Waits(r, wt, ow, u, o) PROVE q >= r.prio[u]
  <2>1. kk.prio[o] >= kk.prio[u]
    BY <1>2, <1>7 DEF Exact
  <2>2. CASE u = t
    BY <1>3, <1>4, <2>2
  <2>3. CASE u # t
    BY <1>3, <1>4, <2>1, <2>3
  <2> QED BY <2>2, <2>3
<1>8. \/ q = rp[o] \/ q \in E
      \/ \E u \in Threads : Waits(r, wt, ow, u, o) /\ q = r.prio[u]
  <2>1. CASE kk.prio[o] < P
    BY <1>2, <1>3, <2>1
  <2>2. CASE ~ (kk.prio[o] < P)
    <3>1. q = kk.prio[o]
      BY <2>2
    <3>2. CASE q = rp[o] \/ q \in E
      BY <3>2
    <3>3. CASE \E u \in Threads : Waits(kk, wt, ow, u, o) /\ q = kk.prio[u]
      <4>1. PICK u \in Threads : Waits(kk, wt, ow, u, o) /\ q = kk.prio[u]
        BY <3>3
      <4>2. u # t
        BY <1>4, <4>1
      <4>3. q = r.prio[u] /\ Waits(r, wt, ow, u, o)
        BY <1>2, <1>3, <4>1, <4>2
      <4> QED BY <4>3
    <3> QED BY <3>1, <3>2, <3>3 DEF Exact
  <2> QED BY <2>1, <2>2
<1> QED BY <1>5, <1>6, <1>7, <1>8 DEF Exact

\* A turn of the inheritance loop moves the exception one owner on.
LEMMA LockBoostInv ==
    ASSUME IInv, LockBoost
    PROVE  IInv'
<1>1. PICK c, m, w, t, P, n : /\ c = cs.core /\ m = cs.mp /\ w = k.current[c] /\ t = cs.tp
                              /\ P = k.prio[w] /\ n = NextInChain(t)
  OBVIOUS
<1>2. /\ cs.op = "lock" /\ k.prio[t] < P /\ NewEffective(k, c, t, P)
      /\ cs' = [cs EXCEPT !.tp = n]
      /\ UNCHANGED <<realprio, owner, mcnt, mtxlist, wtobj, cont>>
  BY <1>1 DEF LockBoost
<1>3. /\ cs \in [op : {"lock"}, core : Cores, mp : Mutexes, tp : Threads]
      /\ c \in Cores /\ m \in Mutexes /\ t \in Threads /\ Sound(k, {c}) /\ InThread(k, c)
      /\ w \in Threads /\ owner[m] \in Threads \ {w}
      /\ cont[w] = NoObj /\ LockExact(k, wtobj, owner, realprio, cs)
  BY <1>1, <1>2, LockFacts
<1>4. /\ k \in KernelType /\ k.prio \in [Threads -> Nat] /\ realprio \in [Threads -> Prios]
  BY <1>3, Parts, SoundFacts
<1>5. P \in Prios /\ P \in Nat /\ P >= k.prio[t] /\ w # t /\ realprio \in [Threads -> Nat]
  BY <1>1, <1>2, <1>3, <1>4 DEF KernelType, Prios
<1>6. Sound(k', {c}) /\ Repriced(k, k', t, P) /\ Waiting(k', mqueue', cqueue', wtobj, owner)
  BY <1>2, <1>3, <1>5, NewPrio
<1>7. Settled' /\ ResumeOK(k', cont')
  BY <1>2, <1>6, PricedSettled
<1>8. /\ n \in Threads
      /\ \A u \in Threads : Waits(k, wtobj, owner, t, u) => u = n /\ u # t
      /\ ~ Waits(k, wtobj, owner, t, n) => n = t
  BY <1>1, <1>3, NextFacts
<1>9. /\ cs' \in Sections \union {NoCS} /\ cs'.op = "lock" /\ cs'.core = c /\ cs'.mp = m /\ cs'.tp = n
  BY <1>1, <1>2, <1>3, <1>8 DEF Sections
<1>10. /\ k'.current = k.current /\ k'.isr = k.isr /\ k'.prio[w] = P /\ k'.prio[t] = P
       /\ k'.prio = [k.prio EXCEPT ![t] = P]
  BY <1>1, <1>3, <1>4, <1>5, <1>6 DEF Repriced
<1>11. Sound(k', Busy(cs'))
  BY <1>6, <1>9 DEF Busy
<1>12. SectionOK(k', cs', owner', cont')
  BY <1>1, <1>2, <1>3, <1>9, <1>10, KernelAssumption DEF SectionOK, InThread
<1>13. ASSUME NEW u \in Threads
       PROVE  Exact(k', wtobj, owner, realprio, u, IF u = owner[m] THEN {P} ELSE {},
                    IF u = n /\ k'.prio[u] < P THEN P ELSE k'.prio[u])
  <2>1. PICK E : E = IF u = owner[m] THEN {P} ELSE {}
    OBVIOUS
  <2>2. E \subseteq Nat
    BY <1>5, <2>1
  <2>3. Exact(k, wtobj, owner, realprio, u, E, IF u = t /\ k.prio[u] < P THEN P ELSE k.prio[u])
    BY <1>1, <1>3, <2>1 DEF LockExact
  <2>4. k'.prio[u] = IF u = t THEN P ELSE k.prio[u]
    BY <1>4, <1>10
  <2>5. CASE Waits(k, wtobj, owner, t, u)
    <3>1. u = n /\ u # t
      BY <1>8, <2>5
    <3>2. Exact(k, wtobj, owner, realprio, u, E, k.prio[u])
      BY <2>3, <3>1
    <3>3. PICK q : q = IF k.prio[u] < P THEN P ELSE k.prio[u]
      OBVIOUS
    <3>4. Exact(k', wtobj, owner, realprio, u, E, q)
      BY <1>2, <1>3, <1>4, <1>5, <1>6, <2>2, <2>5, <3>1, <3>2, <3>3, BoostExact
    <3> QED BY <2>1, <2>4, <3>1, <3>3, <3>4
  <2>6. CASE ~ Waits(k, wtobj, owner, t, u)
    <3>1. Exact(k, wtobj, owner, realprio, u, E, k'.prio[u])
      BY <1>2, <2>3, <2>4
    <3>2. Exact(k', wtobj, owner, realprio, u, E, k'.prio[u])
      BY <1>3, <1>4, <1>6, <2>6, <3>1, PriceExact
    <3>3. ~ (u = n /\ k'.prio[u] < P)
      BY <1>5, <1>8, <1>10, <2>6
    <3> QED BY <2>1, <3>2, <3>3
  <2> QED BY <2>5, <2>6
<1>14. LockExact(k', wtobj', owner', realprio', cs')
  BY <1>1, <1>2, <1>9, <1>10, <1>13 DEF LockExact
<1>15. InheritOK(k', wtobj', owner', realprio', cs')
  BY <1>9, <1>14 DEF InheritOK
<1> QED BY <1>7, <1>9, <1>11, <1>12, <1>15, SettledPieces

-----------------------------------------------------------------------------
(* Priority changes *)

\* What holds in the loop of a priority change.
LEMMA SetPrioFacts ==
    ASSUME IInv, cs.op = "setprio"
    PROVE  /\ cs \in [op : {"setprio"}, core : Cores, tp : Threads]
           /\ cs.core \in Cores /\ cs.tp \in Threads
           /\ Sound(k, {cs.core}) /\ InThread(k, cs.core)
           /\ Exacts(k, wtobj, owner, realprio, {cs.tp})
<1>1. /\ cs \in Sections \union {NoCS} /\ Sound(k, Busy(cs)) /\ SectionOK(k, cs, owner, cont)
  BY Parts
<1>2. InheritOK(k, wtobj, owner, realprio, cs)
  BY Parts
<1>3. cs \in [op : {"setprio"}, core : Cores, tp : Threads]
  BY <1>1 DEF Sections, NoCS
<1>4. Busy(cs) = {cs.core}
  BY DEF Busy
<1> QED BY <1>1, <1>2, <1>3, <1>4 DEF SectionOK, InheritOK

\* A priority change starts with one thread that is not exact.
LEMMA SetPriorityInv ==
    ASSUME IInv, NEW c \in Cores, NEW tp \in UserThreads, NEW p \in NewPrios, thd_set_priority(c, tp, p)
    PROVE  IInv'
<1>1. /\ Caller(c) /\ realprio' = [realprio EXCEPT ![tp] = p]
      /\ cs' = [op |-> "setprio", core |-> c, tp |-> tp]
      /\ UNCHANGED <<k, owner, mcnt, mqueue, mtxlist, cqueue, wtobj, cont>>
  BY DEF thd_set_priority
<1>2. cs = NoCS /\ InThread(k, c) /\ tp \in Threads /\ p \in Prios
  BY <1>1, CallerFacts, MutexAssumption DEF UserThreads
<1>3. Sound(k, {}) /\ Exacts(k, wtobj, owner, realprio, {})
  BY <1>2, Quiet
<1>4. /\ Waiting(k, mqueue, cqueue, wtobj, owner) /\ ContsOK(k, cont, owner)
      /\ TimeoutsOK(k) /\ ResumeOK(k, cont) /\ Owning(owner, mcnt, mtxlist)
      /\ realprio \in [Threads -> Prios] /\ cont \in [Threads -> Mutexes \union {NoObj}]
      /\ wtobj \in [Threads -> Mutexes \union Conds \union {NoObj}]
  BY Parts
<1>5. Settled'
  <2>1. realprio' \in [Threads -> Prios]
    BY <1>1, <1>2, <1>4
  <2> QED BY <1>1, <1>4, <2>1 DEF Settled
<1>6. cs' \in Sections \union {NoCS} /\ cs'.op = "setprio" /\ cs'.core = c /\ cs'.tp = tp
  BY <1>1, <1>2 DEF Sections
<1>7. Sound(k', Busy(cs')) /\ ResumeOK(k', cont')
  BY <1>1, <1>3, <1>4, SoundMore
<1>8. SectionOK(k', cs', owner', cont')
  BY <1>1, <1>2, <1>6 DEF SectionOK
<1>9. Exacts(k', wtobj', owner', realprio', {tp})
  BY <1>1, <1>3, <1>4 DEF Exacts, Exact
<1>10. InheritOK(k', wtobj', owner', realprio', cs')
  BY <1>6, <1>9 DEF InheritOK
<1> QED BY <1>5, <1>6, <1>7, <1>8, <1>10, SettledPieces

\* The priority computed for a thread from the mutexes it owns is exact.
LEMMA EffectivePrioIs ==
    ASSUME IInv, NEW t \in Threads, NEW q, q = EffectivePrio(t)
    PROVE  q \in Prios /\ Exact(k, wtobj, owner, realprio, t, {}, q)
<1>1. /\ k \in KernelType /\ Waiting(k, mqueue, cqueue, wtobj, owner) /\ Owning(owner, mcnt, mtxlist)
      /\ realprio \in [Threads -> Prios]
  BY Parts
<1>2. /\ QueuesExact(k, mqueue, wtobj, Mutexes, "WTMTX", TRUE) /\ WaitersOK(k, wtobj, owner)
      /\ OwnersOK(owner, mcnt, mtxlist) /\ mtxlist[t] \in Seq(Mutexes)
  BY <1>1 DEF Waiting, Owning, OwnTypes
<1>3. Effective(k, wtobj, realprio, t, mtxlist[t], q)
  BY <1>1, <1>2, EffectiveIs DEF EffectivePrio
<1>4. Exact(k, wtobj, owner, realprio, t, {}, q)
  BY <1>2, <1>3, EffectiveExact
<1> QED BY <1>3, <1>4 DEF Effective

\* A turn of its loop moves the exception one owner on.
LEMMA SetPrioIterationInv ==
    ASSUME IInv, SetPrioIteration
    PROVE  IInv'
<1>1. PICK c, t, p, n : c = cs.core /\ t = cs.tp /\ p = EffectivePrio(t) /\ n = NextInChain(t)
  OBVIOUS
<1>2. PICK kk : kk = IF k.state[t] = "CURRENT" THEN chSysNotifyInstance(k, c, t) ELSE k
  OBVIOUS
<1>3. /\ cs.op = "setprio" /\ NewEffective(kk, c, t, p) /\ cs' = [cs EXCEPT !.tp = n]
      /\ UNCHANGED <<realprio, owner, mcnt, mtxlist, wtobj, cont>>
  BY <1>1, <1>2 DEF SetPrioIteration
<1>4. /\ cs \in [op : {"setprio"}, core : Cores, tp : Threads]
      /\ c \in Cores /\ t \in Threads /\ Sound(k, {c}) /\ InThread(k, c)
      /\ Exacts(k, wtobj, owner, realprio, {t})
  BY <1>1, <1>3, SetPrioFacts
<1>5. p \in Prios /\ Exact(k, wtobj, owner, realprio, t, {}, p)
  BY <1>1, <1>4, EffectivePrioIs
<1>6. Sound(k', {c}) /\ Repriced(k, k', t, p) /\ Waiting(k', mqueue', cqueue', wtobj, owner)
  BY <1>2, <1>3, <1>4, <1>5, NewPrio
<1>7. Settled' /\ ResumeOK(k', cont')
  BY <1>3, <1>6, PricedSettled
<1>8. /\ n \in Threads /\ ~ Waits(k, wtobj, owner, t, t)
      /\ \A u \in Threads : Waits(k, wtobj, owner, t, u) => u = n
  BY <1>1, <1>4, NextFacts
<1>9. cs' \in Sections \union {NoCS} /\ cs'.op = "setprio" /\ cs'.core = c /\ cs'.tp = n
  BY <1>1, <1>3, <1>4, <1>8 DEF Sections
<1>10. /\ k'.current = k.current /\ k'.isr = k.isr /\ k.prio \in [Threads -> Nat]
       /\ k'.prio = [k.prio EXCEPT ![t] = p]
  BY <1>4, <1>6, SoundFacts DEF Repriced
<1>11. Sound(k', Busy(cs'))
  BY <1>6, <1>9 DEF Busy
<1>12. SectionOK(k', cs', owner', cont')
  BY <1>4, <1>9, <1>10 DEF SectionOK, InThread
<1>13. Exacts(k', wtobj, owner, realprio, {n})
  <2> SUFFICES ASSUME NEW u \in Threads, u # n
               PROVE  Exact(k', wtobj, owner, realprio, u, {}, k'.prio[u])
    BY DEF Exacts
  <2>1. Exact(k, wtobj, owner, realprio, u, {}, k'.prio[u])
    <3>1. CASE u = t
      BY <1>4, <1>5, <1>10, <3>1
    <3>2. CASE u # t
      BY <1>4, <1>10, <3>2 DEF Exacts
    <3> QED BY <3>1, <3>2
  <2>2. ~ Waits(k, wtobj, owner, t, u)
    BY <1>8
  <2> QED BY <1>4, <1>6, <1>10, <2>1, <2>2, PriceExact
<1>14. InheritOK(k', wtobj', owner', realprio', cs')
  BY <1>3, <1>9, <1>13 DEF InheritOK
<1> QED BY <1>7, <1>9, <1>11, <1>12, <1>14, SettledPieces

\* Its end: the thread reached is exact, so everybody is.
LEMMA SetPrioEndInv ==
    ASSUME IInv, SetPrioEnd
    PROVE  IInv'
<1>1. PICK c, t : c = cs.core /\ t = cs.tp
  OBVIOUS
<1>2. /\ cs.op = "setprio" /\ EffectivePrio(t) = k.prio[t] /\ k' = chSchRescheduleS(k, c)
      /\ cs' = NoCS /\ UNCHANGED <<objs, cont>>
  BY <1>1 DEF SetPrioEnd
<1>3. /\ c \in Cores /\ t \in Threads /\ Sound(k, {c}) /\ InThread(k, c)
      /\ Exacts(k, wtobj, owner, realprio, {t}) /\ c \notin k.isr /\ {c} \subseteq {c}
  BY <1>1, <1>2, SetPrioFacts DEF InThread
<1>4. Exact(k, wtobj, owner, realprio, t, {}, k.prio[t])
  BY <1>2, <1>3, EffectivePrioIs
<1>5. Exacts(k, wtobj, owner, realprio, {})
  BY <1>3, <1>4 DEF Exacts
<1>6. /\ k \in KernelType /\ Waiting(k, mqueue, cqueue, wtobj, owner) /\ ContsOK(k, cont, owner)
      /\ TimeoutsOK(k) /\ ResumeOK(k, cont)
  BY Parts
<1>7. Sound(k', {}) /\ Still(k, k')
  BY <1>2, <1>3, RunReschedule
<1>8. Moved(k, k', c)
  BY <1>2, <1>3, <1>6, MovedCalls
<1>9. ResumeOK(k', cont)
  BY <1>6, <1>8, ResumeMove
<1> QED BY <1>2, <1>5, <1>6, <1>7, <1>9, StillInv

-----------------------------------------------------------------------------
(* A mutex is released *)

\* A kernel state in which the thread t of core c releases a mutex: its own
\* priority may have been computed already.
Base(kk, c, t) ==
    /\ Sound(kk, {c})
    /\ kk.state = k.state /\ kk.current = k.current /\ kk.isr = k.isr
    /\ Waiting(kk, mqueue, cqueue, wtobj, owner)
    /\ ContsOK(kk, cont, owner) /\ TimeoutsOK(kk) /\ ResumeOK(kk, cont)
    /\ Exacts(kk, wtobj, owner, realprio, {t})

\* The running thread of c changes its own priority.
LEMMA OwnPrice ==
    ASSUME IInv, NEW c \in Cores, NEW t \in Threads, t = k.current[c], k.state[t] = "CURRENT",
           NEW X, Sound(k, X), X \union {c} = {c}, NEW p \in Prios,
           Exacts(k, wtobj, owner, realprio, {t}),
           NEW kp, kp = [k EXCEPT !.prio[t] = p]
    PROVE  Base(kp, c, t) /\ Repriced(k, kp, t, p)
<1>1. /\ k \in KernelType /\ Waiting(k, mqueue, cqueue, wtobj, owner) /\ ContsOK(k, cont, owner)
      /\ TimeoutsOK(k) /\ ResumeOK(k, cont) /\ k.prio \in [Threads -> Nat]
  BY Parts, SoundFacts
<1>2. Owner[t] = c /\ k.state[t] # "READY"
  BY DEF Sound, KInv, KInvX
<1>3. Sound(kp, X \union {c}) /\ Repriced(k, kp, t, p)
  BY <1>2, PricePlain
<1>4. /\ kp.state = k.state /\ kp.current = k.current /\ kp.isr = k.isr
      /\ kp.armed = k.armed /\ kp.firing = k.firing /\ kp.prio = [k.prio EXCEPT ![t] = p]
  BY <1>3 DEF Repriced
<1>5. Waiting(kp, mqueue, cqueue, wtobj, owner)
  <2>1. p \in Nat /\ k.state[t] # "WTMTX" /\ k.state[t] # "WTCOND"
    BY DEF Prios
  <2> QED BY <1>1, <1>3, <2>1, PriceWaiting
<1>6. Pending(kp) = Pending(k)
  BY <1>4 DEF Pending
<1>7. ContsOK(kp, cont, owner) /\ TimeoutsOK(kp) /\ ResumeOK(kp, cont)
  BY <1>1, <1>4, <1>6 DEF ContsOK, TimeoutsOK, ResumeOK
<1>8. Exacts(kp, wtobj, owner, realprio, {t})
  <2> SUFFICES ASSUME NEW u \in Threads, u # t
               PROVE  Exact(kp, wtobj, owner, realprio, u, {}, k.prio[u])
    BY <1>1, <1>4 DEF Exacts
  <2>1. Exact(k, wtobj, owner, realprio, u, {}, k.prio[u]) /\ ~ Waits(k, wtobj, owner, t, u)
    BY DEF Exacts, Waits
  <2> QED BY <1>1, <1>3, <2>1, PriceExact
<1> QED BY <1>3, <1>4, <1>5, <1>7, <1>8 DEF Base

\* chSchReadyI() of the first waiter of m, the message it finds being kept.
LEMMA ReadyKept ==
    ASSUME NEW kk \in KernelType, NEW c, NEW t \in Threads
    PROVE  chSchReadyI(kk, c, t) = ReadyWithMsg(kk, c, t, kk.rdymsg[t])
<1>1. [kk EXCEPT !.rdymsg[t] = kk.rdymsg[t]] = kk
  BY DEF KernelType
<1> QED BY <1>1 DEF ReadyWithMsg

\* m goes from the list of t to its first waiter h.
PassedTo(m, t, h, on, cn, ln, mn, wn) ==
    /\ on = [owner EXCEPT ![m] = h] /\ cn = [mcnt EXCEPT ![m] = 1]
    /\ \E rest : /\ rest = [mtxlist EXCEPT ![t] = Tail(mtxlist[t])]
                 /\ ln = [rest EXCEPT ![h] = <<m>> \o rest[h]]
    /\ mn = [mqueue EXCEPT ![m] = ch_queue_fifo_remove(mqueue[m])]
    /\ wn = [wtobj EXCEPT ![h] = NoObj]

\* The state after it, t being the running thread of c; its priority aside.
Passed(r, c, t, on, cn, ln, mn, wn) ==
    /\ Sound(r, {c}) /\ r.current = k.current /\ r.isr = k.isr /\ r.state[t] = "CURRENT"
    /\ Owning(on, cn, ln) /\ Waiting(r, mn, cqueue, wn, on)
    /\ wn \in [Threads -> Mutexes \union Conds \union {NoObj}]
    /\ ContsOK(r, cont, on) /\ TimeoutsOK(r) /\ ResumeOK(r, cont)

\* The mutex on top of a list and its first waiter.
LEMMA PassFacts ==
    ASSUME IInv, NEW t \in Threads, k.state[t] = "CURRENT", mtxlist[t] # <<>>,
           NEW m, m = Head(mtxlist[t])
    PROVE  /\ m \in Mutexes /\ owner[m] = t /\ DOMAIN owner = Mutexes
           /\ mqueue[m] # <<>> =>
                 /\ Head(mqueue[m]) \in Threads \ {t} /\ k.state[Head(mqueue[m])] = "WTMTX"
                 /\ wtobj[Head(mqueue[m])] = m
<1>1. Owning(owner, mcnt, mtxlist) /\ k \in KernelType
  BY Parts
<1>2. QueuesExact(k, mqueue, wtobj, Mutexes, "WTMTX", TRUE)
  BY Parts DEF Waiting
<1>3. m \in Mutexes /\ owner[m] = t
  BY <1>1, TopMutex
<1>4. ASSUME mqueue[m] # <<>>
      PROVE  /\ Head(mqueue[m]) \in Threads \ {t} /\ k.state[Head(mqueue[m])] = "WTMTX"
             /\ wtobj[Head(mqueue[m])] = m
  <2>1. PICK h : h = Head(mqueue[m])
    OBVIOUS
  <2>2. k.prio \in [Threads -> Nat]
    BY <1>1 DEF KernelType, Prios
  <2>3. First(k, wtobj, "WTMTX", m, h)
    BY <1>2, <1>3, <1>4, <2>1, <2>2, HeadIsMax
  <2> QED BY <2>1, <2>3 DEF First
<1> QED BY <1>1, <1>3, <1>4 DEF Owning, OwnTypes

\* The threads inside a condition wait do not wait for a mutex.
LEMMA PassConts ==
    ASSUME NEW kk, ContsOK(kk, cont, owner), cont \in [Threads -> Mutexes \union {NoObj}],
           DOMAIN owner = Mutexes, NEW m \in Mutexes, NEW h,
           h = NoThread \/ kk.state[h] = "WTMTX"
    PROVE  ContsOK(kk, cont, [owner EXCEPT ![m] = h])
<1> SUFFICES ASSUME NEW u \in Threads, cont[u] # NoObj
             PROVE  /\ u \in UserThreads /\ [owner EXCEPT ![m] = h][cont[u]] # u
                    /\ kk.state[u] \in {"WTCOND", "READY", "CURRENT"}
  BY DEF ContsOK
<1>1. /\ u \in UserThreads /\ owner[cont[u]] # u /\ cont[u] \in Mutexes
      /\ kk.state[u] \in {"WTCOND", "READY", "CURRENT"}
  BY DEF ContsOK
<1>2. u # h
  BY <1>1, KernelAssumption
<1> QED BY <1>1, <1>2

\* m has a waiter: it becomes the owner and is made ready.
LEMMA PassReady ==
    ASSUME IInv, NEW c \in Cores, NEW t \in Threads, k.state[t] = "CURRENT", mtxlist[t] # <<>>,
           NEW m, m = Head(mtxlist[t]), mqueue[m] # <<>>, NEW h, h = Head(mqueue[m]),
           NEW kk, Base(kk, c, t), NEW r, r = chSchReadyI(kk, c, h),
           NEW on, NEW cn, NEW ln, NEW mn, NEW wn, PassedTo(m, t, h, on, cn, ln, mn, wn)
    PROVE  /\ Passed(r, c, t, on, cn, ln, mn, wn) /\ Exacts(r, wn, on, realprio, {t})
           /\ Woken(kk, r, h)
<1>1. /\ m \in Mutexes /\ owner[m] = t /\ DOMAIN owner = Mutexes /\ h \in Threads /\ h # t
      /\ k.state[h] = "WTMTX" /\ wtobj[h] = m
  BY PassFacts
<1>2. /\ Owning(owner, mcnt, mtxlist) /\ cont \in [Threads -> Mutexes \union {NoObj}]
      /\ wtobj \in [Threads -> Mutexes \union Conds \union {NoObj}]
  BY Parts
<1>3. /\ Sound(kk, {c}) /\ kk.state = k.state /\ kk.current = k.current /\ kk.isr = k.isr
      /\ Waiting(kk, mqueue, cqueue, wtobj, owner)
      /\ ContsOK(kk, cont, owner) /\ TimeoutsOK(kk) /\ ResumeOK(kk, cont)
      /\ Exacts(kk, wtobj, owner, realprio, {t})
  BY DEF Base
<1>4. kk \in KernelType /\ kk.rdymsg[h] \in Messages /\ kk.state[h] \notin {"READY", "CURRENT"}
  BY <1>1, <1>3, SoundFacts
<1>5. r = ReadyWithMsg(kk, c, h, kk.rdymsg[h])
  BY <1>1, <1>4, ReadyKept
<1>6. Sound(r, {c} \union {c}) /\ Roused(kk, r, h, kk.rdymsg[h]) /\ NoSwitch(kk, r)
  BY <1>1, <1>3, <1>4, <1>5, RunReady
<1>7. {c} \union {c} = {c}
  OBVIOUS
<1>8. /\ Sound(r, {c}) /\ Woken(kk, r, h) /\ Others(kk, r, {h}) /\ r.state[h] \in {"READY", "CURRENT"}
      /\ Pending(r) \subseteq Pending(kk) \union {h} /\ r.current = k.current /\ r.isr = k.isr
  BY <1>3, <1>6, <1>7 DEF Roused, Woken, NoSwitch
<1>9. PICK rest : /\ rest = [mtxlist EXCEPT ![t] = Tail(mtxlist[t])]
                  /\ ln = [rest EXCEPT ![h] = <<m>> \o rest[h]]
  BY DEF PassedTo
<1>10. /\ on = [owner EXCEPT ![m] = h] /\ cn = [mcnt EXCEPT ![m] = 1]
       /\ mn = [mqueue EXCEPT ![m] = ch_queue_fifo_remove(mqueue[m])]
       /\ wn = [wtobj EXCEPT ![h] = NoObj]
  BY DEF PassedTo
<1>11. Owning(on, cn, ln)
  BY <1>1, <1>2, <1>9, <1>10, PassOwners
<1>12. Waiting(r, mn, cqueue, wn, on)
  BY <1>1, <1>3, <1>4, <1>8, <1>10, PassWaiting
<1>13. Exacts(r, wn, on, realprio, {t})
  <2>1. h \notin {t} /\ {t} \union {owner[m]} = {t}
    BY <1>1
  <2>2. Exacts(r, wn, on, realprio, {t} \union {owner[m]})
    BY <1>1, <1>3, <1>4, <1>8, <1>10, <2>1, PassExacts
  <2> QED BY <2>1, <2>2
<1>14. ContsOK(r, cont, on)
  <2>1. ContsOK(kk, cont, on)
    BY <1>1, <1>2, <1>3, <1>10, PassConts
  <2>2. r.state[h] \in {"WTCOND", "READY", "CURRENT"}
    BY <1>8
  <2> QED BY <1>8, <2>1, <2>2, ContsMove
<1>15. TimeoutsOK(r)
  <2>1. r.state[h] \in {"WTCOND", "SLEEPING", "READY", "CURRENT"}
    BY <1>8
  <2> QED BY <1>3, <1>8, <2>1, TimeoutsMove
<1>16. ResumeOK(r, cont)
  BY <1>3, <1>8 DEF ResumeOK
<1>17. r.state[t] = "CURRENT"
  <2>1. MadeReady(kk, r, c, h, kk.rdymsg[h])
    BY <1>1, <1>4, <1>5, ReadyWithMsgEffect
  <2> QED BY <1>1, <1>3, <1>4, <2>1 DEF MadeReady, KernelType
<1>18. wn \in [Threads -> Mutexes \union Conds \union {NoObj}]
  BY <1>1, <1>2, <1>10
<1> QED BY <1>8, <1>11, <1>12, <1>13, <1>14, <1>15, <1>16, <1>17, <1>18 DEF Passed

\* m has no waiter: it becomes free.
LEMMA PassFree ==
    ASSUME IInv, NEW c \in Cores, NEW t \in Threads, k.state[t] = "CURRENT", mtxlist[t] # <<>>,
           NEW m, m = Head(mtxlist[t]), mqueue[m] = <<>>, NEW X, Exacts(k, wtobj, owner, realprio, X),
           Sound(k, {c}), NEW on, NEW cn, NEW ln, Dropped(owner, mcnt, mtxlist, m, t, on, cn, ln)
    PROVE  /\ Passed(k, c, t, on, cn, ln, mqueue, wtobj) /\ Exacts(k, wtobj, on, realprio, X)
<1>1. m \in Mutexes /\ DOMAIN owner = Mutexes
  BY PassFacts
<1>2. /\ Owning(owner, mcnt, mtxlist) /\ cont \in [Threads -> Mutexes \union {NoObj}]
      /\ wtobj \in [Threads -> Mutexes \union Conds \union {NoObj}]
      /\ Waiting(k, mqueue, cqueue, wtobj, owner)
      /\ ContsOK(k, cont, owner) /\ TimeoutsOK(k) /\ ResumeOK(k, cont)
  BY Parts
<1>3. on = [owner EXCEPT ![m] = NoThread]
  BY DEF Dropped
<1>4. Owning(on, cn, ln)
  BY <1>2, DropOwners
<1>5. Waiting(k, mqueue, cqueue, wtobj, on)
  BY <1>1, <1>2, <1>3, FreeWaiting
<1>6. Exacts(k, wtobj, on, realprio, X)
  BY <1>1, <1>2, <1>3, FreeExacts
<1>7. ContsOK(k, cont, on)
  BY <1>1, <1>2, <1>3, PassConts
<1> QED BY <1>2, <1>4, <1>5, <1>6, <1>7 DEF Passed

\* The priority the running thread has computed from the mutexes it keeps is
\* its exact one once the mutex has been passed on.
LEMMA PassExact ==
    ASSUME IInv, NEW t \in Threads, k.state[t] = "CURRENT", mtxlist[t] # <<>>,
           NEW m, m = Head(mtxlist[t]), mqueue[m] # <<>>, NEW h, h = Head(mqueue[m]),
           NEW q, Effective(k, wtobj, realprio, t, Tail(mtxlist[t]), q),
           NEW kp, Repriced(k, kp, t, q), NEW r, Woken(kp, r, h),
           NEW on, NEW cn, NEW ln, NEW mn, NEW wn, PassedTo(m, t, h, on, cn, ln, mn, wn),
           Owning(on, cn, ln), Exacts(r, wn, on, realprio, {t})
    PROVE  Exacts(r, wn, on, realprio, {})
<1>1. /\ m \in Mutexes /\ DOMAIN owner = Mutexes /\ h \in Threads /\ h # t
      /\ k.state[h] = "WTMTX" /\ wtobj[h] = m
  BY PassFacts
<1>2. /\ Owning(owner, mcnt, mtxlist) /\ k \in KernelType
      /\ wtobj \in [Threads -> Mutexes \union Conds \union {NoObj}]
      /\ WaitersOK(k, wtobj, owner)
  BY Parts DEF Waiting
<1>3. mtxlist \in [Threads -> Seq(Mutexes)]
  BY <1>2 DEF Owning, OwnTypes
<1>4. PICK rest : /\ rest = [mtxlist EXCEPT ![t] = Tail(mtxlist[t])]
                  /\ ln = [rest EXCEPT ![h] = <<m>> \o rest[h]]
  BY DEF PassedTo
<1>5. on = [owner EXCEPT ![m] = h] /\ wn = [wtobj EXCEPT ![h] = NoObj]
  BY DEF PassedTo
<1>6. ln[t] = Tail(mtxlist[t])
  <2>1. rest[t] = Tail(mtxlist[t]) /\ ln[t] = rest[t]
    BY <1>1, <1>3, <1>4
  <2> QED BY <2>1
<1>7. \A x \in Mutexes : (x \in ToSet(Tail(mtxlist[t]))) <=> (on[x] = t)
  BY <1>6 DEF Owning, OwnersOK
<1>8. /\ kp.state = k.state /\ kp.prio = [k.prio EXCEPT ![t] = q] /\ k.prio \in [Threads -> Prios]
      /\ r.prio = kp.prio
  BY <1>2 DEF Repriced, Woken, Others, KernelType
<1>9. \A u \in Threads : (r.state[u] = "WTMTX") <=> (k.state[u] = "WTMTX" /\ u # h)
  BY <1>1, <1>8 DEF Woken, Others
<1>10. on[m] = h
  BY <1>1, <1>5
<1>11. ASSUME NEW u \in Threads
       PROVE  Waits(r, wn, on, u, t) <=> (k.state[u] = "WTMTX" /\ wtobj[u] \in ToSet(Tail(mtxlist[t])))
  <2>1. CASE u = h
    <3>1. m \notin ToSet(Tail(mtxlist[t])) /\ r.state[u] # "WTMTX"
      BY <1>1, <1>7, <1>9, <1>10, <2>1
    <3> QED BY <1>1, <2>1, <3>1 DEF Waits
  <2>2. CASE u # h /\ k.state[u] = "WTMTX"
    <3>1. wn[u] = wtobj[u] /\ wtobj[u] \in Mutexes
      BY <1>2, <1>5, <2>2 DEF WaitersOK
    <3> QED BY <1>7, <1>9, <2>2, <3>1 DEF Waits
  <2>3. CASE k.state[u] # "WTMTX"
    BY <1>9, <2>3 DEF Waits
  <2> QED BY <2>1, <2>2, <2>3
<1>12. r.prio[t] = q /\ \A u \in Threads : k.state[u] = "WTMTX" => r.prio[u] = k.prio[u]
  BY <1>8
<1>13. /\ q = realprio[t] \/ \E u \in Threads : Waits(r, wn, on, u, t) /\ q = r.prio[u]
       /\ q >= realprio[t]
       /\ \A u \in Threads : Waits(r, wn, on, u, t) => q >= r.prio[u]
  BY <1>11, <1>12 DEF Effective
<1>14. Exact(r, wn, on, realprio, t, {}, r.prio[t])
  BY <1>12, <1>13 DEF Exact
<1> QED BY <1>14 DEF Exacts

\* PassOn() when somebody waits, and when nobody does.
LEMMA PassOnWaiter ==
    ASSUME NEW c, NEW w, PassOn(c, w), NEW t, t = k.current[c], NEW m, m = Head(mtxlist[t]),
           mqueue[m] # <<>>, NEW h, h = Head(mqueue[m]),
           NEW wn, wn = [wtobj EXCEPT ![h] = NoObj]
    PROVE  /\ PassedTo(m, t, h, owner', mcnt', mtxlist', mqueue', wn)
           /\ wtobj' = [w EXCEPT ![h] = NoObj]
<1>1. PICK rest : rest = [mtxlist EXCEPT ![t] = Tail(mtxlist[t])]
  OBVIOUS
<1>2. /\ owner' = [owner EXCEPT ![m] = h] /\ mcnt' = [mcnt EXCEPT ![m] = 1]
      /\ mtxlist' = [rest EXCEPT ![h] = <<m>> \o rest[h]]
      /\ mqueue' = [mqueue EXCEPT ![m] = ch_queue_fifo_remove(mqueue[m])]
      /\ wtobj' = [w EXCEPT ![h] = NoObj]
  BY <1>1 DEF PassOn, Own
<1> QED BY <1>1, <1>2 DEF PassedTo

\* A mutex without waiters becomes free.
LEMMA PassOnFree ==
    ASSUME NEW c, NEW w, PassOn(c, w), NEW t, t = k.current[c], NEW m, m = Head(mtxlist[t]),
           mqueue[m] = <<>>
    PROVE  /\ Dropped(owner, mcnt, mtxlist, m, t, owner', mcnt', mtxlist')
           /\ wtobj' = w /\ mqueue' = mqueue
BY DEF PassOn, Dropped

\* __mtx_unlock_no_reschedule(), when the last lock of the mutex is undone:
\* everybody has the exact priority afterwards.
LEMMA UnlockNoReschedule ==
    ASSUME IInv, cs = NoCS, NEW c \in Cores, InThread(k, c), NEW w, PassOn(c, w),
           NEW t, t = k.current[c], mtxlist[t] # <<>>, NEW r, r = mtx_unlock_no_reschedule(c)
    PROVE  \E wn : /\ Passed(r, c, t, owner', mcnt', mtxlist', mqueue', wn)
                   /\ Exacts(r, wn, owner', realprio, {})
                   /\ \/ wn = wtobj /\ wtobj' = w
                      \/ \E h \in Threads \ {t} : /\ wn = [wtobj EXCEPT ![h] = NoObj]
                                                  /\ wtobj' = [w EXCEPT ![h] = NoObj]
<1>1. PICK m : m = Head(mtxlist[t])
  OBVIOUS
<1>2. Sound(k, {}) /\ Exacts(k, wtobj, owner, realprio, {}) /\ Sound(k, {c})
  BY Quiet, SoundMore
<1>3. t \in Threads /\ k.state[t] = "CURRENT"
  BY <1>2, SoundFacts
<1>4. PICK on, cn, ln, mn : on = owner' /\ cn = mcnt' /\ ln = mtxlist' /\ mn = mqueue'
  OBVIOUS
<1>5. CASE mqueue[m] = <<>>
  <2>1. r = k
    BY <1>1, <1>5 DEF mtx_unlock_no_reschedule
  <2>2. Dropped(owner, mcnt, mtxlist, m, t, on, cn, ln) /\ wtobj' = w /\ mn = mqueue
    BY <1>1, <1>4, <1>5, PassOnFree
  <2>3. Passed(k, c, t, on, cn, ln, mqueue, wtobj) /\ Exacts(k, wtobj, on, realprio, {})
    BY <1>1, <1>2, <1>3, <1>5, <2>2, PassFree
  <2> QED BY <1>4, <2>1, <2>2, <2>3
<1>6. CASE mqueue[m] # <<>>
  <2>1. PICK h, wn, q, kp : /\ h = Head(mqueue[m]) /\ wn = [wtobj EXCEPT ![h] = NoObj]
                            /\ q = mtx_get_effective_priority(t, Tail(mtxlist[t]), mqueue)
                            /\ kp = [k EXCEPT !.prio[t] = q]
    OBVIOUS
  <2>2. h \in Threads \ {t}
    BY <1>1, <1>3, <1>6, <2>1, PassFacts
  <2>3. PassedTo(m, t, h, on, cn, ln, mn, wn) /\ wtobj' = [w EXCEPT ![h] = NoObj]
    BY <1>1, <1>4, <1>6, <2>1, PassOnWaiter
  <2>4. Effective(k, wtobj, realprio, t, Tail(mtxlist[t]), q)
    <3>1. /\ k \in KernelType /\ QueuesExact(k, mqueue, wtobj, Mutexes, "WTMTX", TRUE)
          /\ realprio \in [Threads -> Prios] /\ mtxlist[t] \in Seq(Mutexes)
      BY <1>3, Parts DEF Waiting, Owning, OwnTypes
    <3>2. Tail(mtxlist[t]) \in Seq(Mutexes)
      BY <3>1
    <3> QED BY <1>3, <2>1, <3>1, <3>2, EffectiveIs
  <2>5. q \in Prios
    BY <2>4 DEF Effective
  <2>6. Base(kp, c, t) /\ Repriced(k, kp, t, q)
    <3>1. {} \union {c} = {c} /\ Exacts(k, wtobj, owner, realprio, {t})
      BY <1>2 DEF Exacts
    <3> QED BY <1>2, <1>3, <2>1, <2>5, <3>1, OwnPrice
  <2>7. r = chSchReadyI(kp, c, h)
    BY <1>1, <1>6, <2>1 DEF mtx_unlock_no_reschedule, WaiterReady
  <2>8. Passed(r, c, t, on, cn, ln, mn, wn)
    BY <1>1, <1>3, <1>6, <2>1, <2>3, <2>6, <2>7, PassReady
  <2>9. Exacts(r, wn, on, realprio, {t}) /\ Woken(kp, r, h)
    BY <1>1, <1>3, <1>6, <2>1, <2>3, <2>6, <2>7, PassReady
  <2>10. Owning(on, cn, ln)
    BY <2>8 DEF Passed
  <2>11. Exacts(r, wn, on, realprio, {})
    BY <1>1, <1>3, <1>6, <2>1, <2>3, <2>4, <2>6, <2>9, <2>10, PassExact
  <2> QED BY <1>4, <2>1, <2>2, <2>3, <2>8, <2>11
<1> QED BY <1>5, <1>6

\* The rest of an unlock: the order of the core is restored.
LEMMA PassedReschedule ==
    ASSUME IInv, NEW c \in Cores, c \notin k.isr, NEW t, NEW r,
           Passed(r, c, t, owner', mcnt', mtxlist', mqueue', wtobj'),
           Exacts(r, wtobj', owner', realprio, {}), k' = chSchRescheduleS(r, c),
           cs' = NoCS, UNCHANGED <<realprio, cqueue, cont>>
    PROVE  IInv'
<1>1. PICK on, cn, ln, mn, wn : /\ on = owner' /\ cn = mcnt' /\ ln = mtxlist' /\ mn = mqueue'
                                /\ wn = wtobj'
  OBVIOUS
<1>2. /\ Sound(r, {c}) /\ r.current = k.current /\ r.isr = k.isr
      /\ Owning(on, cn, ln) /\ Waiting(r, mn, cqueue, wn, on)
      /\ wn \in [Threads -> Mutexes \union Conds \union {NoObj}]
      /\ ContsOK(r, cont, on) /\ TimeoutsOK(r) /\ ResumeOK(r, cont)
  BY <1>1 DEF Passed
<1>3. r \in KernelType /\ c \notin r.isr /\ {c} \subseteq {c}
  BY <1>2, SoundFacts
<1>4. Sound(k', {}) /\ Still(r, k')
  BY <1>2, <1>3, RunReschedule
<1>5. Others(r, k', {}) /\ Pending(k') \subseteq Pending(r)
  BY <1>4 DEF Still
<1>6. Same(r, k')
  BY <1>5, SameStill
<1>7. Waiting(k', mn, cqueue, wn, on)
  BY <1>2, <1>6, SameWaiting
<1>8. Exacts(k', wn, on, realprio, {})
  BY <1>1, <1>6, SameExacts
<1>9. ContsOK(k', cont, on)
  BY <1>2, <1>5, ContsStill
<1>10. TimeoutsOK(k')
  BY <1>2, <1>4, <1>5, TimeoutsStill
<1>11. Moved(r, k', c)
  BY <1>3, MovedCalls
<1>12. ResumeOK(k', cont)
  BY <1>2, <1>11, ResumeMove
<1>13. realprio \in [Threads -> Prios] /\ cont \in [Threads -> Mutexes \union {NoObj}]
  BY Parts
<1> QED BY <1>1, <1>2, <1>4, <1>7, <1>8, <1>9, <1>10, <1>12, <1>13, Calm

\* chMtxUnlock() preserves the invariant.
LEMMA UnlockInv ==
    ASSUME IInv, NEW c \in Cores, NEW m \in Mutexes, chMtxUnlock(c, m)
    PROVE  IInv'
<1>1. PICK t : t = k.current[c]
  OBVIOUS
<1>2. Caller(c) /\ owner[m] = t /\ UNCHANGED <<realprio, cqueue, cont, cs>>
  BY <1>1 DEF chMtxUnlock
<1>3. cs = NoCS /\ InThread(k, c) /\ c \notin k.isr /\ t \in Threads /\ k.state[t] = "CURRENT"
  BY <1>1, <1>2, CallerFacts
<1>4. /\ k \in KernelType /\ Waiting(k, mqueue, cqueue, wtobj, owner) /\ Owning(owner, mcnt, mtxlist)
      /\ TimeoutsOK(k) /\ realprio \in [Threads -> Prios]
      /\ wtobj \in [Threads -> Mutexes \union Conds \union {NoObj}]
      /\ cont \in [Threads -> Mutexes \union {NoObj}]
      /\ ResumeOK(k, cont) /\ ContsOK(k, cont, owner)
  BY Parts
<1>5. Sound(k, {}) /\ Exacts(k, wtobj, owner, realprio, {})
  BY <1>3, Quiet
<1>6. CASE /\ mcnt[m] > 1 /\ mcnt' = [mcnt EXCEPT ![m] = @ - 1]
           /\ UNCHANGED <<k, owner, mqueue, mtxlist, wtobj>>
  <2>1. mcnt \in [Mutexes -> 0 .. MaxRecursion] /\ MaxRecursion \in Nat /\ owner[m] # NoThread
    BY <1>2, <1>3, <1>4, MutexAssumption, KernelAssumption DEF Owning, OwnTypes
  <2>2. mcnt' \in [Mutexes -> 0 .. MaxRecursion] /\ \A x \in Mutexes : x # m => mcnt'[x] = mcnt[x]
    BY <1>6, <2>1
  <2>3. mcnt'[m] # 0
    BY <1>6, <2>1
  <2>4. Owning(owner, mcnt', mtxlist)
    <3>1. \A x \in Mutexes : (owner[x] = NoThread) <=> (mcnt'[x] = 0)
      BY <1>4, <2>1, <2>2, <2>3 DEF Owning, OwnersOK
    <3> QED BY <1>4, <2>2, <3>1 DEF Owning, OwnersOK, OwnTypes
  <2> QED BY <1>2, <1>3, <1>4, <1>5, <1>6, <2>4, Calm
<1>7. CASE /\ mcnt[m] = 1 /\ m = Head(mtxlist[t]) /\ PassOn(c, wtobj)
           /\ k' = IF mqueue[m] # <<>> THEN chSchRescheduleS(mtx_unlock_no_reschedule(c), c)
                   ELSE mtx_unlock_no_reschedule(c)
  <2>1. mtxlist[t] # <<>>
    <3>1. m \in ToSet(mtxlist[t])
      BY <1>2, <1>3, <1>4 DEF Owning, OwnersOK
    <3> QED BY <3>1 DEF ToSet
  <2>2. PICK r : r = mtx_unlock_no_reschedule(c)
    OBVIOUS
  <2>3. /\ Passed(r, c, t, owner', mcnt', mtxlist', mqueue', wtobj')
        /\ Exacts(r, wtobj', owner', realprio, {})
    <3>1. PICK wn : /\ Passed(r, c, t, owner', mcnt', mtxlist', mqueue', wn)
                    /\ Exacts(r, wn, owner', realprio, {})
                    /\ \/ wn = wtobj /\ wtobj' = wtobj
                       \/ \E h \in Threads \ {t} : /\ wn = [wtobj EXCEPT ![h] = NoObj]
                                                   /\ wtobj' = [wtobj EXCEPT ![h] = NoObj]
      BY <1>1, <1>3, <1>7, <2>1, <2>2, UnlockNoReschedule
    <3>2. wn = wtobj'
      BY <3>1
    <3> QED BY <3>1, <3>2
  <2>4. CASE mqueue[m] # <<>>
    <3>1. k' = chSchRescheduleS(r, c) /\ cs' = NoCS
      BY <1>2, <1>3, <1>7, <2>2, <2>4
    <3> QED BY <1>2, <1>3, <2>3, <3>1, PassedReschedule
  <2>5. CASE mqueue[m] = <<>>
    <3>1. k' = r /\ r = k
      BY <1>1, <1>7, <2>2, <2>5 DEF mtx_unlock_no_reschedule
    <3>2. PICK on, cn, ln, mn, wn : /\ on = owner' /\ cn = mcnt' /\ ln = mtxlist' /\ mn = mqueue'
                                    /\ wn = wtobj'
      OBVIOUS
    <3>3. /\ Owning(on, cn, ln) /\ Waiting(k, mn, cqueue, wn, on)
          /\ wn \in [Threads -> Mutexes \union Conds \union {NoObj}]
          /\ ContsOK(k, cont, on) /\ TimeoutsOK(k) /\ ResumeOK(k, cont)
      BY <2>3, <3>1, <3>2 DEF Passed
    <3>4. Exacts(k, wn, on, realprio, {})
      BY <2>3, <3>1, <3>2
    <3> QED BY <1>2, <1>3, <1>4, <1>5, <3>1, <3>2, <3>3, <3>4, Calm
  <2> QED BY <2>4, <2>5
<1> QED BY <1>1, <1>6, <1>7 DEF chMtxUnlock

\* chMtxUnlockAll() starts.
LEMMA UnlockAllInv ==
    ASSUME IInv, NEW c \in Cores, chMtxUnlockAll(c)
    PROVE  IInv'
<1>1. /\ Caller(c) /\ cs' = [op |-> "unlockall", core |-> c] /\ UNCHANGED <<k, objs, cont>>
  BY DEF chMtxUnlockAll
<1>2. cs = NoCS /\ InThread(k, c)
  BY <1>1, CallerFacts
<1>3. Sound(k, {}) /\ Exacts(k, wtobj, owner, realprio, {})
  BY <1>2, Quiet
<1>4. /\ Waiting(k, mqueue, cqueue, wtobj, owner) /\ ContsOK(k, cont, owner)
      /\ TimeoutsOK(k) /\ ResumeOK(k, cont) /\ Owning(owner, mcnt, mtxlist)
      /\ realprio \in [Threads -> Prios] /\ cont \in [Threads -> Mutexes \union {NoObj}]
      /\ wtobj \in [Threads -> Mutexes \union Conds \union {NoObj}]
  BY Parts
<1>5. UNCHANGED <<k, realprio, owner, mcnt, mqueue, mtxlist, cqueue, wtobj, cont>>
  BY <1>1 DEF objs
<1>6. Settled'
  BY <1>4, <1>5 DEF Settled
<1>7. cs' \in Sections \union {NoCS} /\ cs'.op = "unlockall" /\ cs'.core = c
  BY <1>1 DEF Sections
<1>8. Sound(k', Busy(cs')) /\ ResumeOK(k', cont')
  BY <1>3, <1>4, <1>5, SoundMore
<1>9. SectionOK(k', cs', owner', cont')
  BY <1>2, <1>5, <1>7 DEF SectionOK
<1>10. Exacts(k, wtobj, owner, realprio, {k.current[c]})
  BY <1>3 DEF Exacts
<1>11. InheritOK(k', wtobj', owner', realprio', cs')
  BY <1>5, <1>7, <1>10 DEF InheritOK
<1> QED BY <1>6, <1>7, <1>8, <1>9, <1>11, SettledPieces

\* What holds in the loop of chMtxUnlockAll().
LEMMA UnlockAllFacts ==
    ASSUME IInv, cs.op = "unlockall", NEW c, c = cs.core, NEW t, t = k.current[c]
    PROVE  /\ c \in Cores /\ Sound(k, {c}) /\ InThread(k, c) /\ c \notin k.isr
           /\ t \in Threads /\ k.state[t] = "CURRENT"
           /\ Exacts(k, wtobj, owner, realprio, {t})
<1>1. /\ cs \in Sections \union {NoCS} /\ Sound(k, Busy(cs)) /\ SectionOK(k, cs, owner, cont)
  BY Parts
<1>2. InheritOK(k, wtobj, owner, realprio, cs)
  BY Parts
<1>3. c \in Cores
  BY <1>1 DEF Sections, NoCS
<1>4. Busy(cs) = {c}
  BY DEF Busy
<1>5. InThread(k, c) /\ Exacts(k, wtobj, owner, realprio, {t})
  BY <1>1, <1>2 DEF SectionOK, InheritOK
<1>6. t \in Threads /\ k.state[t] = "CURRENT"
  BY <1>1, <1>3, SoundFacts
<1> QED BY <1>1, <1>3, <1>4, <1>5, <1>6 DEF InThread

\* A turn of the loop: only the running thread may not be exact.
LEMMA UnlockAllIterationInv ==
    ASSUME IInv, UnlockAllIteration
    PROVE  IInv'
<1>1. PICK c, t, m : c = cs.core /\ t = k.current[c] /\ m = Head(mtxlist[t])
  OBVIOUS
<1>2. /\ cs.op = "unlockall" /\ mtxlist[t] # <<>> /\ PassOn(c, wtobj)
      /\ k' = IF mqueue[m] # <<>> THEN WaiterReady(k, c, m) ELSE k
      /\ UNCHANGED <<realprio, cqueue, cont, cs>>
  BY <1>1 DEF UnlockAllIteration
<1>3. /\ c \in Cores /\ Sound(k, {c}) /\ InThread(k, c) /\ t \in Threads /\ k.state[t] = "CURRENT"
      /\ Exacts(k, wtobj, owner, realprio, {t})
  BY <1>1, <1>2, UnlockAllFacts
<1>4. PICK on, cn, ln, mn, wn : /\ on = owner' /\ cn = mcnt' /\ ln = mtxlist' /\ mn = mqueue'
                                /\ wn = wtobj'
  OBVIOUS
<1>5. /\ Waiting(k, mqueue, cqueue, wtobj, owner) /\ ContsOK(k, cont, owner)
      /\ TimeoutsOK(k) /\ ResumeOK(k, cont) /\ realprio \in [Threads -> Prios]
      /\ cont \in [Threads -> Mutexes \union {NoObj}] /\ cs \in Sections \union {NoCS}
  BY Parts
<1>6. Passed(k', c, t, on, cn, ln, mn, wn) /\ Exacts(k', wn, on, realprio, {t})
  <2>1. CASE mqueue[m] = <<>>
    <3>1. k' = k
      BY <1>2, <2>1
    <3>2. Dropped(owner, mcnt, mtxlist, m, t, on, cn, ln) /\ wn = wtobj /\ mn = mqueue
      BY <1>1, <1>2, <1>4, <2>1, PassOnFree
    <3>3. Passed(k, c, t, on, cn, ln, mqueue, wtobj) /\ Exacts(k, wtobj, on, realprio, {t})
      BY <1>1, <1>2, <1>3, <2>1, <3>2, PassFree
    <3> QED BY <3>1, <3>2, <3>3
  <2>2. CASE mqueue[m] # <<>>
    <3>1. PICK h : h = Head(mqueue[m])
      OBVIOUS
    <3>2. PICK wx : wx = [wtobj EXCEPT ![h] = NoObj]
      OBVIOUS
    <3>a. PassOn(c, wtobj) /\ t = k.current[c] /\ m = Head(mtxlist[t])
      BY <1>1, <1>2
    <3>b. /\ PassedTo(m, t, h, owner', mcnt', mtxlist', mqueue', wx)
          /\ wtobj' = [wtobj EXCEPT ![h] = NoObj]
      BY <2>2, <3>1, <3>2, <3>a, PassOnWaiter
    <3>3. PassedTo(m, t, h, on, cn, ln, mn, wx) /\ wtobj' = [wtobj EXCEPT ![h] = NoObj]
      BY <1>4, <3>b
    <3>4. wx = wn /\ k' = chSchReadyI(k, c, h)
      BY <1>2, <1>4, <2>2, <3>1, <3>2, <3>3 DEF WaiterReady
    <3>5. Base(k, c, t)
      BY <1>3, <1>5 DEF Base
    <3>6. Passed(k', c, t, on, cn, ln, mn, wx)
      BY <1>1, <1>2, <1>3, <2>2, <3>1, <3>3, <3>4, <3>5, PassReady
    <3>7. Exacts(k', wx, on, realprio, {t})
      BY <1>1, <1>2, <1>3, <2>2, <3>1, <3>3, <3>4, <3>5, PassReady
    <3> QED BY <3>4, <3>6, <3>7
  <2> QED BY <2>1, <2>2
<1>7. /\ Sound(k', {c}) /\ k'.current = k.current /\ k'.isr = k.isr
      /\ Owning(on, cn, ln) /\ Waiting(k', mn, cqueue, wn, on)
      /\ wn \in [Threads -> Mutexes \union Conds \union {NoObj}]
      /\ ContsOK(k', cont, on) /\ TimeoutsOK(k') /\ ResumeOK(k', cont)
  BY <1>6 DEF Passed
<1>8. Settled'
  BY <1>2, <1>4, <1>5, <1>7 DEF Settled
<1>9. Busy(cs') = {c} /\ cs'.core = c /\ cs'.op = "unlockall"
  BY <1>1, <1>2 DEF Busy
<1>10. SectionOK(k', cs', owner', cont')
  BY <1>3, <1>7, <1>9 DEF SectionOK, InThread
<1>11. InheritOK(k', wtobj', owner', realprio', cs')
  BY <1>1, <1>2, <1>4, <1>6, <1>7, <1>9 DEF InheritOK
<1>12. Sound(k', Busy(cs')) /\ ResumeOK(k', cont') /\ cs' \in Sections \union {NoCS}
  BY <1>2, <1>5, <1>7, <1>9
<1> QED BY <1>8, <1>10, <1>11, <1>12, SettledPieces

\* Its end: without mutexes the thread has its own priority.
LEMMA UnlockAllEndInv ==
    ASSUME IInv, UnlockAllEnd
    PROVE  IInv'
<1>1. PICK c, t, p, kp : /\ c = cs.core /\ t = k.current[c] /\ p = realprio[t]
                         /\ kp = [k EXCEPT !.prio[t] = p]
  OBVIOUS
<1>2. /\ cs.op = "unlockall" /\ mtxlist[t] = <<>> /\ k' = chSchRescheduleS(kp, c)
      /\ cs' = NoCS /\ UNCHANGED <<objs, cont>>
  BY <1>1 DEF UnlockAllEnd
<1>3. /\ c \in Cores /\ Sound(k, {c}) /\ c \notin k.isr /\ t \in Threads /\ k.state[t] = "CURRENT"
      /\ Exacts(k, wtobj, owner, realprio, {t})
  BY <1>1, <1>2, UnlockAllFacts
<1>4. /\ realprio \in [Threads -> Prios] /\ Owning(owner, mcnt, mtxlist)
      /\ WaitersOK(k, wtobj, owner) /\ k \in KernelType
  BY Parts DEF Waiting
<1>5. p \in Prios /\ {c} \union {c} = {c} /\ {c} \subseteq {c}
  BY <1>1, <1>3, <1>4
<1>6. Base(kp, c, t) /\ Repriced(k, kp, t, p)
  BY <1>1, <1>3, <1>5, OwnPrice
<1>7. /\ Sound(kp, {c}) /\ Waiting(kp, mqueue, cqueue, wtobj, owner)
      /\ ContsOK(kp, cont, owner) /\ TimeoutsOK(kp) /\ ResumeOK(kp, cont)
      /\ Exacts(kp, wtobj, owner, realprio, {t}) /\ c \notin kp.isr /\ kp.state = k.state
  BY <1>3, <1>6 DEF Base
<1>8. kp.prio[t] = realprio[t] /\ realprio[t] \in Nat
  BY <1>1, <1>3, <1>4, <1>6 DEF Repriced, KernelType, Prios
<1>9. ASSUME NEW u \in Threads PROVE ~ Waits(kp, wtobj, owner, u, t)
  <2>1. SUFFICES ASSUME kp.state[u] = "WTMTX", owner[wtobj[u]] = t PROVE FALSE
    BY DEF Waits
  <2>2. wtobj[u] \in Mutexes
    BY <1>4, <1>7, <2>1 DEF WaitersOK
  <2>3. wtobj[u] \in ToSet(mtxlist[t])
    BY <1>3, <1>4, <2>1, <2>2 DEF Owning, OwnersOK
  <2> QED BY <1>2, <2>3 DEF ToSet
<1>10. Exact(kp, wtobj, owner, realprio, t, {}, kp.prio[t])
  BY <1>8, <1>9 DEF Exact
<1>11. Exacts(kp, wtobj, owner, realprio, {})
  BY <1>7, <1>10 DEF Exacts
<1>12. Sound(k', {}) /\ Still(kp, k')
  BY <1>2, <1>3, <1>5, <1>7, RunReschedule
<1>13. kp \in KernelType
  BY <1>7, SoundFacts
<1>14. Moved(kp, k', c)
  BY <1>2, <1>3, <1>7, <1>13, MovedCalls
<1>15. ResumeOK(k', cont)
  BY <1>7, <1>14, ResumeMove
<1> QED BY <1>2, <1>7, <1>11, <1>12, <1>15, StillInv

-----------------------------------------------------------------------------
(* Condition waits *)

\* The thread that passes a mutex on does not own it any more.
LEMMA PassedAway ==
    ASSUME IInv, NEW c, NEW w, PassOn(c, w), NEW t \in Threads, t = k.current[c],
           k.state[t] = "CURRENT", mtxlist[t] # <<>>, NEW m, m = Head(mtxlist[t])
    PROVE  owner'[m] # t
<1>1. m \in Mutexes /\ owner[m] = t /\ DOMAIN owner = Mutexes
  BY PassFacts
<1>2. CASE mqueue[m] = <<>>
  <2>1. owner' = [owner EXCEPT ![m] = NoThread]
    BY <1>2 DEF PassOn
  <2> QED BY <1>1, <2>1, KernelAssumption
<1>3. CASE mqueue[m] # <<>>
  <2>1. owner' = [owner EXCEPT ![m] = Head(mqueue[m])]
    BY <1>3 DEF PassOn, Own
  <2>2. Head(mqueue[m]) # t
    BY <1>3, PassFacts
  <2> QED BY <1>1, <2>1, <2>2
<1> QED BY <1>2, <1>3

\* A condition wait preserves the invariant.
LEMMA CondWaitInv ==
    ASSUME IInv, NEW c \in Cores, NEW v \in Conds, NEW timed \in BOOLEAN,
           chCondWaitTimeoutS(c, v, timed)
    PROVE  IInv'
<1>1. PICK t, m, w, r : /\ t = k.current[c] /\ m = Head(mtxlist[t])
                        /\ w = [wtobj EXCEPT ![t] = v] /\ r = mtx_unlock_no_reschedule(c)
  OBVIOUS
<1>2. /\ Caller(c) /\ mtxlist[t] # <<>> /\ PassOn(c, w)
      /\ k' = chSchGoSleepTimeoutS(r, c, "WTCOND", timed)
      /\ cqueue' = [cqueue EXCEPT ![v] = ch_sch_prio_insert(cqueue[v], t, k'.prio)]
      /\ cont' = [cont EXCEPT ![t] = m] /\ UNCHANGED <<realprio, cs>>
  BY <1>1 DEF chCondWaitTimeoutS
<1>3. /\ cs = NoCS /\ InThread(k, c) /\ c \notin k.isr /\ t \in Threads /\ t \in UserThreads
      /\ k.state[t] = "CURRENT" /\ cont[t] = NoObj
  BY <1>1, <1>2, CallerFacts
<1>a. /\ PassOn(c, w) /\ t = k.current[c] /\ r = mtx_unlock_no_reschedule(c)
      /\ mtxlist[t] # <<>> /\ cs = NoCS /\ InThread(k, c)
  BY <1>1, <1>2, <1>3
<1>4. PICK wn : /\ Passed(r, c, t, owner', mcnt', mtxlist', mqueue', wn)
                /\ Exacts(r, wn, owner', realprio, {})
                /\ \/ wn = wtobj /\ wtobj' = w
                   \/ \E h \in Threads \ {t} : /\ wn = [wtobj EXCEPT ![h] = NoObj]
                                               /\ wtobj' = [w EXCEPT ![h] = NoObj]
  BY <1>a, UnlockNoReschedule
<1>5. /\ realprio \in [Threads -> Prios] /\ cont \in [Threads -> Mutexes \union {NoObj}]
      /\ wtobj \in [Threads -> Mutexes \union Conds \union {NoObj}]
  BY Parts
<1>6. wtobj' = [wn EXCEPT ![t] = v]
  <2>1. CASE wn = wtobj /\ wtobj' = w
    BY <1>1, <2>1
  <2>2. CASE \E h \in Threads \ {t} : /\ wn = [wtobj EXCEPT ![h] = NoObj]
                                      /\ wtobj' = [w EXCEPT ![h] = NoObj]
    <3>1. PICK h \in Threads \ {t} : /\ wn = [wtobj EXCEPT ![h] = NoObj]
                                     /\ wtobj' = [w EXCEPT ![h] = NoObj]
      BY <2>2
    <3> QED BY <1>1, <1>3, <1>5, <3>1
  <2> QED BY <1>4, <2>1, <2>2
<1>7. PICK on, cn, ln, mn : on = owner' /\ cn = mcnt' /\ ln = mtxlist' /\ mn = mqueue'
  OBVIOUS
<1>8. /\ Sound(r, {c}) /\ r.current = k.current /\ r.isr = k.isr /\ r.state[t] = "CURRENT"
      /\ Owning(on, cn, ln) /\ Waiting(r, mn, cqueue, wn, on)
      /\ wn \in [Threads -> Mutexes \union Conds \union {NoObj}]
      /\ ContsOK(r, cont, on) /\ TimeoutsOK(r) /\ ResumeOK(r, cont)
  BY <1>4, <1>7 DEF Passed
<1>9. r \in KernelType /\ c \notin r.isr /\ InThread(r, c) /\ {c} \subseteq {c} /\ t = r.current[c]
  BY <1>1, <1>3, <1>8, SoundFacts DEF InThread
<1>10. "WTCOND" \in TimedStates \ {"READY"}
  BY DEF TimedStates, States
<1>11. Sound(k', {}) /\ Rested(r, k', t, "WTCOND")
  BY <1>2, <1>8, <1>9, <1>10, RunSleep
<1>12. /\ Asleep(r, k', t, "WTCOND") /\ Others(r, k', {t}) /\ k'.prio = r.prio
       /\ k'.state[t] = "WTCOND" /\ Pending(k') \subseteq Pending(r) \union {t}
  BY <1>11 DEF Rested, Asleep, Others
<1>13. Waiting(k', mn, [cqueue EXCEPT ![v] = ch_sch_prio_insert(cqueue[v], t, r.prio)],
               [wn EXCEPT ![t] = v], on)
  BY <1>3, <1>8, <1>9, <1>12, SleepCond
<1>14. Waiting(k', mqueue', cqueue', wtobj', owner')
  BY <1>2, <1>6, <1>7, <1>12, <1>13
<1>15. Exacts(k', wtobj', owner', realprio, {})
  <2>1. DOMAIN wn = Threads /\ r.state[t] # "WTMTX" /\ k'.state[t] # "WTMTX"
    BY <1>8, <1>12
  <2>2. Exacts(r, wn, on, realprio, {})
    BY <1>4, <1>7
  <2>3. Exacts(k', [wn EXCEPT ![t] = v], on, realprio, {})
    BY <1>3, <1>12, <2>1, <2>2, AsideExacts
  <2> QED BY <1>6, <1>7, <2>3
<1>16. m \in Mutexes /\ on[m] # t
  <2>1. m \in Mutexes
    BY <1>1, <1>2, <1>3, PassFacts
  <2>2. owner'[m] # t
    BY <1>1, <1>3, <1>a, PassedAway
  <2> QED BY <1>7, <2>1, <2>2
<1>17. ContsOK(k', cont', owner')
  <2>1. ContsOK(k', cont, on)
    BY <1>3, <1>8, <1>12, ContsMove
  <2> SUFFICES ASSUME NEW u \in Threads, cont'[u] # NoObj
               PROVE  /\ u \in UserThreads /\ on[cont'[u]] # u
                      /\ k'.state[u] \in {"WTCOND", "READY", "CURRENT"}
    BY <1>7 DEF ContsOK
  <2>2. CASE u = t
    BY <1>2, <1>3, <1>5, <1>12, <1>16, <2>2
  <2>3. CASE u # t
    <3>1. cont'[u] = cont[u]
      BY <1>2, <1>5, <2>3
    <3> QED BY <2>1, <3>1 DEF ContsOK
  <2> QED BY <2>2, <2>3
<1>18. TimeoutsOK(k')
  <2>1. k'.state[t] \in {"WTCOND", "SLEEPING", "READY", "CURRENT"}
    BY <1>12
  <2> QED BY <1>8, <1>11, <1>12, <2>1, TimeoutsMove
<1>19. ResumeOK(k', cont')
  <2>1. Moved(r, k', c)
    BY <1>2, <1>9, MovedCalls
  <2>2. ResumeOK(k', cont)
    BY <1>8, <2>1, ResumeMove
  <2>3. \A d \in Cores : k'.current[d] \in Threads /\ k'.current[d] # t
    BY <1>11, <1>12, SoundFacts
  <2> QED BY <1>2, <1>5, <2>2, <2>3 DEF ResumeOK
<1>20. /\ wtobj' \in [Threads -> Mutexes \union Conds \union {NoObj}]
       /\ cont' \in [Threads -> Mutexes \union {NoObj}] /\ Owning(owner', mcnt', mtxlist')
  BY <1>2, <1>3, <1>5, <1>6, <1>7, <1>8, <1>16
<1> QED BY <1>2, <1>3, <1>5, <1>11, <1>14, <1>15, <1>17, <1>18, <1>19, <1>20, Calm

-----------------------------------------------------------------------------
(* The theorems *)

\* The initial states.
LEMMA InitInv ==
    ASSUME Init
    PROVE  IInv
<1>1. Prio \in [Threads -> Prios] /\ k = KernelInit(Prio)
  BY MutexAssumption DEF Init
<1>2. Sound(k, {}) /\ Pending(k) = {}
  BY <1>1, RunInit
<1>3. k.state = [t \in Threads |-> IF t \in UserThreads THEN "WTSTART" ELSE "CURRENT"] /\ k.prio = Prio
  BY <1>1 DEF KernelInit
<1>4. \A t \in Threads : k.state[t] \in {"WTSTART", "CURRENT"}
  BY <1>3
<1>5. cs = NoCS /\ cs.op = "none" /\ Busy(cs) = {}
  BY DEF Init, NoCS, Busy
<1>6. /\ mqueue = [m \in Mutexes |-> <<>>] /\ cqueue = [v \in Conds |-> <<>>]
      /\ mtxlist = [t \in Threads |-> <<>>] /\ owner = [m \in Mutexes |-> NoThread]
      /\ mcnt = [m \in Mutexes |-> 0] /\ wtobj = [t \in Threads |-> NoObj]
      /\ cont = [t \in Threads |-> NoObj] /\ realprio = Prio
  BY DEF Init
<1>7. NoDuplicates(<<>>) /\ SortedByPrio(<<>>, k.prio) /\ ToSet(<<>>) = {}
  BY DEF NoDuplicates, SortedByPrio, IsSorted, ToSet
<1>8. QueuesExact(k, mqueue, wtobj, Mutexes, "WTMTX", TRUE)
  <2>1. \A m \in Mutexes : {t \in Threads : k.state[t] = "WTMTX" /\ wtobj[t] = m} = {}
    BY <1>4
  <2> QED BY <1>6, <1>7, <2>1 DEF QueuesExact
<1>9. QueuesExact(k, cqueue, wtobj, Conds, "WTCOND", TRUE)
  <2>1. \A v \in Conds : {t \in Threads : k.state[t] = "WTCOND" /\ wtobj[t] = v} = {}
    BY <1>4
  <2> QED BY <1>6, <1>7, <2>1 DEF QueuesExact
<1>10. Waiting(k, mqueue, cqueue, wtobj, owner)
  BY <1>4, <1>8, <1>9 DEF Waiting, WaitersOK
<1>11. OwnersOK(owner, mcnt, mtxlist)
  BY <1>6, <1>7, KernelAssumption DEF OwnersOK
<1>12. ContsOK(k, cont, owner)
  BY <1>6 DEF ContsOK
<1>13. k \in KernelType
  BY <1>2, SoundFacts
<1>14. ResumeOK(k, cont)
  BY <1>6, <1>13 DEF ResumeOK, KernelType
<1>15. TimeoutsOK(k) /\ SectionOK(k, cs, owner, cont)
  BY <1>2, <1>5 DEF TimeoutsOK, SectionOK
<1>16. Exacts(k, wtobj, owner, realprio, {})
  <2>1. \A t, u \in Threads : ~ Waits(k, wtobj, owner, u, t)
    BY <1>4 DEF Waits
  <2>2. \A t \in Threads : k.prio[t] = realprio[t] /\ realprio[t] \in Nat
    BY <1>1, <1>3, <1>6 DEF Prios
  <2> QED BY <2>1, <2>2 DEF Exacts, Exact
<1>17. InheritOK(k, wtobj, owner, realprio, cs)
  BY <1>5, <1>16 DEF InheritOK
<1>18. CodeTypes
  <2>1. <<>> \in Seq(Threads) /\ <<>> \in Seq(Mutexes) /\ 0 \in 0 .. MaxRecursion
    BY MutexAssumption
  <2> QED BY <1>1, <1>5, <1>6, <1>13, <2>1 DEF CodeTypes
<1> QED BY <1>2, <1>5, <1>10, <1>11, <1>12, <1>14, <1>15, <1>17, <1>18 DEF IInv

\* All steps.
LEMMA NextInv ==
    ASSUME IInv, [Next]_vars
    PROVE  IInv'
<1>1. CASE UNCHANGED vars
  BY <1>1 DEF vars, IInv, CodeTypes
<1>2. ASSUME NEW c \in Cores, MutexCall(c) PROVE IInv'
  BY <1>2, LockInv, UnlockInv, UnlockAllInv, SetPriorityInv DEF MutexCall
<1>3. ASSUME NEW c \in Cores, CondCall(c) PROVE IInv'
  BY <1>3, CondWaitInv, SignalInv, SignalIInv, BroadcastInv DEF CondCall
<1>4. ASSUME NEW c \in Cores, KernelIrq(c) \/ chThdSleepS(c) PROVE IInv'
  BY <1>4, StartInv, IrqInv, TimeoutInv, SleepInv DEF KernelIrq
<1>5. CASE LockedStep
  BY <1>5, LockBoostInv, LockSleepInv, UnlockAllIterationInv, UnlockAllEndInv,
     SetPrioIterationInv, SetPrioEndInv, BroadcastIterationInv, BroadcastEndInv, ResumeInv
     DEF LockedStep
<1> QED BY <1>1, <1>2, <1>3, <1>4, <1>5 DEF Next

\* Every action of mutexes and condition variables preserves the invariant.
THEOREM Inductive == Spec => []IInv
<1>1. Init => IInv
  BY InitInv
<1>2. IInv /\ [Next]_vars => IInv'
  BY NextInv
<1> QED BY <1>1, <1>2, PTL DEF Spec

\* The owner, the counter and the queue of a mutex, the lists of the threads
\* and the states of the threads tell one story, the queue being in the order
\* of the priorities although these change while threads are queued.
THEOREM MutexesConsistent == Spec => []MutexConsistent
<1>1. IInv => MutexConsistent
  <2> SUFFICES ASSUME IInv, NEW m \in Mutexes
               PROVE  /\ \A t \in Threads : /\ (m \in ToSet(mtxlist[t])) <=> (owner[m] = t)
                                            /\ NoDuplicates(mtxlist[t])
                      /\ (owner[m] = NoThread) <=> (mcnt[m] = 0)
                      /\ owner[m] = NoThread => mqueue[m] = <<>>
                      /\ NoDuplicates(mqueue[m])
                      /\ SortedByPrio(mqueue[m], k.prio)
                      /\ ToSet(mqueue[m]) = {t \in Threads : k.state[t] = "WTMTX" /\ wtobj[t] = m}
    BY DEF MutexConsistent
  <2>1. /\ k \in KernelType /\ Waiting(k, mqueue, cqueue, wtobj, owner)
        /\ OwnersOK(owner, mcnt, mtxlist)
    BY Parts DEF Owning
  <2>2. owner[m] = NoThread => mqueue[m] = <<>>
    BY <2>1, FreeQueue
  <2>3. QueuesExact(k, mqueue, wtobj, Mutexes, "WTMTX", TRUE)
    BY <2>1 DEF Waiting
  <2> QED BY <2>1, <2>2, <2>3 DEF OwnersOK, QueuesExact
<1> QED BY <1>1, Inductive, PTL

\* Out of the kernel no thread keeps a priority it has no reason for and none
\* misses one, through chains of mutexes of any length.
THEOREM Inheritance == Spec => []InheritanceExact
<1>1. IInv => InheritanceExact
  <2> SUFFICES ASSUME IInv, cs = NoCS, NEW t \in Threads
               PROVE  k.prio[t] = Max({realprio[t]} \union
                                      {k.prio[u] : u \in {w \in Threads :
                                          /\ k.state[w] = "WTMTX"
                                          /\ owner[wtobj[w]] = t}})
    BY DEF InheritanceExact
  <2>1. Exact(k, wtobj, owner, realprio, t, {}, k.prio[t])
    BY Quiet DEF Exacts
  <2>2. k.prio \in [Threads -> Nat] /\ realprio[t] \in Nat
    BY Parts, SoundFacts DEF Prios
  <2>3. PICK W : W = {w \in Threads : k.state[w] = "WTMTX" /\ owner[wtobj[w]] = t}
    OBVIOUS
  <2>4. PICK S : S = {realprio[t]} \union {k.prio[u] : u \in W}
    OBVIOUS
  <2>5. \A u \in Threads : u \in W <=> Waits(k, wtobj, owner, u, t)
    BY <2>3 DEF Waits
  <2>6. k.prio[t] \in S
    BY <2>1, <2>4, <2>5 DEF Exact
  <2>7. S \subseteq Nat /\ \A x \in S : k.prio[t] >= x
    BY <2>1, <2>2, <2>3, <2>4, <2>5 DEF Exact
  <2>8. Max(S) = k.prio[t]
    BY <2>6, <2>7, MaxIs
  <2> QED BY <2>3, <2>4, <2>8
<1> QED BY <1>1, Inductive, PTL

\* A thread inside a condition wait does not own the mutex it will take again
\* and the queues of the variables are exact and in order.
THEOREM CondsConsistent == Spec => []CondConsistent
<1>1. IInv => CondConsistent
  <2> SUFFICES ASSUME IInv PROVE CondConsistent
    OBVIOUS
  <2>1. QueuesExact(k, cqueue, wtobj, Conds, "WTCOND", TRUE) /\ ContsOK(k, cont, owner)
    BY Parts DEF Waiting
  <2> QED BY <2>1 DEF CondConsistent, ContsOK, QueuesExact
<1> QED BY <1>1, Inductive, PTL

\* The ready lists stay exact and sorted when priorities of ready threads
\* change, and out of the kernel the most important thread of a core runs.
THEOREM KernelSound == Spec => []KernelOK
<1>1. IInv => KernelOK
  <2> SUFFICES ASSUME IInv PROVE KernelOK
    OBVIOUS
  <2>1. Sound(k, Busy(cs))
    BY Parts
  <2>2. /\ ReadyListExact(k) /\ ReadyListSorted(k) /\ CurrentExact(k)
        /\ \A c \in Cores \ (k.isr \union k.notified \union Busy(cs)) : PriorityOrder(k, c)
    BY <2>1, SoundImplies
  <2>3. Unlocked => Busy(cs) = {}
    BY DEF Unlocked, Busy, NoCS
  <2> QED BY <2>2, <2>3 DEF KernelOK
<1> QED BY <1>1, Inductive, PTL

-----------------------------------------------------------------------------
(* The action properties *)

\* A thread that stops waiting for a mutex has left its queue.
LEMMA LeftQueue ==
    ASSUME IInv, IInv', NEW t \in Threads, k.state[t] = "WTMTX", k'.state[t] # "WTMTX",
           NEW x, x = wtobj[t]
    PROVE  x \in Mutexes /\ t \in ToSet(mqueue[x]) /\ t \notin ToSet(mqueue'[x])
<1>1. QueuesExact(k, mqueue, wtobj, Mutexes, "WTMTX", TRUE) /\ WaitersOK(k, wtobj, owner)
  BY DEF IInv, Waiting
<1>2. QueuesExact(k', mqueue', wtobj', Mutexes, "WTMTX", TRUE)
  BY DEF IInv, Waiting
<1>3. x \in Mutexes
  BY <1>1 DEF WaitersOK
<1> QED BY <1>1, <1>2, <1>3 DEF QueuesExact

\* The queue of a mutex without its first waiter.
LEMMA HeadLeaves ==
    ASSUME IInv, NEW m \in Mutexes, mqueue[m] # <<>>, NEW h, h = Head(mqueue[m]),
           NEW q, q = ch_queue_fifo_remove(mqueue[m])
    PROVE  QueueLess(k, mqueue[m], q, h, TRUE)
<1>1. k \in KernelType /\ QueuesExact(k, mqueue, wtobj, Mutexes, "WTMTX", TRUE)
  BY Parts DEF Waiting
<1> QED BY <1>1, QueueHead

\* Only the thread a mutex is passed to leaves its queue.
LEMMA PassOnReturns ==
    ASSUME IInv, NEW c, NEW w, PassOn(c, w), NEW t \in Threads, t = k.current[c],
           k.state[t] = "CURRENT", mtxlist[t] # <<>>,
           NEW u \in Threads, NEW x \in Mutexes, u \in ToSet(mqueue[x]), u \notin ToSet(mqueue'[x])
    PROVE  owner'[x] = u /\ Head(mtxlist'[u]) = x
<1>1. PICK m : m = Head(mtxlist[t])
  OBVIOUS
<1>2. /\ m \in Mutexes /\ owner[m] = t /\ DOMAIN owner = Mutexes
      /\ mqueue[m] # <<>> => Head(mqueue[m]) \in Threads \ {t}
  BY <1>1, PassFacts
<1>3. /\ Owning(owner, mcnt, mtxlist) /\ QueuesExact(k, mqueue, wtobj, Mutexes, "WTMTX", TRUE)
      /\ k \in KernelType
  BY Parts DEF Waiting
<1>4. CASE mqueue[m] = <<>>
  BY <1>1, <1>4 DEF PassOn
<1>5. CASE mqueue[m] # <<>>
  <2>1. PICK h : h = Head(mqueue[m])
    OBVIOUS
  <2>2. PICK q : q = ch_queue_fifo_remove(mqueue[m])
    OBVIOUS
  <2>3. PICK rest : rest = [mtxlist EXCEPT ![t] = Tail(mtxlist[t])]
    OBVIOUS
  <2>4. /\ owner' = [owner EXCEPT ![m] = h] /\ mcnt' = [mcnt EXCEPT ![m] = 1]
        /\ mtxlist' = [rest EXCEPT ![h] = <<m>> \o rest[h]] /\ mqueue' = [mqueue EXCEPT ![m] = q]
    BY <1>1, <1>5, <2>1, <2>2, <2>3 DEF PassOn, Own
  <2>5. QueueLess(k, mqueue[m], q, h, TRUE)
    BY <1>2, <1>5, <2>1, <2>2, HeadLeaves
  <2>6. DOMAIN mqueue = Mutexes
    BY <1>3 DEF QueuesExact
  <2>7. x = m
    BY <1>2, <2>4, <2>6
  <2>8. u = h
    BY <1>2, <2>4, <2>5, <2>6, <2>7 DEF QueueLess
  <2>9. OwnsOnTop(m, h, mtxlist')
    <3>1. h \in Threads /\ mtxlist \in [Threads -> Seq(Mutexes)]
      BY <1>2, <1>3, <1>5, <2>1 DEF Owning, OwnTypes
    <3>2. mtxlist[t] \in Seq(Mutexes) /\ Tail(mtxlist[t]) \in Seq(Mutexes)
      BY <3>1
    <3>3. rest[h] \in Seq(Mutexes) /\ m \in Mutexes /\ DOMAIN rest = Threads
      BY <1>2, <2>3, <3>1, <3>2
    <3>4. mtxlist'[h] = <<m>> \o rest[h]
      BY <2>4, <3>1, <3>3
    <3>5. Head(<<m>> \o rest[h]) = m
      BY <3>3
    <3> QED BY <3>4, <3>5 DEF OwnsOnTop
  <2> QED BY <1>2, <2>4, <2>7, <2>8, <2>9 DEF OwnsOnTop
<1> QED BY <1>4, <1>5

\* The steps that change a priority leave the states alone.
LEMMA PriceSteps ==
    ASSUME IInv, LockBoost \/ SetPrioIteration
    PROVE  k'.state = k.state /\ k'.rdymsg = k.rdymsg /\ k'.current = k.current
<1>1. CASE LockBoost
  <2>1. PICK c, t, p : c = cs.core /\ t = cs.tp /\ p = k.prio[k.current[c]]
    OBVIOUS
  <2>2. cs.op = "lock" /\ k.prio[t] < p /\ NewEffective(k, c, t, p)
    BY <1>1, <2>1 DEF LockBoost
  <2>3. c \in Cores /\ t \in Threads /\ Sound(k, {c}) /\ k.current[c] \in Threads
    BY <2>1, <2>2, LockFacts
  <2>4. p \in Prios /\ p >= k.prio[t]
    BY <2>1, <2>2, <2>3, Parts DEF KernelType, Prios
  <2>5. Repriced(k, k', t, p)
    BY <2>2, <2>3, <2>4, NewPrio
  <2> QED BY <2>5 DEF Repriced
<1>2. CASE SetPrioIteration
  <2>1. PICK c, t, p : c = cs.core /\ t = cs.tp /\ p = EffectivePrio(t)
    OBVIOUS
  <2>2. PICK kk : kk = IF k.state[t] = "CURRENT" THEN chSysNotifyInstance(k, c, t) ELSE k
    OBVIOUS
  <2>3. cs.op = "setprio" /\ NewEffective(kk, c, t, p)
    BY <1>2, <2>1, <2>2 DEF SetPrioIteration
  <2>4. c \in Cores /\ t \in Threads /\ Sound(k, {c})
    BY <2>1, <2>3, SetPrioFacts
  <2>5. p \in Prios
    BY <2>1, <2>4, EffectivePrioIs
  <2>6. Repriced(k, k', t, p)
    BY <2>2, <2>3, <2>4, <2>5, NewPrio
  <2> QED BY <2>6 DEF Repriced
<1> QED BY <1>1, <1>2

\* Nobody leaves the queue of a mutex when a thread goes to sleep on one.
LEMMA SleepQueues ==
    ASSUME IInv, LockSleep, NEW u, NEW x \in Mutexes, u \in ToSet(mqueue[x])
    PROVE  u \in ToSet(mqueue'[x])
<1>1. PICK m, t : m = cs.mp /\ t = k.current[cs.core]
  OBVIOUS
<1>2. PICK q : q = ch_sch_prio_insert(mqueue[m], t, k.prio)
  OBVIOUS
<1>3. cs.op = "lock" /\ mqueue' = [mqueue EXCEPT ![m] = q]
  BY <1>1, <1>2 DEF LockSleep
<1>4. m \in Mutexes /\ t \in Threads /\ k.state[t] # "WTMTX"
  BY <1>1, <1>3, LockFacts
<1>5. k \in KernelType /\ QueuesExact(k, mqueue, wtobj, Mutexes, "WTMTX", TRUE)
  BY Parts DEF Waiting
<1>6. QueueMore(k, mqueue[m], q, t, TRUE)
  BY <1>2, <1>4, <1>5, PrioJoin
<1>7. DOMAIN mqueue = Mutexes
  BY <1>5 DEF QueuesExact
<1> QED BY <1>3, <1>4, <1>6, <1>7 DEF QueueMore

\* The running thread of a core passes on the mutex it took last.
Passes(c, w) ==
    /\ PassOn(c, w) /\ mtxlist[k.current[c]] # <<>>
    /\ k.current[c] \in Threads /\ k.state[k.current[c]] = "CURRENT"

\* A step that changes the queues of the mutexes passes a mutex on, changes a
\* priority, or puts a thread to sleep.
LEMMA QueueSteps ==
    ASSUME IInv, Next
    PROVE  \/ mqueue' = mqueue
           \/ k'.state = k.state
           \/ LockSleep
           \/ \E c \in Cores : \E w : Passes(c, w)
<1>1. Sound(k, Busy(cs)) /\ k \in KernelType
  BY Parts
<1>2. \A c \in Cores : k.current[c] \in Threads /\ k.state[k.current[c]] = "CURRENT"
  BY <1>1, SoundFacts
<1>3. ASSUME NEW c \in Cores, MutexCall(c), mqueue' # mqueue PROVE Passes(c, wtobj)
  <2>1. ASSUME NEW m \in Mutexes, chMtxUnlock(c, m) PROVE Passes(c, wtobj)
    <3>1. PassOn(c, wtobj) /\ owner[m] = k.current[c]
      BY <1>3, <2>1 DEF chMtxUnlock
    <3>2. m \in ToSet(mtxlist[k.current[c]])
      BY <1>2, <3>1, Parts DEF Owning, OwnersOK
    <3>3. mtxlist[k.current[c]] # <<>>
      BY <3>2 DEF ToSet
    <3> QED BY <1>2, <3>1, <3>3 DEF Passes
  <2>2. ASSUME NEW m \in Mutexes, chMtxLock(c, m) \/ chMtxTryLock(c, m) PROVE FALSE
    BY <1>3, <2>2 DEF chMtxLock, chMtxTryLock, LockS, objs
  <2>3. ~ chMtxUnlockAll(c)
    BY <1>3 DEF chMtxUnlockAll, objs
  <2>4. ASSUME NEW tp \in UserThreads, NEW p \in NewPrios, thd_set_priority(c, tp, p) PROVE FALSE
    BY <1>3, <2>4 DEF thd_set_priority
  <2> QED BY <1>3, <2>1, <2>2, <2>3, <2>4 DEF MutexCall
<1>4. ASSUME NEW c \in Cores, CondCall(c), mqueue' # mqueue PROVE \E w : Passes(c, w)
  <2>1. PICK v \in Conds, timed \in BOOLEAN : chCondWaitTimeoutS(c, v, timed)
    BY <1>4 DEF CondCall, chCondSignal, chCondSignalI, chCondBroadcast, CondPop, objs
  <2>2. PICK w : w = [wtobj EXCEPT ![k.current[c]] = v]
    OBVIOUS
  <2>3. PassOn(c, w) /\ mtxlist[k.current[c]] # <<>>
    BY <2>1, <2>2 DEF chCondWaitTimeoutS
  <2> QED BY <1>2, <2>3 DEF Passes
<1>5. ASSUME NEW c \in Cores, chThdSleepS(c) PROVE mqueue' = mqueue
  BY <1>5 DEF chThdSleepS, objs
<1>6. ASSUME NEW c \in Cores, KernelIrq(c) PROVE mqueue' = mqueue
  BY <1>6 DEF KernelIrq, chThdStartI, Expire, sch_wakeup, Notified, ExitIsr, objs
<1>7. ASSUME UnlockAllIteration PROVE \E c \in Cores : Passes(c, wtobj)
  <2>1. PICK c, t : c = cs.core /\ t = k.current[c]
    OBVIOUS
  <2>2. cs.op = "unlockall" /\ PassOn(c, wtobj) /\ mtxlist[t] # <<>>
    BY <1>7, <2>1 DEF UnlockAllIteration
  <2>3. c \in Cores
    BY <2>1, <2>2, UnlockAllFacts
  <2> QED BY <1>2, <2>1, <2>2, <2>3 DEF Passes
<1>8. ASSUME UnlockAllEnd \/ SetPrioEnd \/ BroadcastIteration \/ BroadcastEnd PROVE mqueue' = mqueue
  BY <1>8 DEF UnlockAllEnd, SetPrioEnd, BroadcastIteration, BroadcastEnd, CondPop, objs
<1>9. ASSUME NEW c \in Cores, CondResume(c) PROVE mqueue' = mqueue
  BY <1>9 DEF CondResume, LockS, objs
<1>10. LockBoost \/ SetPrioIteration => k'.state = k.state
  BY PriceSteps
<1>11. LockedStep => \/ mqueue' = mqueue \/ k'.state = k.state \/ LockSleep
                     \/ \E c \in Cores : Passes(c, wtobj)
  BY <1>7, <1>8, <1>9, <1>10 DEF LockedStep
<1> QED BY <1>3, <1>4, <1>5, <1>6, <1>11 DEF Next

\* A thread leaves the wait for a mutex as its owner, with the mutex on top of
\* its list: chMtxUnlock(), chMtxUnlockAll() and the condition waits pass the
\* mutex on directly and nobody overtakes the waiter.
THEOREM LockReturns == Spec => LockReturnsOwned
<1>1. ASSUME IInv, IInv', [Next]_vars
      PROVE  [\A t \in Threads :
                (k.state[t] = "WTMTX" /\ k'.state[t] # "WTMTX")
                    => /\ owner'[wtobj[t]] = t
                       /\ Head(mtxlist'[t]) = wtobj[t]]_vars
  <2>1. CASE UNCHANGED vars
    BY <2>1
  <2>2. CASE Next
    <3>1. ASSUME NEW t \in Threads, k.state[t] = "WTMTX", k'.state[t] # "WTMTX"
          PROVE  owner'[wtobj[t]] = t /\ Head(mtxlist'[t]) = wtobj[t]
      <4>1. PICK x : x = wtobj[t]
        OBVIOUS
      <4>2. x \in Mutexes /\ t \in ToSet(mqueue[x]) /\ t \notin ToSet(mqueue'[x])
        BY <1>1, <3>1, <4>1, LeftQueue
      <4>3. ~ LockSleep
        BY <1>1, <4>2, SleepQueues
      <4>4. PICK c \in Cores : \E w : Passes(c, w)
        BY <1>1, <2>2, <3>1, <4>2, <4>3, QueueSteps
      <4>5. PICK w, cur : Passes(c, w) /\ cur = k.current[c]
        BY <4>4
      <4>6. /\ PassOn(c, w) /\ cur \in Threads /\ k.state[cur] = "CURRENT" /\ mtxlist[cur] # <<>>
        BY <4>5 DEF Passes
      <4>7. owner'[x] = t /\ Head(mtxlist'[t]) = x
        BY <1>1, <4>2, <4>5, <4>6, PassOnReturns
      <4> QED BY <4>1, <4>7
    <3> QED BY <3>1
  <2> QED BY <1>1, <2>1, <2>2
<1> QED BY <1>1, Inductive, PTL DEF Spec, LockReturnsOwned

-----------------------------------------------------------------------------
(* Condition waits return with their mutex                                   *)

Awake == {"READY", "CURRENT"}

\* The threads outside Y keep their states, waiting or not, and their messages.
Kept(kk, r, Y) ==
    \A u \in Threads \ Y :
        /\ r.state[u] = kk.state[u] \/ (kk.state[u] \in Awake /\ r.state[u] \in Awake)
        /\ r.rdymsg[u] = kk.rdymsg[u]

\* The mutex that t, inside the inheritance loop, is about to wait for.
Locking(kk, s, t) == IF s.op = "lock" /\ kk.current[s.core] = t THEN s.mp ELSE NoObj

\* A thread with state s, message m, wait object w and continuation ct, about
\* to wait for l, is owed the mutex o.  It is on its way: it has been taken out
\* of the condition variable, or locks the mutex, or waits for it.  A thread
\* that has left the variable inside its wait was told of a timeout exactly
\* when it is owed nothing.
OwedOK(s, m, w, o, ct, l) ==
    /\ o # NoObj => \/ ct = o /\ s \in Awake
                    \/ l = o
                    \/ s = "WTMTX" /\ w = o
    /\ (ct # NoObj /\ s # "WTCOND") => (m = "TIMEOUT" <=> o = NoObj)

Owes(t) == OwedOK(k.state[t], k.rdymsg[t], wtobj[t], owed[t], cont[t], Locking(k, cs, t))

OInv == owed \in [Threads -> Mutexes \union {NoObj}] /\ \A t \in Threads : Owes(t)

\* A step of others.
Apart(t) ==
    /\ k'.state[t] = k.state[t] \/ (k.state[t] \in Awake /\ k'.state[t] \in Awake)
    /\ k'.rdymsg[t] = k.rdymsg[t]
    /\ wtobj'[t] = wtobj[t] /\ owed'[t] = owed[t] /\ cont'[t] = cont[t]
    /\ Locking(k, cs, t) \in {NoObj, Locking(k', cs', t)}

LEMMA ApartOwes ==
    ASSUME OInv, NEW t \in Threads, Apart(t)
    PROVE  Owes(t)'
<1>1. Owes(t)
  BY DEF OInv
<1>2. CASE k'.state[t] = k.state[t]
  BY <1>1, <1>2 DEF Owes, OwedOK, Apart
<1>3. CASE k.state[t] \in Awake /\ k'.state[t] \in Awake
  BY <1>1, <1>3 DEF Owes, OwedOK, Apart, Awake
<1> QED BY <1>2, <1>3 DEF Apart

\* A thread outside any condition wait that is owed nothing.
LEMMA SettledOwes ==
    ASSUME NEW t \in Threads, owed'[t] = NoObj, cont'[t] = NoObj
    PROVE  Owes(t)'
BY DEF Owes, OwedOK

LEMMA NotLocking ==
    ASSUME cs.op # "lock"
    PROVE  \A t : Locking(k, cs, t) = NoObj
BY DEF Locking

LEMMA OutOfSection ==
    ASSUME Unlocked \/ cs = NoCS
    PROVE  cs = NoCS /\ cs.op # "lock"
BY DEF Unlocked, NoCS

LEMMA StillKept ==
    ASSUME NEW kk, NEW r, Still(kk, r)
    PROVE  Kept(kk, r, {})
<1> SUFFICES ASSUME NEW u \in Threads
             PROVE  /\ r.state[u] = kk.state[u] \/ (kk.state[u] \in Awake /\ r.state[u] \in Awake)
                    /\ r.rdymsg[u] = kk.rdymsg[u]
  BY DEF Kept
<1>1. r.rdymsg = kk.rdymsg
  BY DEF Still
<1>2. r.state[u] = kk.state[u] \/ (kk.state[u] \in Awake /\ r.state[u] \in Awake)
  BY DEF Still, Others, Awake
<1> QED BY <1>1, <1>2

LEMMA RousedKept ==
    ASSUME NEW kk, NEW X, Sound(kk, X), NEW r, NEW t \in Threads, NEW m, Roused(kk, r, t, m),
           m \in Messages
    PROVE  Kept(kk, r, {t}) /\ r.state[t] \in Awake /\ r.rdymsg[t] = m
<1>1. kk.rdymsg \in [Threads -> Messages] /\ r.rdymsg = [kk.rdymsg EXCEPT ![t] = m]
  BY SoundFacts DEF Roused
<1>2. r.state[t] \in Awake /\ r.rdymsg[t] = m
  BY <1>1 DEF Roused, Woken, Awake
<1>3. ASSUME NEW u \in Threads \ {t}
      PROVE  /\ r.state[u] = kk.state[u] \/ (kk.state[u] \in Awake /\ r.state[u] \in Awake)
             /\ r.rdymsg[u] = kk.rdymsg[u]
  <2>1. r.state[u] = kk.state[u] \/ (kk.state[u] \in Awake /\ r.state[u] \in Awake)
    BY DEF Roused, Woken, Others, Awake
  <2> QED BY <1>1, <2>1
<1> QED BY <1>2, <1>3 DEF Kept

LEMMA RestedKept ==
    ASSUME NEW kk, NEW r, NEW t, NEW ns, Rested(kk, r, t, ns)
    PROVE  Kept(kk, r, {t}) /\ r.state[t] = ns
<1>1. r.rdymsg = kk.rdymsg /\ r.state[t] = ns
  BY DEF Rested, Asleep
<1>2. ASSUME NEW u \in Threads \ {t}
      PROVE  r.state[u] = kk.state[u] \/ (kk.state[u] \in Awake /\ r.state[u] \in Awake)
  BY DEF Rested, Asleep, Others, Awake
<1> QED BY <1>1, <1>2 DEF Kept

LEMMA KeptTwice ==
    ASSUME NEW kk, NEW x, NEW r, NEW Y, NEW Z, Kept(kk, x, Y), Kept(x, r, Z)
    PROVE  Kept(kk, r, Y \union Z)
BY DEF Kept

\* The running threads: out of the kernel they are owed nothing.
LEMMA RunningOwed ==
    ASSUME IInv, OInv, NEW c \in Cores
    PROVE  /\ k.current[c] \in Threads /\ k.state[k.current[c]] = "CURRENT"
           /\ (cs = NoCS /\ cont[k.current[c]] = NoObj) => owed[k.current[c]] = NoObj
<1>1. k.current[c] \in Threads /\ k.state[k.current[c]] = "CURRENT"
  BY Parts, SoundFacts
<1>2. Owes(k.current[c])
  BY <1>1 DEF OInv
<1>3. cs = NoCS => Locking(k, cs, k.current[c]) = NoObj
  BY OutOfSection, NotLocking
<1> QED BY <1>1, <1>2, <1>3 DEF Owes, OwedOK

\* Steps that change the kernel and the critical section only, and wake nobody.
LEMMA KeptOwed ==
    ASSUME IInv, OInv, cs.op # "lock", Kept(k, k', {}), UNCHANGED <<wtobj, owed, cont>>
    PROVE  OInv'
<1>1. \A t \in Threads : Apart(t)
  BY NotLocking DEF Apart, Kept
<1>2. \A t \in Threads : Owes(t)'
  BY <1>1, ApartOwes
<1> QED BY <1>2 DEF OInv

\* Steps that also start or stop a thread outside any condition wait.
LEMMA AsideOwed ==
    ASSUME IInv, OInv, cs.op # "lock", NEW t \in Threads, Kept(k, k', {t}),
           UNCHANGED <<wtobj, owed, cont>>, owed[t] = NoObj, cont[t] = NoObj
    PROVE  OInv'
<1>1. \A u \in Threads \ {t} : Apart(u)
  BY NotLocking DEF Apart, Kept
<1>2. \A u \in Threads \ {t} : Owes(u)'
  BY <1>1, ApartOwes
<1>3. Owes(t)'
  BY SettledOwes
<1> QED BY <1>2, <1>3 DEF OInv

\* Sleeps, starts, expiries and interrupts.
LEMMA IrqOwed ==
    ASSUME IInv, OInv, NEW c \in Cores,
           \/ chThdSleepS(c) \/ \E t \in UserThreads : chThdStartI(c, t)
           \/ Notified(c) \/ ExitIsr(c) \/ \E t \in Threads : Expire(c, t)
    PROVE  OInv'
<1>1. Unlocked /\ cs = NoCS /\ cs.op # "lock" /\ UNCHANGED <<wtobj, owed, cont>>
  <2>1. Unlocked /\ UNCHANGED <<objs, cont>>
    BY DEF chThdSleepS, Caller, chThdStartI, Notified, ExitIsr, Expire
  <2> QED BY <2>1, OutOfSection DEF objs
<1>2. Sound(k, {})
  BY <1>1, Quiet
<1>3. CASE chThdSleepS(c)
  <2>1. PICK t : t = k.current[c]
    OBVIOUS
  <2>2. /\ Caller(c) /\ k' = chSchGoSleepTimeoutS(k, c, "SLEEPING", TRUE)
        /\ "SLEEPING" \in TimedStates \ {"READY"} /\ {} \subseteq {c}
    BY <1>3 DEF chThdSleepS, TimedStates, States
  <2>3. InThread(k, c) /\ t \in Threads /\ cont[t] = NoObj /\ owed[t] = NoObj
    BY <1>1, <2>1, <2>2, CallerFacts, RunningOwed
  <2>a. PICK timed \in BOOLEAN : k' = chSchGoSleepTimeoutS(k, c, "SLEEPING", timed)
    BY <2>2
  <2>b. InThread(k, c) /\ "SLEEPING" \in TimedStates \ {"READY"} /\ {} \subseteq {c}
    BY <2>2, <2>3
  <2>4. Rested(k, k', t, "SLEEPING")
    BY <1>2, <2>1, <2>a, <2>b, RunSleep
  <2>5. Kept(k, k', {t})
    BY <2>4, RestedKept
  <2> QED BY <1>1, <2>3, <2>5, AsideOwed
<1>4. CASE \E t \in UserThreads : chThdStartI(c, t)
  <2>1. PICK t \in UserThreads : chThdStartI(c, t)
    BY <1>4
  <2>2. /\ t \in Threads /\ k.state[t] = "WTSTART" /\ "OK" \in Messages
        /\ k.state[t] \notin {"READY", "CURRENT"} /\ k' = ReadyWithMsg(EnterIsr(k, c), c, t, "OK")
    BY <2>1, KernelAssumption DEF chThdStartI, UserThreads
  <2>3. Roused(k, k', t, "OK")
    BY <1>2, <2>2, RunReadyI
  <2>4. Kept(k, k', {t})
    BY <1>2, <2>2, <2>3, RousedKept
  <2>5. cont[t] = NoObj
    BY <2>2, Parts DEF ContsOK
  <2>6. owed[t] = NoObj
    BY <1>1, <2>2, <2>5, NotLocking DEF OInv, Owes, OwedOK, Awake
  <2> QED BY <1>1, <2>2, <2>4, <2>5, <2>6, AsideOwed
<1>5. CASE Notified(c) \/ ExitIsr(c) \/ \E t \in Threads : Expire(c, t)
  <2>1. \/ k' = NotifyIrq(k, c)
        \/ \E t \in Threads : TimerDueEnabled(k, c, t) /\ k' = TimerDue(k, c, t)
        \/ IsrExitEnabled(k, c) /\ k' = IsrExit(k, c)
    BY <1>5 DEF Expire, Notified, ExitIsr
  <2>2. Still(k, k')
    BY <1>2, <2>1, RunIrq
  <2> QED BY <1>1, <2>2, StillKept, KeptOwed
<1> QED BY <1>3, <1>4, <1>5

\* The timeout callback: a thread that still waits is told of the timeout and
\* is owed nothing; one that was signalled before keeps its message.
LEMMA TimeoutOwed ==
    ASSUME IInv, OInv, NEW c \in Cores, sch_wakeup(c)
    PROVE  OInv'
<1>1. PICK t : t = k.firing[c]
  OBVIOUS
<1>2. /\ cs = NoCS /\ cs.op # "lock" /\ t # NoThread /\ k' = Callback(k, c)
      /\ UNCHANGED <<cont, owed>>
  BY <1>1, OutOfSection DEF sch_wakeup, Callback
<1>3. Sound(k, {}) /\ TimeoutsOK(k) /\ wtobj \in [Threads -> Mutexes \union Conds \union {NoObj}]
  BY <1>2, Parts, Quiet
<1>4. CalledBack(k, c, k')
  BY <1>1, <1>2, <1>3, RunCallback
<1>5. /\ t \in Threads /\ t \in Pending(k)
      /\ IF AlreadyReady(k, t) THEN Still(k, k') ELSE Roused(k, k', t, "TIMEOUT")
  BY <1>1, <1>4 DEF CalledBack
<1>6. k.state[t] \in {"WTCOND", "SLEEPING", "READY"}
  BY <1>3, <1>5 DEF TimeoutsOK
<1>7. CASE k.state[t] = "READY"
  <2>1. Still(k, k') /\ wtobj' = wtobj
    BY <1>1, <1>5, <1>7 DEF AlreadyReady, sch_wakeup
  <2> QED BY <1>2, <2>1, StillKept, KeptOwed
<1>8. CASE k.state[t] # "READY"
  <2>1. Roused(k, k', t, "TIMEOUT") /\ "TIMEOUT" \in Messages
    BY <1>5, <1>8, KernelAssumption DEF AlreadyReady
  <2>2. Kept(k, k', {t}) /\ k'.rdymsg[t] = "TIMEOUT"
    BY <1>3, <1>5, <2>1, RousedKept
  <2>3. \A u \in Threads \ {t} : wtobj'[u] = wtobj[u]
    BY <1>1, <1>3 DEF sch_wakeup
  <2>4. \A u \in Threads \ {t} : Apart(u)
    BY <1>2, <2>2, <2>3, NotLocking DEF Apart, Kept
  <2>5. \A u \in Threads \ {t} : Owes(u)'
    BY <2>4, ApartOwes
  <2>6. owed[t] = NoObj
    BY <1>2, <1>5, <1>6, <1>8, NotLocking DEF OInv, Owes, OwedOK, Awake
  <2>7. Owes(t)'
    BY <1>2, <2>2, <2>6 DEF Owes, OwedOK
  <2> QED BY <1>2, <2>5, <2>7 DEF OInv
<1> QED BY <1>7, <1>8

\* A signal or a turn of a broadcast: the thread is owed its mutex from now on.
LEMMA PopOwed ==
    ASSUME IInv, OInv, cs.op # "lock", NEW v \in Conds, CondPop(v), NEW t, t = Head(cqueue[v]),
           NEW X, Sound(k, X), NEW m, m \in Messages, m # "TIMEOUT", Roused(k, k', t, m)
    PROVE  OInv'
<1>1. /\ cqueue[v] # <<>> /\ wtobj' = [wtobj EXCEPT ![t] = NoObj]
      /\ owed' = [owed EXCEPT ![t] = cont[t]] /\ cont' = cont
  BY DEF CondPop
<1>2. t \in Threads
  BY <1>1, PopFacts
<1>3. /\ wtobj \in [Threads -> Mutexes \union Conds \union {NoObj}]
      /\ cont \in [Threads -> Mutexes \union {NoObj}]
      /\ owed \in [Threads -> Mutexes \union {NoObj}]
  BY Parts DEF OInv
<1>4. Kept(k, k', {t}) /\ k'.state[t] \in Awake /\ k'.rdymsg[t] = m
  BY <1>2, RousedKept
<1>5. \A u \in Threads \ {t} : Apart(u)
  BY <1>1, <1>3, <1>4, NotLocking DEF Apart, Kept
<1>6. \A u \in Threads \ {t} : Owes(u)'
  BY <1>5, ApartOwes
<1>7. owed'[t] = cont[t] /\ owed' \in [Threads -> Mutexes \union {NoObj}]
  BY <1>1, <1>2, <1>3
<1>8. Owes(t)'
  BY <1>1, <1>4, <1>7 DEF Owes, OwedOK
<1> QED BY <1>6, <1>7, <1>8 DEF OInv

LEMMA SignalOwed ==
    ASSUME IInv, OInv, NEW c \in Cores, NEW v \in Conds, chCondSignal(c, v) \/ chCondSignalI(c, v)
    PROVE  OInv'
<1>1. PICK t : t = Head(cqueue[v])
  OBVIOUS
<1>2. /\ cs = NoCS /\ cs.op # "lock" /\ CondPop(v) /\ cqueue[v] # <<>> /\ "OK" \in Messages
      /\ "OK" # "TIMEOUT"
  BY OutOfSection, KernelAssumption DEF chCondSignal, chCondSignalI, Caller, CondPop
<1>3. t \in Threads /\ k.state[t] \notin {"READY", "CURRENT"} /\ Sound(k, {})
  BY <1>1, <1>2, PopFacts, Quiet
<1>4. Roused(k, k', t, "OK")
  <2>1. CASE chCondSignal(c, v)
    <3>1. k' = chSchWakeupS(k, c, t, "OK") /\ c \notin k.isr
      BY <1>1, <2>1, CallerFacts DEF chCondSignal
    <3> QED BY <1>2, <1>3, <3>1, RunWakeup
  <2>2. CASE chCondSignalI(c, v)
    <3>1. k' = ReadyWithMsg(EnterIsr(k, c), c, t, "OK")
      BY <1>1, <2>2 DEF chCondSignalI
    <3> QED BY <1>2, <1>3, <3>1, RunReadyI
  <2> QED BY <2>1, <2>2
<1> QED BY <1>1, <1>2, <1>3, <1>4, PopOwed

LEMMA BroadcastOwed ==
    ASSUME IInv, OInv,
           \/ \E c \in Cores, v \in Conds, thread \in BOOLEAN : chCondBroadcast(c, v, thread)
           \/ BroadcastIteration \/ BroadcastEnd
    PROVE  OInv'
<1>1. CASE \E c \in Cores, v \in Conds, thread \in BOOLEAN : chCondBroadcast(c, v, thread)
  <2>1. PICK c \in Cores : /\ Unlocked /\ UNCHANGED <<wtobj, owed, cont>>
                           /\ k' = k \/ k' = EnterIsr(k, c)
    BY <1>1 DEF chCondBroadcast, objs
  <2>2. cs.op # "lock" /\ Sound(k, {})
    BY <2>1, OutOfSection, Quiet
  <2>3. k' = k \/ Still(k, k')
    BY <2>1, <2>2, RunIrq
  <2>4. Kept(k, k', {})
    BY <2>3, StillKept DEF Kept
  <2> QED BY <2>1, <2>2, <2>4, KeptOwed
<1>2. CASE BroadcastIteration
  <2>1. PICK c, v, t : c = cs.core /\ v = cs.cp /\ t = Head(cqueue[cs.cp])
    OBVIOUS
  <2>2. /\ cs.op = "broadcast" /\ CondPop(v) /\ cqueue[v] # <<>> /\ t = Head(cqueue[v])
        /\ k' = ReadyWithMsg(k, c, t, "RESET") /\ cs.op # "lock"
    BY <1>2, <2>1 DEF BroadcastIteration, CondPop
  <2>3. c \in Cores /\ v \in Conds /\ Sound(k, {c})
    BY <2>1, <2>2, BroadcastFacts
  <2>4. /\ t \in Threads /\ k.state[t] \notin {"READY", "CURRENT"} /\ "RESET" \in Messages
        /\ "RESET" # "TIMEOUT"
    BY <2>2, <2>3, PopFacts, KernelAssumption
  <2>5. Roused(k, k', t, "RESET")
    BY <2>2, <2>3, <2>4, RunReady
  <2> QED BY <2>2, <2>3, <2>4, <2>5, PopOwed
<1>3. CASE BroadcastEnd
  <2>1. PICK c : c = cs.core
    OBVIOUS
  <2>2. /\ cs.op = "broadcast" /\ k' = IF cs.thread THEN chSchRescheduleS(k, c) ELSE k
        /\ UNCHANGED <<wtobj, owed, cont>> /\ cs.op # "lock"
    BY <1>3, <2>1 DEF BroadcastEnd, objs
  <2>3. c \in Cores /\ Sound(k, {c}) /\ (cs.thread => c \notin k.isr) /\ {c} \subseteq {c}
    BY <2>1, <2>2, BroadcastFacts DEF InThread
  <2>4. Kept(k, k', {})
    <3>1. CASE cs.thread
      <4>1. Still(k, k')
        BY <2>2, <2>3, <3>1, RunReschedule
      <4> QED BY <4>1, StillKept
    <3>2. CASE ~ cs.thread
      BY <2>2, <3>2 DEF Kept
    <3> QED BY <3>1, <3>2
  <2> QED BY <2>2, <2>4, KeptOwed
<1> QED BY <1>1, <1>2, <1>3

\* Priority changes, outside the inheritance loop.
LEMMA PriceOwed ==
    ASSUME IInv, OInv,
           \/ \E c \in Cores, t \in UserThreads, p \in NewPrios : thd_set_priority(c, t, p)
           \/ SetPrioIteration \/ SetPrioEnd
    PROVE  OInv'
<1>1. CASE \E c \in Cores, t \in UserThreads, p \in NewPrios : thd_set_priority(c, t, p)
  <2>1. Unlocked /\ UNCHANGED <<k, wtobj, owed, cont>>
    BY <1>1 DEF thd_set_priority, Caller
  <2>2. cs.op # "lock" /\ Kept(k, k', {})
    BY <2>1, OutOfSection DEF Kept
  <2> QED BY <2>1, <2>2, KeptOwed
<1>2. CASE SetPrioIteration
  <2>1. cs.op # "lock" /\ UNCHANGED <<wtobj, owed, cont>>
    BY <1>2 DEF SetPrioIteration
  <2>2. Kept(k, k', {})
    BY <1>2, PriceSteps DEF Kept
  <2> QED BY <2>1, <2>2, KeptOwed
<1>3. CASE SetPrioEnd
  <2>1. PICK c : c = cs.core
    OBVIOUS
  <2>2. cs.op = "setprio" /\ k' = chSchRescheduleS(k, c) /\ UNCHANGED <<wtobj, owed, cont>>
    BY <1>3, <2>1 DEF SetPrioEnd, objs
  <2>3. c \in Cores /\ Sound(k, {c}) /\ c \notin k.isr /\ {c} \subseteq {c} /\ cs.op # "lock"
    BY <2>1, <2>2, SetPrioFacts DEF InThread
  <2>4. Still(k, k')
    BY <2>2, <2>3, RunReschedule
  <2> QED BY <2>2, <2>3, <2>4, StillKept, KeptOwed
<1> QED BY <1>1, <1>2, <1>3

\* The mutex of a lock in progress stays the same through the loop.
LEMMA BoostOwed ==
    ASSUME IInv, OInv, LockBoost
    PROVE  OInv'
<1>1. cs.op = "lock" /\ cs' = [cs EXCEPT !.tp = NextInChain(cs.tp)] /\ UNCHANGED <<wtobj, owed, cont>>
  BY DEF LockBoost
<1>2. cs \in [op : {"lock"}, core : Cores, mp : Mutexes, tp : Threads]
  BY <1>1, LockFacts
<1>3. cs'.op = cs.op /\ cs'.core = cs.core /\ cs'.mp = cs.mp
  BY <1>1, <1>2
<1>4. k'.state = k.state /\ k'.rdymsg = k.rdymsg /\ k'.current = k.current
  BY PriceSteps
<1>5. \A t \in Threads : Apart(t)
  BY <1>1, <1>3, <1>4 DEF Apart, Locking
<1>6. \A t \in Threads : Owes(t)'
  BY <1>5, ApartOwes
<1> QED BY <1>1, <1>6 DEF OInv

\* The running thread, that may be owed the mutex it locks, waits for it.
LEMMA LockSleepOwed ==
    ASSUME IInv, OInv, LockSleep
    PROVE  OInv'
<1>1. PICK c, m, t : c = cs.core /\ m = cs.mp /\ t = k.current[c]
  OBVIOUS
<1>2. /\ cs.op = "lock" /\ wtobj' = [wtobj EXCEPT ![t] = m] /\ k' = chSchGoSleepS(k, c, "WTMTX")
      /\ UNCHANGED <<owed, cont>>
  BY <1>1 DEF LockSleep
<1>3. /\ c \in Cores /\ m \in Mutexes /\ Sound(k, {c}) /\ InThread(k, c)
      /\ t \in Threads /\ k.state[t] = "CURRENT" /\ cont[t] = NoObj
  BY <1>1, <1>2, LockFacts
<1>4. "WTMTX" \in TimedStates \ {"READY"} /\ {c} \subseteq {c}
  BY DEF TimedStates, States
<1>5. Rested(k, k', t, "WTMTX")
  BY <1>1, <1>2, <1>3, <1>4, RunSleepS
<1>6. Kept(k, k', {t}) /\ k'.state[t] = "WTMTX"
  BY <1>5, RestedKept
<1>7. wtobj \in [Threads -> Mutexes \union Conds \union {NoObj}]
  BY Parts
<1>8. \A u \in Threads \ {t} : Locking(k, cs, u) = NoObj
  BY <1>1 DEF Locking
<1>9. \A u \in Threads \ {t} : Apart(u)
  BY <1>2, <1>6, <1>7, <1>8 DEF Apart, Kept
<1>10. \A u \in Threads \ {t} : Owes(u)'
  BY <1>9, ApartOwes
<1>11. Locking(k, cs, t) = m
  BY <1>1, <1>2 DEF Locking
<1>12. owed[t] \in {NoObj, m}
  BY <1>3, <1>11 DEF OInv, Owes, OwedOK
<1>13. Owes(t)'
  BY <1>2, <1>3, <1>6, <1>7, <1>12 DEF Owes, OwedOK
<1> QED BY <1>2, <1>10, <1>13 DEF OInv

\* The first waiter of a mutex is made ready; it keeps its message.
LEMMA ReadyKeeps ==
    ASSUME NEW kk, NEW X, Sound(kk, X), NEW c \in Cores, NEW h \in Threads,
           kk.state[h] \notin Awake, NEW r, r = chSchReadyI(kk, c, h)
    PROVE  Kept(kk, r, {h})
<1>1. kk \in KernelType /\ kk.rdymsg[h] \in Messages
  BY SoundFacts
<1>2. r = ReadyWithMsg(kk, c, h, kk.rdymsg[h]) /\ kk.state[h] \notin {"READY", "CURRENT"}
  BY <1>1, ReadyKept DEF Awake
<1>3. Roused(kk, r, h, kk.rdymsg[h])
  BY <1>1, <1>2, RunReady
<1> QED BY <1>1, <1>3, RousedKept

\* Who gets m when it is passed on.
Heir(m) == IF mqueue[m] = <<>> THEN {} ELSE {Head(mqueue[m])}

\* __mtx_unlock_no_reschedule() wakes the first waiter and nobody else.
LEMMA UnlockKept ==
    ASSUME IInv, cs = NoCS, NEW c \in Cores, InThread(k, c),
           NEW t, t = k.current[c], mtxlist[t] # <<>>, NEW m, m = Head(mtxlist[t]),
           NEW r, r = mtx_unlock_no_reschedule(c)
    PROVE  Kept(k, r, Heir(m))
<1>1. CASE mqueue[m] = <<>>
  <2>1. r = k
    BY <1>1 DEF mtx_unlock_no_reschedule
  <2> QED BY <2>1 DEF Kept
<1>2. CASE mqueue[m] # <<>>
  <2>1. Sound(k, {}) /\ Exacts(k, wtobj, owner, realprio, {})
    BY Quiet
  <2>2. t \in Threads /\ k.state[t] = "CURRENT"
    BY <2>1, SoundFacts
  <2>3. PICK h, p, kp : /\ h = Head(mqueue[m]) /\ kp = [k EXCEPT !.prio[t] = p]
                        /\ p = mtx_get_effective_priority(t, Tail(mtxlist[t]), mqueue)
    OBVIOUS
  <2>4. h \in Threads /\ k.state[h] = "WTMTX"
    BY <1>2, <2>2, <2>3, PassFacts
  <2>5. r = chSchReadyI(kp, c, h)
    BY <1>2, <2>3 DEF mtx_unlock_no_reschedule, WaiterReady
  <2>6. p \in Prios
    <3>1. /\ k \in KernelType /\ QueuesExact(k, mqueue, wtobj, Mutexes, "WTMTX", TRUE)
          /\ realprio \in [Threads -> Prios] /\ mtxlist[t] \in Seq(Mutexes)
      BY <2>2, Parts DEF Waiting, Owning, OwnTypes
    <3>2. Tail(mtxlist[t]) \in Seq(Mutexes)
      BY <3>1
    <3>3. Effective(k, wtobj, realprio, t, Tail(mtxlist[t]), p)
      BY <2>2, <2>3, <3>1, <3>2, EffectiveIs
    <3> QED BY <3>3 DEF Effective
  <2>7. Exacts(k, wtobj, owner, realprio, {t}) /\ {} \union {c} = {c}
    BY <2>1 DEF Exacts
  <2>8. Base(kp, c, t) /\ Repriced(k, kp, t, p)
    BY <2>1, <2>2, <2>3, <2>6, <2>7, OwnPrice
  <2>9. Sound(kp, {c}) /\ kp.state = k.state /\ kp.rdymsg = k.rdymsg
    BY <2>8 DEF Base, Repriced
  <2>10. Kept(kp, r, {h})
    BY <2>4, <2>5, <2>9, ReadyKeeps DEF Awake
  <2>11. Heir(m) = {h}
    BY <1>2, <2>3 DEF Heir
  <2> QED BY <2>9, <2>10, <2>11 DEF Kept
<1> QED BY <1>1, <1>2

\* A mutex is passed on by t: its first waiter takes it and is owed nothing.
\* The state of t afterwards is the business of the call.
LEMMA PassOwed ==
    ASSUME IInv, OInv, cs.op # "lock", cs'.op # "lock", NEW c \in Cores, NEW w, PassOn(c, w),
           NEW t \in Threads, t = k.current[c], k.state[t] = "CURRENT", mtxlist[t] # <<>>,
           NEW m, m = Head(mtxlist[t]), w \in [Threads -> Mutexes \union Conds \union {NoObj}],
           \A u \in Threads \ {t} : w[u] = wtobj[u] /\ cont'[u] = cont[u],
           Kept(k, k', Heir(m) \union {t})
    PROVE  /\ owed' \in [Threads -> Mutexes \union {NoObj}] /\ owed'[t] = owed[t]
           /\ \A u \in Threads \ {t} : Owes(u)'
<1>1. owed \in [Threads -> Mutexes \union {NoObj}] /\ m \in Mutexes
  BY PassFacts DEF OInv
<1>2. CASE mqueue[m] = <<>>
  <2>1. wtobj' = w /\ owed' = owed
    BY <1>2 DEF PassOn
  <2>2. \A u \in Threads \ {t} : Apart(u)
    <3>1. Kept(k, k', {t})
      BY <1>2 DEF Heir
    <3> QED BY <2>1, <3>1, NotLocking DEF Apart, Kept
  <2>3. \A u \in Threads \ {t} : Owes(u)'
    BY <2>2, ApartOwes
  <2> QED BY <1>1, <2>1, <2>3
<1>3. CASE mqueue[m] # <<>>
  <2>1. PICK h : h = Head(mqueue[m])
    OBVIOUS
  <2>2. h \in Threads /\ h # t /\ k.state[h] = "WTMTX" /\ wtobj[h] = m
    BY <1>3, <2>1, PassFacts
  <2>3. wtobj' = [w EXCEPT ![h] = NoObj] /\ Settle(m, h)
    BY <1>3, <2>1 DEF PassOn, Own
  <2>4. cont[h] = NoObj
    BY <2>2, Parts DEF ContsOK
  <2>5. owed[h] \in {NoObj, m}
    <3>1. Owes(h) /\ Locking(k, cs, h) = NoObj
      BY <2>2, NotLocking DEF OInv
    <3> QED BY <2>2, <2>4, <3>1 DEF Owes, OwedOK, Awake
  <2>6. /\ owed' \in [Threads -> Mutexes \union {NoObj}] /\ owed'[h] = NoObj
        /\ \A u \in Threads \ {h} : owed'[u] = owed[u]
    BY <1>1, <2>2, <2>3, <2>5 DEF Settle
  <2>7. Owes(h)'
    BY <2>2, <2>4, <2>6, SettledOwes
  <2>8. ASSUME NEW u \in Threads, u # t, u # h PROVE Owes(u)'
    <3>1. wtobj'[u] = wtobj[u] /\ owed'[u] = owed[u] /\ cont'[u] = cont[u]
      BY <2>3, <2>6, <2>8
    <3>2. u \in Threads \ (Heir(m) \union {t})
      BY <1>3, <2>1, <2>8 DEF Heir
    <3>3. Apart(u)
      BY <3>1, <3>2, NotLocking DEF Apart, Kept
    <3> QED BY <3>3, ApartOwes
  <2> QED BY <2>2, <2>6, <2>7, <2>8
<1> QED BY <1>2, <1>3

\* An unlock.
LEMMA UnlockOwed ==
    ASSUME IInv, OInv, NEW c \in Cores, NEW m \in Mutexes, chMtxUnlock(c, m)
    PROVE  OInv'
<1>1. PICK t : t = k.current[c]
  OBVIOUS
<1>2. Caller(c) /\ owner[m] = t /\ UNCHANGED <<cont, cs>>
  BY <1>1 DEF chMtxUnlock
<1>3. /\ cs = NoCS /\ cs.op # "lock" /\ InThread(k, c) /\ c \notin k.isr /\ t \in Threads
      /\ k.state[t] = "CURRENT" /\ cont[t] = NoObj /\ owed[t] = NoObj
  BY <1>1, <1>2, CallerFacts, RunningOwed, OutOfSection
<1>4. CASE UNCHANGED <<k, owner, mqueue, mtxlist, wtobj, owed>>
  <2>1. Kept(k, k', {})
    BY <1>4 DEF Kept
  <2> QED BY <1>2, <1>3, <1>4, <2>1, KeptOwed
<1>5. CASE /\ m = Head(mtxlist[t]) /\ PassOn(c, wtobj)
           /\ k' = IF mqueue[m] # <<>> THEN chSchRescheduleS(mtx_unlock_no_reschedule(c), c)
                   ELSE mtx_unlock_no_reschedule(c)
  <2>1. mtxlist[t] # <<>>
    <3>1. m \in ToSet(mtxlist[t])
      BY <1>2, <1>3, Parts DEF Owning, OwnersOK
    <3> QED BY <3>1 DEF ToSet
  <2>2. PICK r : r = mtx_unlock_no_reschedule(c)
    OBVIOUS
  <2>3. cs = NoCS /\ InThread(k, c) /\ t = k.current[c] /\ m = Head(mtxlist[t]) /\ PassOn(c, wtobj)
    BY <1>1, <1>3, <1>5
  <2>4. Kept(k, r, Heir(m))
    BY <2>1, <2>2, <2>3, UnlockKept
  <2>5. Kept(r, k', {})
    <3>1. CASE mqueue[m] = <<>>
      BY <1>5, <2>2, <3>1 DEF Kept
    <3>2. CASE mqueue[m] # <<>>
      <4>1. PICK wn : Passed(r, c, t, owner', mcnt', mtxlist', mqueue', wn)
        BY <2>1, <2>2, <2>3, UnlockNoReschedule
      <4>2. Sound(r, {c}) /\ c \notin r.isr /\ {c} \subseteq {c}
        BY <1>3, <4>1 DEF Passed
      <4>3. k' = chSchRescheduleS(r, c)
        BY <1>5, <2>2, <3>2
      <4> QED BY <4>2, <4>3, RunReschedule, StillKept
    <3> QED BY <3>1, <3>2
  <2>6. Kept(k, k', Heir(m) \union {t})
    <3>1. Kept(k, k', Heir(m) \union {})
      BY <2>4, <2>5, KeptTwice
    <3> QED BY <3>1 DEF Kept
  <2>7. /\ wtobj \in [Threads -> Mutexes \union Conds \union {NoObj}] /\ cs'.op # "lock"
        /\ \A u \in Threads \ {t} : wtobj[u] = wtobj[u] /\ cont'[u] = cont[u]
    BY <1>2, <1>3, Parts
  <2>8. /\ owed' \in [Threads -> Mutexes \union {NoObj}] /\ owed'[t] = owed[t]
        /\ \A u \in Threads \ {t} : Owes(u)'
    BY <1>3, <2>1, <2>3, <2>6, <2>7, PassOwed
  <2>9. Owes(t)'
    BY <1>2, <1>3, <2>8, SettledOwes
  <2> QED BY <2>8, <2>9 DEF OInv
<1> QED BY <1>1, <1>4, <1>5 DEF chMtxUnlock

\* chMtxUnlockAll(): its start, a turn of its loop and its end.
LEMMA UnlockAllOwed ==
    ASSUME IInv, OInv, (\E c \in Cores : chMtxUnlockAll(c)) \/ UnlockAllIteration \/ UnlockAllEnd
    PROVE  OInv'
<1>1. CASE \E c \in Cores : chMtxUnlockAll(c)
  <2>1. Unlocked /\ UNCHANGED <<k, wtobj, owed, cont>>
    BY <1>1 DEF chMtxUnlockAll, Caller, objs
  <2>2. cs.op # "lock" /\ Kept(k, k', {})
    BY <2>1, OutOfSection DEF Kept
  <2> QED BY <2>1, <2>2, KeptOwed
<1>2. CASE UnlockAllIteration
  <2>1. PICK c, t, m : c = cs.core /\ t = k.current[c] /\ m = Head(mtxlist[t])
    OBVIOUS
  <2>2. /\ cs.op = "unlockall" /\ mtxlist[t] # <<>> /\ PassOn(c, wtobj)
        /\ k' = IF mqueue[m] # <<>> THEN WaiterReady(k, c, m) ELSE k
        /\ UNCHANGED <<cont, cs>>
    BY <1>2, <2>1 DEF UnlockAllIteration
  <2>3. c \in Cores /\ Sound(k, {c}) /\ t \in Threads /\ k.state[t] = "CURRENT"
    BY <2>1, <2>2, UnlockAllFacts
  <2>4. Kept(k, k', Heir(m))
    <3>1. CASE mqueue[m] = <<>>
      BY <2>2, <3>1 DEF Kept
    <3>2. CASE mqueue[m] # <<>>
      <4>1. PICK h : h = Head(mqueue[m])
        OBVIOUS
      <4>2. h \in Threads /\ k.state[h] = "WTMTX"
        BY <2>1, <2>2, <2>3, <3>2, <4>1, PassFacts
      <4>3. k' = chSchReadyI(k, c, h) /\ k.state[h] \notin Awake /\ Heir(m) = {h}
        BY <2>2, <3>2, <4>1, <4>2 DEF WaiterReady, Awake, Heir
      <4> QED BY <2>3, <4>2, <4>3, ReadyKeeps
    <3> QED BY <3>1, <3>2
  <2>5. Kept(k, k', Heir(m) \union {t})
    BY <2>4 DEF Kept
  <2>6. /\ wtobj \in [Threads -> Mutexes \union Conds \union {NoObj}] /\ cs.op # "lock" /\ cs'.op # "lock"
        /\ \A u \in Threads \ {t} : wtobj[u] = wtobj[u] /\ cont'[u] = cont[u]
    BY <2>2, Parts
  <2>7. /\ owed' \in [Threads -> Mutexes \union {NoObj}] /\ owed'[t] = owed[t]
        /\ \A u \in Threads \ {t} : Owes(u)'
    <3>1. t = k.current[c] /\ m = Head(mtxlist[t]) /\ PassOn(c, wtobj) /\ mtxlist[t] # <<>>
      BY <2>1, <2>2
    <3> QED BY <2>3, <2>5, <2>6, <3>1, PassOwed
  <2>8. Apart(t)
    <3>1. /\ k'.state[t] = k.state[t] \/ (k.state[t] \in Awake /\ k'.state[t] \in Awake)
          /\ k'.rdymsg[t] = k.rdymsg[t]
      <4>1. t \notin Heir(m)
        BY <2>1, <2>2, <2>3, PassFacts DEF Heir
      <4> QED BY <2>3, <2>4, <4>1 DEF Kept
    <3>2. wtobj'[t] = wtobj[t]
      <4>1. CASE mqueue[m] = <<>>
        BY <2>1, <2>2, <4>1 DEF PassOn
      <4>2. CASE mqueue[m] # <<>>
        <5>1. wtobj' = [wtobj EXCEPT ![Head(mqueue[m])] = NoObj]
          BY <2>1, <2>2, <4>2 DEF PassOn
        <5>2. Head(mqueue[m]) # t
          BY <2>1, <2>2, <2>3, <4>2, PassFacts
        <5> QED BY <2>3, <2>6, <5>1, <5>2
      <4> QED BY <4>1, <4>2
    <3> QED BY <2>2, <2>6, <2>7, <3>1, <3>2, NotLocking DEF Apart
  <2>9. Owes(t)'
    BY <2>3, <2>8, ApartOwes
  <2> QED BY <2>7, <2>9 DEF OInv
<1>3. CASE UnlockAllEnd
  <2>1. PICK c, t, p, kp : /\ c = cs.core /\ t = k.current[c] /\ p = realprio[t]
                           /\ kp = [k EXCEPT !.prio[t] = p]
    OBVIOUS
  <2>2. /\ cs.op = "unlockall" /\ k' = chSchRescheduleS(kp, c) /\ UNCHANGED <<wtobj, owed, cont>>
    BY <1>3, <2>1 DEF UnlockAllEnd, objs
  <2>3. /\ c \in Cores /\ Sound(k, {c}) /\ c \notin k.isr /\ t \in Threads /\ k.state[t] = "CURRENT"
        /\ Exacts(k, wtobj, owner, realprio, {t})
    BY <2>1, <2>2, UnlockAllFacts
  <2>4. p \in Prios /\ {c} \union {c} = {c} /\ {c} \subseteq {c}
    BY <2>1, <2>3, Parts
  <2>5. Base(kp, c, t) /\ Repriced(k, kp, t, p)
    BY <2>1, <2>3, <2>4, OwnPrice
  <2>6. Sound(kp, {c}) /\ c \notin kp.isr /\ kp.state = k.state /\ kp.rdymsg = k.rdymsg
    BY <2>3, <2>5 DEF Base, Repriced
  <2>7. Still(kp, k')
    BY <2>2, <2>3, <2>4, <2>6, RunReschedule
  <2>8. Kept(kp, k', {})
    BY <2>7, StillKept
  <2>9. Kept(k, k', {}) /\ cs.op # "lock"
    BY <2>2, <2>6, <2>8 DEF Kept
  <2> QED BY <2>2, <2>9, KeptOwed
<1> QED BY <1>1, <1>2, <1>3

\* A condition wait begins: the thread is owed nothing until it is signalled.
LEMMA CondWaitOwed ==
    ASSUME IInv, OInv, NEW c \in Cores, NEW v \in Conds, NEW timed \in BOOLEAN,
           chCondWaitTimeoutS(c, v, timed)
    PROVE  OInv'
<1>1. PICK t, m, w, r : /\ t = k.current[c] /\ m = Head(mtxlist[t])
                        /\ w = [wtobj EXCEPT ![t] = v] /\ r = mtx_unlock_no_reschedule(c)
  OBVIOUS
<1>2. /\ Caller(c) /\ mtxlist[t] # <<>> /\ PassOn(c, w)
      /\ k' = chSchGoSleepTimeoutS(r, c, "WTCOND", timed)
      /\ cont' = [cont EXCEPT ![t] = m] /\ cs' = cs
  BY <1>1 DEF chCondWaitTimeoutS
<1>3. /\ cs = NoCS /\ cs.op # "lock" /\ InThread(k, c) /\ c \notin k.isr /\ t \in Threads
      /\ k.state[t] = "CURRENT" /\ cont[t] = NoObj /\ owed[t] = NoObj
  BY <1>1, <1>2, CallerFacts, RunningOwed, OutOfSection
<1>4. Kept(k, r, Heir(m))
  BY <1>1, <1>2, <1>3, UnlockKept
<1>5. PICK wn : Passed(r, c, t, owner', mcnt', mtxlist', mqueue', wn)
  BY <1>1, <1>2, <1>3, UnlockNoReschedule
<1>6. /\ Sound(r, {c}) /\ InThread(r, c) /\ {c} \subseteq {c} /\ r.current[c] = t
      /\ "WTCOND" \in TimedStates \ {"READY"}
  BY <1>1, <1>3, <1>5 DEF Passed, InThread, TimedStates, States
<1>7. Rested(r, k', t, "WTCOND")
  BY <1>2, <1>6, RunSleep
<1>8. Kept(r, k', {t}) /\ k'.state[t] = "WTCOND"
  BY <1>7, RestedKept
<1>9. Kept(k, k', Heir(m) \union {t})
  BY <1>4, <1>8, KeptTwice
<1>10. /\ wtobj \in [Threads -> Mutexes \union Conds \union {NoObj}]
       /\ cont \in [Threads -> Mutexes \union {NoObj}]
  BY Parts
<1>11. /\ w \in [Threads -> Mutexes \union Conds \union {NoObj}] /\ cs'.op # "lock"
       /\ \A u \in Threads \ {t} : w[u] = wtobj[u] /\ cont'[u] = cont[u]
  BY <1>1, <1>2, <1>3, <1>10
<1>12. /\ owed' \in [Threads -> Mutexes \union {NoObj}] /\ owed'[t] = owed[t]
       /\ \A u \in Threads \ {t} : Owes(u)'
  <2>1. t = k.current[c] /\ m = Head(mtxlist[t]) /\ PassOn(c, w) /\ mtxlist[t] # <<>>
    BY <1>1, <1>2
  <2> QED BY <1>3, <1>9, <1>11, <2>1, PassOwed
<1>13. Owes(t)'
  BY <1>3, <1>8, <1>12 DEF Owes, OwedOK
<1> QED BY <1>12, <1>13 DEF OInv

\* The start of a lock by the running thread, owed this mutex or nothing.
LEMMA LockSOwed ==
    ASSUME IInv, OInv, cs = NoCS, NEW c \in Cores, NEW m \in Mutexes,
           NEW t \in Threads, t = k.current[c], ContFor(t, cont'), LockS(c, m),
           owed[t] \in {NoObj, m}, owner[m] = t => owed[t] = NoObj
    PROVE  OInv'
<1>1. owed \in [Threads -> Mutexes \union {NoObj}] /\ cs.op # "lock" /\ cont'[t] = NoObj
  BY OutOfSection DEF OInv, ContFor
<1>2. k' = k /\ wtobj' = wtobj /\ (owed' = owed \/ Settle(m, t))
  BY DEF LockS, Own, objs
<1>3. /\ owed' \in [Threads -> Mutexes \union {NoObj}]
      /\ \A u \in Threads \ {t} : owed'[u] = owed[u]
  BY <1>1, <1>2 DEF Settle
<1>4. \A u \in Threads \ {t} : Apart(u)
  BY <1>1, <1>2, <1>3, NotLocking DEF Apart, ContFor
<1>5. \A u \in Threads \ {t} : Owes(u)'
  BY <1>4, ApartOwes
<1>6. Owes(t)'
  <2>1. CASE owner[m] \notin {NoThread, t}
    <3>1. cs' = [op |-> "lock", core |-> c, mp |-> m, tp |-> owner[m]] /\ owed' = owed
      BY <2>1 DEF LockS, objs
    <3>2. Locking(k', cs', t) = m
      BY <1>2, <3>1 DEF Locking
    <3> QED BY <1>1, <3>1, <3>2 DEF Owes, OwedOK
  <2>2. CASE owner[m] = t
    <3>1. owed'[t] = NoObj
      <4>1. CASE owed' = owed
        BY <2>2, <4>1
      <4>2. CASE Settle(m, t)
        BY <1>1, <2>2, <4>2 DEF Settle
      <4> QED BY <1>2, <4>1, <4>2
    <3> QED BY <1>1, <3>1, SettledOwes
  <2>3. CASE owner[m] = NoThread /\ owner[m] # t
    <3>1. Settle(m, t)
      BY <2>3 DEF LockS, Own
    <3>2. owed'[t] = NoObj
      BY <1>1, <3>1 DEF Settle
    <3> QED BY <1>1, <3>2, SettledOwes
  <2> QED BY <2>1, <2>2, <2>3
<1> QED BY <1>3, <1>5, <1>6 DEF OInv

LEMMA LockOwed ==
    ASSUME IInv, OInv, NEW c \in Cores, NEW m \in Mutexes, chMtxLock(c, m) \/ chMtxTryLock(c, m)
    PROVE  OInv'
<1>1. PICK t : t = k.current[c]
  OBVIOUS
<1>2. Caller(c) /\ LockS(c, m) /\ cont' = cont
  BY DEF chMtxLock, chMtxTryLock
<1>3. cs = NoCS /\ t \in Threads /\ cont[t] = NoObj /\ owed[t] = NoObj
  BY <1>1, <1>2, CallerFacts, RunningOwed
<1>4. cont \in [Threads -> Mutexes \union {NoObj}]
  BY Parts
<1>5. ContFor(t, cont') /\ owed[t] \in {NoObj, m}
  BY <1>2, <1>3, <1>4 DEF ContFor
<1> QED BY <1>1, <1>2, <1>3, <1>5, LockSOwed

\* A condition wait goes on: after a timeout nothing is owed, otherwise the
\* mutex that is taken again is the one that is owed.
LEMMA ResumeOwed ==
    ASSUME IInv, OInv, NEW c \in Cores, CondResume(c)
    PROVE  OInv'
<1>1. PICK t : t = k.current[c]
  OBVIOUS
<1>2. /\ cs = NoCS /\ cont[t] # NoObj /\ cont' = [cont EXCEPT ![t] = NoObj]
      /\ IF k.rdymsg[t] = "TIMEOUT" THEN UNCHANGED <<k, objs, cs>> ELSE LockS(c, cont[t])
  BY <1>1 DEF CondResume, Resuming, TimedOut
<1>3. t \in Threads /\ k.state[t] = "CURRENT"
  BY <1>1, RunningOwed
<1>4. cont \in [Threads -> Mutexes \union {NoObj}] /\ ContsOK(k, cont, owner)
  BY Parts
<1>5. cont[t] \in Mutexes /\ owner[cont[t]] # t /\ ContFor(t, cont')
  BY <1>2, <1>3, <1>4 DEF ContsOK, ContFor
<1>6. cs.op # "lock" /\ Locking(k, cs, t) = NoObj /\ Owes(t)
  BY <1>2, <1>3, OutOfSection, NotLocking DEF OInv
<1>7. CASE k.rdymsg[t] = "TIMEOUT"
  <2>1. UNCHANGED <<k, wtobj, owed, cs>>
    BY <1>2, <1>7 DEF objs
  <2>2. owed[t] = NoObj
    BY <1>2, <1>3, <1>6, <1>7 DEF Owes, OwedOK
  <2>3. Owes(t)'
    BY <1>3, <1>5, <2>1, <2>2, SettledOwes DEF ContFor
  <2>4. \A u \in Threads \ {t} : Apart(u)
    BY <1>5, <1>6, <2>1, NotLocking DEF Apart, ContFor
  <2>5. \A u \in Threads \ {t} : Owes(u)'
    BY <2>4, ApartOwes
  <2> QED BY <2>1, <2>3, <2>5 DEF OInv
<1>8. CASE k.rdymsg[t] # "TIMEOUT"
  <2>1. owed[t] = cont[t]
    BY <1>2, <1>3, <1>6, <1>8 DEF Owes, OwedOK
  <2>2. LockS(c, cont[t])
    BY <1>2, <1>8
  <2> QED BY <1>1, <1>2, <1>3, <1>5, <2>1, <2>2, LockSOwed
<1> QED BY <1>7, <1>8

LEMMA NextOwed ==
    ASSUME IInv, OInv, [Next]_vars
    PROVE  OInv'
<1>1. CASE UNCHANGED vars
  <2>1. UNCHANGED <<k, wtobj, owed, cont, cs>>
    BY <1>1 DEF vars
  <2> QED BY <2>1 DEF OInv, Owes, OwedOK, Locking
<1>2. CASE Next
  <2>1. ASSUME NEW c \in Cores, MutexCall(c) PROVE OInv'
    BY <2>1, LockOwed, UnlockOwed, UnlockAllOwed, PriceOwed DEF MutexCall
  <2>2. ASSUME NEW c \in Cores, CondCall(c) PROVE OInv'
    BY <2>2, CondWaitOwed, SignalOwed, BroadcastOwed DEF CondCall
  <2>3. ASSUME NEW c \in Cores, chThdSleepS(c) PROVE OInv'
    BY <2>3, IrqOwed
  <2>4. ASSUME NEW c \in Cores, KernelIrq(c) PROVE OInv'
    BY <2>4, IrqOwed, TimeoutOwed DEF KernelIrq
  <2>5. ASSUME LockedStep PROVE OInv'
    BY <2>5, BoostOwed, LockSleepOwed, UnlockAllOwed, PriceOwed, BroadcastOwed, ResumeOwed
       DEF LockedStep
  <2> QED BY <1>2, <2>1, <2>2, <2>3, <2>4, <2>5 DEF Next
<1> QED BY <1>1, <1>2

\* What the condition waits owe is an invariant.
THEOREM InductiveOwed == Spec => []OInv
<1>1. Init => OInv
  BY DEF Init, OInv, Owes, OwedOK
<1>2. IInv /\ OInv /\ [Next]_vars => OInv'
  BY NextOwed
<1> QED BY <1>1, <1>2, Inductive, PTL DEF Spec

\* A thread that a signal or a broadcast took out of a condition variable owns
\* its mutex again before it returns from chCondWaitTimeoutS(), however late
\* the timeout callback comes; MSG_TIMEOUT is told to the others only.
THEOREM WaitReturns == Spec => []CondWaitReturnsOwner
<1>1. IInv /\ OInv => CondWaitReturnsOwner
  <2> SUFFICES ASSUME IInv, OInv PROVE CondWaitReturnsOwner
    OBVIOUS
  <2>1. ASSUME Unlocked, NEW c \in Cores PROVE owed[k.current[c]] = NoObj
    BY <2>1, RunningOwed DEF Unlocked, Resuming
  <2>2. ASSUME NEW t \in Threads, cont[t] # NoObj, k.state[t] # "WTCOND"
        PROVE  k.rdymsg[t] = "TIMEOUT" <=> owed[t] = NoObj
    BY <2>2 DEF OInv, Owes, OwedOK
  <2> QED BY <2>1, <2>2 DEF CondWaitReturnsOwner
<1> QED BY <1>1, Inductive, InductiveOwed, PTL

\* The history variable has its type too.
THEOREM TypeCorrect == Spec => []TypeOK
<1>1. IInv /\ OInv => TypeOK
  BY DEF IInv, OInv, TypeOK
<1> QED BY <1>1, Inductive, InductiveOwed, PTL
=============================================================================
