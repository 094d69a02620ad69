---------------------------- MODULE RtSemProofs ----------------------------
(***************************************************************************)
(* RtSem: type correctness, the consistency of the semaphores and that of  *)
(* the kernel under them, the account of units, and the refinement of      *)
(* SemSpec, for every number of cores, threads, priorities and semaphores. *)
(***************************************************************************)
EXTENDS RtSem, ChSchedProofs, FiniteSetTheorems

\* The states a thread of this component can be in.
SemStates == {"WTSTART", "CURRENT", "READY", "WTSEM"}

\* The queues of the semaphores agree with the states of the threads.
QueuesOK(kk, qu, wt) ==
    /\ qu \in [Sems -> Seq(Threads)]
    /\ wt \in [Threads -> Sems \union {NoSem}]
    /\ \A s \in Sems :
          /\ NoDuplicates(qu[s])
          /\ ToSet(qu[s]) = {t \in Threads : kk.state[t] = "WTSEM" /\ wt[t] = s}
          /\ SemPriority => SortedByPrio(qu[s], kk.prio)
    /\ \A t \in Threads : /\ kk.state[t] \in SemStates
                          /\ kk.state[t] = "WTSEM" => wt[t] \in Sems

\* The counters agree with the queues, except during a reset.
CountsOK(cn, qu, lp) ==
    \A s \in Sems :
        (lp.op = "reset" => lp.sem # s) =>
            Len(qu[s]) = IF cn[s] < 0 THEN - cn[s] ELSE 0

\* A reset has set its counter and leaves it not negative; the thread that
\* executes a loop is not interrupted.
LoopOK(kk, cn, lp) ==
    /\ lp.op = "reset" => cn[lp.sem] >= 0
    /\ lp.op # "none" => (lp.thread => lp.core \notin kk.isr)

IInv ==
    /\ TypeOK
    /\ KInv(k)
    /\ QueuesOK(k, queue, wtsem)
    /\ CountsOK(cnt, queue, loop)
    /\ LoopOK(k, cnt, loop)

\* A thread leaves the queue of its semaphore and the WTSEM state.
LEMMA TakeOut ==
    ASSUME NEW kk, NEW qu, NEW wt, QueuesOK(kk, qu, wt),
           NEW s \in Sems, NEW t \in ToSet(qu[s]),
           NEW q \in Seq(Threads), NoDuplicates(q), ToSet(q) = ToSet(qu[s]) \ {t},
           SemPriority => SortedByPrio(q, kk.prio),
           NEW r, Woken(kk, r, t)
    PROVE  QueuesOK(r, [qu EXCEPT ![s] = q], [wt EXCEPT ![t] = NoSem])
<1> USE DEF Woken
<1>1. t \in Threads /\ kk.state[t] = "WTSEM" /\ wt[t] = s
  BY DEF QueuesOK
<1>2. \A u \in Threads \ {t} :
         /\ (r.state[u] = "WTSEM") <=> (kk.state[u] = "WTSEM")
         /\ r.state[u] \in SemStates
  BY DEF Others, QueuesOK, SemStates
<1>3. ASSUME NEW z \in Sems
      PROVE  /\ NoDuplicates([qu EXCEPT ![s] = q][z])
             /\ ToSet([qu EXCEPT ![s] = q][z])
                   = {u \in Threads : r.state[u] = "WTSEM" /\ [wt EXCEPT ![t] = NoSem][u] = z}
             /\ SemPriority => SortedByPrio([qu EXCEPT ![s] = q][z], r.prio)
  <2>1. CASE z = s
    <3>1. [qu EXCEPT ![s] = q][z] = q
      BY <2>1 DEF QueuesOK
    <3>2. ToSet(qu[s]) = {u \in Threads : kk.state[u] = "WTSEM" /\ wt[u] = s}
      BY DEF QueuesOK
    <3>3. ToSet(q) = {u \in Threads : r.state[u] = "WTSEM" /\ [wt EXCEPT ![t] = NoSem][u] = z}
      BY <1>1, <1>2, <2>1, <3>2, SemAssumption DEF QueuesOK
    <3> QED BY <3>1, <3>3 DEF Others
  <2>2. CASE z # s
    <3>1. [qu EXCEPT ![s] = q][z] = qu[z]
      BY <2>2 DEF QueuesOK
    <3>2. ToSet(qu[z]) = {u \in Threads : kk.state[u] = "WTSEM" /\ wt[u] = z}
      BY DEF QueuesOK
    <3>3. ToSet(qu[z]) = {u \in Threads : r.state[u] = "WTSEM" /\ [wt EXCEPT ![t] = NoSem][u] = z}
      BY <1>1, <1>2, <2>2, <3>2, SemAssumption DEF QueuesOK
    <3> QED BY <3>1, <3>3 DEF Others, QueuesOK
  <2> QED BY <2>1, <2>2
<1>4. \A u \in Threads : /\ r.state[u] \in SemStates
                         /\ r.state[u] = "WTSEM" => [wt EXCEPT ![t] = NoSem][u] \in Sems
  BY <1>1, <1>2 DEF QueuesOK, SemStates
<1>5. [qu EXCEPT ![s] = q] \in [Sems -> Seq(Threads)]
      /\ [wt EXCEPT ![t] = NoSem] \in [Threads -> Sems \union {NoSem}]
  BY DEF QueuesOK
<1> QED BY <1>3, <1>4, <1>5 DEF QueuesOK

\* A thread goes into the queue of a semaphore and the WTSEM state.
LEMMA PutIn ==
    ASSUME NEW kk, NEW qu, NEW wt, QueuesOK(kk, qu, wt),
           NEW s \in Sems, NEW t \in Threads, kk.state[t] # "WTSEM",
           NEW q \in Seq(Threads), NoDuplicates(q), ToSet(q) = ToSet(qu[s]) \union {t},
           SemPriority => SortedByPrio(q, kk.prio),
           NEW r, Asleep(kk, r, t, "WTSEM")
    PROVE  QueuesOK(r, [qu EXCEPT ![s] = q], [wt EXCEPT ![t] = s])
<1> USE DEF Asleep
<1>2. \A u \in Threads \ {t} :
         /\ (r.state[u] = "WTSEM") <=> (kk.state[u] = "WTSEM")
         /\ r.state[u] \in SemStates
  BY DEF Others, QueuesOK, SemStates
<1>3. ASSUME NEW z \in Sems
      PROVE  /\ NoDuplicates([qu EXCEPT ![s] = q][z])
             /\ ToSet([qu EXCEPT ![s] = q][z])
                   = {u \in Threads : r.state[u] = "WTSEM" /\ [wt EXCEPT ![t] = s][u] = z}
             /\ SemPriority => SortedByPrio([qu EXCEPT ![s] = q][z], r.prio)
  <2>1. CASE z = s
    <3>1. [qu EXCEPT ![s] = q][z] = q
      BY <2>1 DEF QueuesOK
    <3>2. ToSet(qu[s]) = {u \in Threads : kk.state[u] = "WTSEM" /\ wt[u] = s}
      BY DEF QueuesOK
    <3>3. ToSet(q) = {u \in Threads : r.state[u] = "WTSEM" /\ [wt EXCEPT ![t] = s][u] = z}
      BY <1>2, <2>1, <3>2 DEF QueuesOK
    <3> QED BY <3>1, <3>3 DEF Others
  <2>2. CASE z # s
    <3>1. [qu EXCEPT ![s] = q][z] = qu[z]
      BY <2>2 DEF QueuesOK
    <3>2. ToSet(qu[z]) = {u \in Threads : kk.state[u] = "WTSEM" /\ wt[u] = z}
      BY DEF QueuesOK
    <3>3. ToSet(qu[z]) = {u \in Threads : r.state[u] = "WTSEM" /\ [wt EXCEPT ![t] = s][u] = z}
      BY <1>2, <2>2, <3>2 DEF QueuesOK
    <3> QED BY <3>1, <3>3 DEF Others, QueuesOK
  <2> QED BY <2>1, <2>2
<1>4. \A u \in Threads : /\ r.state[u] \in SemStates
                         /\ r.state[u] = "WTSEM" => [wt EXCEPT ![t] = s][u] \in Sems
  BY <1>2 DEF QueuesOK, SemStates
<1>5. [qu EXCEPT ![s] = q] \in [Sems -> Seq(Threads)]
      /\ [wt EXCEPT ![t] = s] \in [Threads -> Sems \union {NoSem}]
  BY DEF QueuesOK
<1> QED BY <1>3, <1>4, <1>5 DEF QueuesOK

\* A change of the kernel that no waiting thread notices; t, if it changes
\* state, was not waiting and does not wait afterwards.
LEMMA NoQueue ==
    ASSUME NEW kk, NEW qu, NEW wt, QueuesOK(kk, qu, wt), NEW r, NEW Y, Others(kk, r, Y),
           \A t \in Threads \intersect Y : 
              kk.state[t] # "WTSEM" /\ r.state[t] \in {"READY", "CURRENT"}
    PROVE  QueuesOK(r, qu, wt)
<1>1. \A u \in Threads : /\ (r.state[u] = "WTSEM") <=> (kk.state[u] = "WTSEM")
                         /\ r.state[u] \in SemStates
  BY DEF Others, QueuesOK, SemStates
<1>2. \A z \in Sems : {u \in Threads : r.state[u] = "WTSEM" /\ wt[u] = z}
                      = {u \in Threads : kk.state[u] = "WTSEM" /\ wt[u] = z}
  BY <1>1
<1> QED BY <1>1, <1>2 DEF QueuesOK, Others

\* The first thread of a queue, and the queue without it.
LEMMA HeadOut ==
    ASSUME NEW kk \in KernelType, NEW qu, NEW wt, QueuesOK(kk, qu, wt), NEW s \in Sems, qu[s] # <<>>
    PROVE  /\ Head(qu[s]) \in ToSet(qu[s]) /\ Head(qu[s]) \in Threads
           /\ kk.state[Head(qu[s])] = "WTSEM"
           /\ Tail(qu[s]) \in Seq(Threads) /\ NoDuplicates(Tail(qu[s]))
           /\ ToSet(Tail(qu[s])) = ToSet(qu[s]) \ {Head(qu[s])}
           /\ SemPriority => SortedByPrio(Tail(qu[s]), kk.prio)
           /\ Len(qu[s]) > 0 /\ Len(Tail(qu[s])) = Len(qu[s]) - 1
<1>1. /\ qu[s] \in Seq(Threads) /\ NoDuplicates(qu[s])
      /\ ToSet(qu[s]) = {t \in Threads : kk.state[t] = "WTSEM" /\ wt[t] = s}
      /\ SemPriority => SortedByPrio(qu[s], kk.prio)
  BY DEF QueuesOK
<1>2. /\ Head(qu[s]) \in ToSet(qu[s]) /\ Tail(qu[s]) \in Seq(Threads)
      /\ Len(Tail(qu[s])) = Len(qu[s]) - 1 /\ NoDuplicates(Tail(qu[s]))
      /\ ToSet(Tail(qu[s])) = ToSet(qu[s]) \ {Head(qu[s])}
  BY <1>1, FifoRemoveSet
<1>3. kk.prio \in [Threads -> Nat]
  BY DEF KernelType, Prios
<1>4. SemPriority => SortedByPrio(Tail(qu[s]), kk.prio)
  BY <1>1, <1>3, RemoveSorted
<1>5. Len(qu[s]) > 0
  BY <1>1, EmptySeq, LenProperties
<1> QED BY <1>1, <1>2, <1>4, <1>5

\* With a negative counter, and no reset going on, somebody waits.
LEMMA NegativeWaits ==
    ASSUME IInv, NEW s \in Sems, loop.op # "reset", cnt[s] + 1 <= 0
    PROVE  queue[s] # <<>> /\ Head(queue[s]) \in Threads /\ k.state[Head(queue[s])] = "WTSEM"
<1>1. cnt[s] \in Int /\ queue[s] \in Seq(Threads) /\ k \in KernelType
  BY SemAssumption DEF IInv, TypeOK, Counters
<1>2. Len(queue[s]) = - cnt[s]
  BY <1>1 DEF IInv, CountsOK
<1>3. queue[s] # <<>>
  BY <1>1, <1>2
<1> QED BY <1>1, <1>3, HeadOut DEF IInv

\* A unit more: the head of the queue is woken if there is one.
LEMMA SignalStep ==
    ASSUME IInv, NEW s \in Sems, loop.op # "reset", cnt[s] < MaxCount,
           cnt' = [cnt EXCEPT ![s] = @ + 1],
           \/ /\ cnt[s] + 1 <= 0
              /\ Woken(k, k', Head(queue[s]))
              /\ wtsem' = [wtsem EXCEPT ![Head(queue[s])] = NoSem]
              /\ queue' = [queue EXCEPT ![s] = ch_queue_fifo_remove(@)]
           \/ /\ cnt[s] + 1 > 0
              /\ Others(k, k', {})
              /\ UNCHANGED <<wtsem, queue>>
    PROVE  /\ QueuesOK(k', queue', wtsem')
           /\ cnt' \in [Sems -> Counters]
           /\ \A z \in Sems : Len(queue'[z]) = IF cnt'[z] < 0 THEN - cnt'[z] ELSE 0
<1>1. /\ cnt \in [Sems -> Counters] /\ queue \in [Sems -> Seq(Threads)] /\ k \in KernelType
      /\ QueuesOK(k, queue, wtsem)
      /\ \A z \in Sems : Len(queue[z]) = IF cnt[z] < 0 THEN - cnt[z] ELSE 0
  BY DEF IInv, TypeOK, CountsOK
<1>2. \A z \in Sems : cnt[z] \in Int /\ - MaxCount - 1 <= cnt[z] /\ cnt[z] <= MaxCount
  BY <1>1, SemAssumption DEF Counters
<1>3. cnt' \in [Sems -> Counters]
  BY <1>1, <1>2, SemAssumption DEF Counters
<1>4. CASE /\ cnt[s] + 1 <= 0
           /\ Woken(k, k', Head(queue[s]))
           /\ wtsem' = [wtsem EXCEPT ![Head(queue[s])] = NoSem]
           /\ queue' = [queue EXCEPT ![s] = ch_queue_fifo_remove(@)]
  <2>1. queue[s] # <<>>
    BY <1>4, NegativeWaits
  <2>2. PICK t, q : t = Head(queue[s]) /\ q = Tail(queue[s])
    OBVIOUS
  <2>3. /\ t \in ToSet(queue[s]) /\ q \in Seq(Threads) /\ NoDuplicates(q)
        /\ ToSet(q) = ToSet(queue[s]) \ {t}
        /\ SemPriority => SortedByPrio(q, k.prio)
        /\ Len(q) = Len(queue[s]) - 1
    BY <1>1, <2>1, <2>2, HeadOut
  <2>4. QueuesOK(k', [queue EXCEPT ![s] = q], [wtsem EXCEPT ![t] = NoSem])
    BY <1>1, <1>4, <2>2, <2>3, TakeOut
  <2>5. queue' = [queue EXCEPT ![s] = q] /\ wtsem' = [wtsem EXCEPT ![t] = NoSem]
    BY <1>4, <2>2 DEF ch_queue_fifo_remove
  <2>6. \A z \in Sems : Len(queue'[z]) = IF cnt'[z] < 0 THEN - cnt'[z] ELSE 0
    BY <1>1, <1>2, <1>4, <2>3, <2>5
  <2> QED BY <1>3, <2>4, <2>5, <2>6
<1>5. CASE cnt[s] + 1 > 0 /\ Others(k, k', {}) /\ UNCHANGED <<wtsem, queue>>
  <2>1. QueuesOK(k', queue', wtsem')
    BY <1>1, <1>5, NoQueue
  <2>2. \A z \in Sems : Len(queue'[z]) = IF cnt'[z] < 0 THEN - cnt'[z] ELSE 0
    BY <1>1, <1>2, <1>5
  <2> QED BY <1>3, <2>1, <2>2
<1> QED BY <1>4, <1>5

\* What a step has to establish.
LEMMA Pieces ==
    ASSUME KInv(k'), QueuesOK(k', queue', wtsem'), CountsOK(cnt', queue', loop'),
           LoopOK(k', cnt', loop'),
           cnt' \in [Sems -> Counters], call' \in [Threads -> Sems \union {NoSem}],
           loop' \in Loops \union {NoLoop}, credit' \in [Sems -> Int]
    PROVE  IInv'
BY DEF IInv, TypeOK, KInv, KInvX, QueuesOK

\* What a step can use when no loop is going on.
LEMMA Quiet ==
    ASSUME IInv, loop = NoLoop
    PROVE  /\ k \in KernelType /\ KInv(k) /\ QueuesOK(k, queue, wtsem)
           /\ loop.op = "none" /\ loop.op # "reset"
           /\ \A z \in Sems : /\ Len(queue[z]) = IF cnt[z] < 0 THEN - cnt[z] ELSE 0
                              /\ cnt[z] \in Int /\ - MaxCount - 1 <= cnt[z] /\ cnt[z] <= MaxCount
           /\ cnt \in [Sems -> Counters] /\ call \in [Threads -> Sems \union {NoSem}]
           /\ credit \in [Sems -> Int] /\ queue \in [Sems -> Seq(Threads)]
           /\ wtsem \in [Threads -> Sems \union {NoSem}]
<1>1. k \in KernelType /\ KInv(k) /\ QueuesOK(k, queue, wtsem) /\ CountsOK(cnt, queue, loop)
      /\ cnt \in [Sems -> Counters] /\ call \in [Threads -> Sems \union {NoSem}]
      /\ credit \in [Sems -> Int] /\ queue \in [Sems -> Seq(Threads)]
      /\ wtsem \in [Threads -> Sems \union {NoSem}]
  BY DEF IInv, TypeOK
<1>2. loop.op = "none" /\ loop.op # "reset"
  BY DEF NoLoop
<1>3. \A z \in Sems : cnt[z] \in Int /\ - MaxCount - 1 <= cnt[z] /\ cnt[z] <= MaxCount
  BY <1>1, SemAssumption DEF Counters
<1>4. \A z \in Sems : Len(queue[z]) = IF cnt[z] < 0 THEN - cnt[z] ELSE 0
  BY <1>1, <1>2 DEF CountsOK
<1> QED BY <1>1, <1>2, <1>3, <1>4

\* A running thread that makes a call: no handler, hence no callback, is
\* active on its core.
LEMMA CallerFacts ==
    ASSUME IInv, NEW c \in Cores, Caller(c)
    PROVE  /\ loop = NoLoop /\ InThread(k, c) /\ k.firing[c] = NoThread /\ c \notin k.isr
           /\ k.current[c] \in Threads /\ k.state[k.current[c]] = "CURRENT"
           /\ k.state[k.current[c]] # "WTSEM"
<1>1. loop = NoLoop /\ InThread(k, c) /\ c \notin k.isr /\ KInv(k)
  BY DEF Caller, InThread, IInv
<1>2. k.firing[c] = NoThread
  BY <1>1, InThreadFiring
<1>3. k.current[c] \in Threads /\ k.state[k.current[c]] = "CURRENT"
  BY <1>1 DEF KInv, KInvX, KernelType
<1> QED BY <1>1, <1>2, <1>3

\* sem_insert() adds the thread to the queue, in its place.
LEMMA SemInsert ==
    ASSUME k \in KernelType, NEW q \in Seq(Threads), NoDuplicates(q),
           SemPriority => SortedByPrio(q, k.prio), NEW t \in Threads, t \notin ToSet(q),
           NEW r, r = sem_insert(q, t)
    PROVE  /\ r \in Seq(Threads) /\ NoDuplicates(r) /\ ToSet(r) = ToSet(q) \union {t}
           /\ Len(r) = Len(q) + 1
           /\ SemPriority => SortedByPrio(r, k.prio)
<1>1. CASE SemPriority
  <2>1. r = ch_pqueue_insert_behind(q, t, k.prio)
    BY <1>1 DEF sem_insert, ch_sch_prio_insert
  <2>2. k.prio \in [Threads -> Nat]
    BY DEF KernelType, Prios
  <2>3. SortedByPrio(q, k.prio) /\ NoDuplicates(q)
    BY <1>1
  <2>4. r \in Seq(Threads) /\ Len(r) = Len(q) + 1 /\ ToSet(r) = ToSet(q) \union {t}
    BY <2>1, <2>2, PrioInsertSet
  <2>5. NoDuplicates(r)
    BY <2>1, <2>2, <2>3, PrioInsertSet
  <2>6. SortedByPrio(r, k.prio)
    BY <2>1, <2>2, <2>3, PrioInsertSet
  <2> QED BY <2>4, <2>5, <2>6
<1>2. CASE ~ SemPriority
  <2>1. r = ch_queue_insert(q, t)
    BY <1>2 DEF sem_insert
  <2>2. /\ ch_queue_insert(q, t) \in Seq(Threads)
        /\ Len(ch_queue_insert(q, t)) = Len(q) + 1
        /\ ToSet(ch_queue_insert(q, t)) = ToSet(q) \union {t}
    BY QueueInsertSet
  <2>3. NoDuplicates(r)
    BY <2>1, QueueInsertSet
  <2> QED BY <1>2, <2>1, <2>2, <2>3
<1> QED BY <1>1, <1>2

\* A running thread joins the queue of s and sleeps.
LEMMA WaitStep ==
    ASSUME k \in KernelType, NEW kk \in KernelType, kk.prio = k.prio,
           NEW qu, NEW wt, QueuesOK(kk, qu, wt), NEW s \in Sems,
           NEW t \in Threads, kk.state[t] = "CURRENT",
           NEW r, Asleep(kk, r, t, "WTSEM")
    PROVE  /\ QueuesOK(r, [qu EXCEPT ![s] = sem_insert(@, t)], [wt EXCEPT ![t] = s])
           /\ Len(sem_insert(qu[s], t)) = Len(qu[s]) + 1
<1>1. /\ qu[s] \in Seq(Threads) /\ NoDuplicates(qu[s]) /\ t \notin ToSet(qu[s])
      /\ SemPriority => SortedByPrio(qu[s], k.prio)
  BY DEF QueuesOK
<1>2. PICK q : q = sem_insert(qu[s], t)
  OBVIOUS
<1>3. /\ q \in Seq(Threads) /\ NoDuplicates(q) /\ ToSet(q) = ToSet(qu[s]) \union {t}
      /\ Len(q) = Len(qu[s]) + 1
      /\ SemPriority => SortedByPrio(q, kk.prio)
  BY <1>1, <1>2, SemInsert
<1>4. kk.state[t] # "WTSEM"
  OBVIOUS
<1>5. QueuesOK(r, [qu EXCEPT ![s] = q], [wt EXCEPT ![t] = s])
  BY <1>3, <1>4, PutIn
<1> QED BY <1>2, <1>3, <1>5

-----------------------------------------------------------------------------
(* One lemma per action *)

\* chSemWaitTimeoutS(), TIME_INFINITE included, preserves the invariant.
LEMMA WaitInv ==
    ASSUME IInv, NEW c \in Cores, NEW s \in Sems, NEW timed \in BOOLEAN,
           chSemWaitTimeoutS(c, s, timed)
    PROVE  IInv'
<1>1. Caller(c) /\ cnt[s] > - MaxCount - 1 /\ cnt' = [cnt EXCEPT ![s] = @ - 1] /\ loop' = loop
  BY DEF chSemWaitTimeoutS
<1>2. /\ loop = NoLoop /\ InThread(k, c) /\ k.firing[c] = NoThread
      /\ k.current[c] \in Threads /\ k.state[k.current[c]] = "CURRENT"
  BY <1>1, CallerFacts
<1>3. /\ k \in KernelType /\ KInv(k) /\ QueuesOK(k, queue, wtsem) /\ loop.op = "none"
      /\ \A z \in Sems : /\ Len(queue[z]) = IF cnt[z] < 0 THEN - cnt[z] ELSE 0
                         /\ cnt[z] \in Int /\ - MaxCount - 1 <= cnt[z] /\ cnt[z] <= MaxCount
      /\ cnt \in [Sems -> Counters] /\ call \in [Threads -> Sems \union {NoSem}]
      /\ credit \in [Sems -> Int] /\ queue \in [Sems -> Seq(Threads)]
  BY <1>2, Quiet
<1>4. cnt' \in [Sems -> Counters]
  BY <1>1, <1>3, SemAssumption DEF Counters
<1>5. LoopOK(k', cnt', loop') /\ loop' \in Loops \union {NoLoop}
  BY <1>1, <1>2, <1>3 DEF LoopOK
<1>6. CASE cnt[s] - 1 < 0 /\ GoWait(k, c, s, timed) /\ credit' = credit
  <2>1. PICK t : t = k.current[c]
    OBVIOUS
  <2>2. /\ queue' = [queue EXCEPT ![s] = sem_insert(@, t)]
        /\ wtsem' = [wtsem EXCEPT ![t] = s] /\ call' = [call EXCEPT ![t] = s]
        /\ k' = chSchGoSleepTimeoutS(k, c, "WTSEM", timed)
    BY <1>6, <2>1 DEF GoWait
  <2>3. "WTSEM" \in TimedStates \ {"READY"}
    BY DEF TimedStates, States
  <2>4. KInv(k')
    BY <1>2, <1>3, <2>2, <2>3, GoSleepInv
  <2>5. Asleep(k, k', k.current[c], "WTSEM")
    BY <1>2, <1>3, <2>2, <2>3, GoSleepInv
  <2>6. Asleep(k, k', t, "WTSEM")
    BY <2>1, <2>5
  <2>7. QueuesOK(k', queue', wtsem') /\ Len(sem_insert(queue[s], t)) = Len(queue[s]) + 1
    BY <1>2, <1>3, <2>1, <2>2, <2>6, WaitStep
  <2>8. CountsOK(cnt', queue', loop')
    BY <1>1, <1>3, <1>6, <2>2, <2>7 DEF CountsOK
  <2>9. call' \in [Threads -> Sems \union {NoSem}]
    BY <1>3, <2>2
  <2>10. credit' \in [Sems -> Int]
    BY <1>3, <1>6
  <2> QED BY <1>4, <1>5, <2>4, <2>7, <2>8, <2>9, <2>10, Pieces
<1>7. CASE /\ cnt[s] - 1 >= 0 /\ credit' = [credit EXCEPT ![s] = @ - 1]
           /\ UNCHANGED <<k, queue, wtsem, call>>
  <2>1. CountsOK(cnt', queue', loop')
    BY <1>1, <1>3, <1>7 DEF CountsOK
  <2>2. credit' \in [Sems -> Int]
    BY <1>3, <1>7
  <2>3. KInv(k') /\ QueuesOK(k', queue', wtsem') /\ call' \in [Threads -> Sems \union {NoSem}]
    BY <1>3, <1>7
  <2> QED BY <1>4, <1>5, <2>1, <2>2, <2>3, Pieces
<1> QED BY <1>6, <1>7 DEF chSemWaitTimeoutS

\* A wait that finds a unit and may not sleep.
LEMMA ImmediateInv ==
    ASSUME IInv, NEW c \in Cores, NEW s \in Sems, WaitImmediate(c, s)
    PROVE  IInv'
<1>1. /\ cnt[s] > 0 /\ cnt' = [cnt EXCEPT ![s] = @ - 1] /\ credit' = [credit EXCEPT ![s] = @ - 1]
      /\ UNCHANGED <<k, queue, wtsem, call, loop>> /\ loop = NoLoop
  BY DEF WaitImmediate, Caller
<1>3. /\ KInv(k) /\ QueuesOK(k, queue, wtsem) /\ loop.op = "none"
      /\ \A z \in Sems : /\ Len(queue[z]) = IF cnt[z] < 0 THEN - cnt[z] ELSE 0
                         /\ cnt[z] \in Int /\ - MaxCount - 1 <= cnt[z] /\ cnt[z] <= MaxCount
      /\ cnt \in [Sems -> Counters] /\ call \in [Threads -> Sems \union {NoSem}]
      /\ credit \in [Sems -> Int]
  BY <1>1, Quiet
<1>4. cnt' \in [Sems -> Counters]
  BY <1>1, <1>3, SemAssumption DEF Counters
<1>5. LoopOK(k', cnt', loop') /\ loop' \in Loops \union {NoLoop}
  BY <1>1, <1>3 DEF LoopOK
<1>6. CountsOK(cnt', queue', loop')
  BY <1>1, <1>3 DEF CountsOK
<1>7. credit' \in [Sems -> Int]
  BY <1>1, <1>3
<1>8. KInv(k') /\ QueuesOK(k', queue', wtsem') /\ call' \in [Threads -> Sems \union {NoSem}]
  BY <1>1, <1>3
<1> QED BY <1>4, <1>5, <1>6, <1>7, <1>8, Pieces

\* The return of a wait only moves the ghost variables.
LEMMA ReturnInv ==
    ASSUME IInv, NEW c \in Cores, Return(c)
    PROVE  IInv'
<1>1. PICK t, n : /\ t = k.current[c] /\ call[t] # NoSem
                  /\ n = IF k.rdymsg[t] = "OK" THEN credit[call[t]] - 1 ELSE credit[call[t]]
                  /\ credit' = [credit EXCEPT ![call[t]] = n]
                  /\ call' = [call EXCEPT ![t] = NoSem]
                  /\ UNCHANGED <<k, cnt, queue, wtsem, loop>>
  BY DEF Return
<1>2. k.current[c] \in Threads /\ credit \in [Sems -> Int] /\ call \in [Threads -> Sems \union {NoSem}]
  BY DEF IInv, TypeOK, KernelType
<1>3. n \in Int
  BY <1>1, <1>2
<1>4. credit' \in [Sems -> Int] /\ call' \in [Threads -> Sems \union {NoSem}]
  BY <1>1, <1>2, <1>3
<1> QED BY <1>1, <1>4 DEF IInv, TypeOK

\* The part of a signal that does not depend on how the thread is woken.
LEMMA SignalPieces ==
    ASSUME IInv, NEW s \in Sems, loop.op # "reset", cnt[s] < MaxCount, KInv(k'),
           cnt' = [cnt EXCEPT ![s] = @ + 1], credit' = [credit EXCEPT ![s] = @ + 1],
           \/ /\ cnt[s] + 1 <= 0
              /\ Woken(k, k', Head(queue[s]))
              /\ wtsem' = [wtsem EXCEPT ![Head(queue[s])] = NoSem]
              /\ queue' = [queue EXCEPT ![s] = ch_queue_fifo_remove(@)]
           \/ /\ cnt[s] + 1 > 0
              /\ Others(k, k', {})
              /\ UNCHANGED <<wtsem, queue>>,
           loop'.op = loop.op, loop' \in Loops \union {NoLoop}, LoopOK(k', cnt', loop'),
           call' = call
    PROVE  IInv'
<1>1. QueuesOK(k', queue', wtsem')
  BY SignalStep
<1>2. cnt' \in [Sems -> Counters]
  BY SignalStep
<1>3. CountsOK(cnt', queue', loop')
  <2>1. \A z \in Sems : Len(queue'[z]) = IF cnt'[z] < 0 THEN - cnt'[z] ELSE 0
    BY SignalStep
  <2> QED BY <2>1 DEF CountsOK
<1>4. credit' \in [Sems -> Int] /\ call' \in [Threads -> Sems \union {NoSem}]
  BY DEF IInv, TypeOK
<1> QED BY <1>1, <1>2, <1>3, <1>4, Pieces

\* chSemSignal(), which may switch to the woken thread.
LEMMA SignalInv ==
    ASSUME IInv, NEW c \in Cores, NEW s \in Sems, chSemSignal(c, s)
    PROVE  IInv'
<1>1. /\ Caller(c) /\ cnt[s] < MaxCount
      /\ cnt' = [cnt EXCEPT ![s] = @ + 1] /\ credit' = [credit EXCEPT ![s] = @ + 1]
      /\ call' = call /\ loop' = loop
      /\ \/ /\ cnt[s] + 1 <= 0
            /\ k' = chSchWakeupS(k, c, Head(queue[s]), "OK")
            /\ wtsem' = [wtsem EXCEPT ![Head(queue[s])] = NoSem]
            /\ queue' = [queue EXCEPT ![s] = ch_queue_fifo_remove(@)]
         \/ /\ cnt[s] + 1 > 0
            /\ k' = k /\ UNCHANGED <<wtsem, queue>>
  BY DEF chSemSignal, Signal
<1>2. loop = NoLoop /\ k.firing[c] = NoThread /\ loop.op = "none" /\ loop.op # "reset" /\ KInv(k)
  BY <1>1, CallerFacts, Quiet
<1>l. loop'.op = loop.op /\ loop' \in Loops \union {NoLoop} /\ LoopOK(k', cnt', loop')
  BY <1>1, <1>2 DEF LoopOK
<1>c. cnt[s] \in Int
  BY SemAssumption DEF IInv, TypeOK, Counters
<1>3. CASE cnt[s] + 1 <= 0
  <2>0. /\ k' = chSchWakeupS(k, c, Head(queue[s]), "OK")
        /\ wtsem' = [wtsem EXCEPT ![Head(queue[s])] = NoSem]
        /\ queue' = [queue EXCEPT ![s] = ch_queue_fifo_remove(@)]
    BY <1>1, <1>3, <1>c
  <2>1. PICK t : t = Head(queue[s]) /\ t \in Threads /\ k.state[t] = "WTSEM"
    BY <1>2, <1>3, NegativeWaits
  <2>2. k.state[t] \notin {"READY", "CURRENT"} /\ "OK" \in Messages
    BY <2>1, KernelAssumption
  <2>3. k' = chSchWakeupS(k, c, t, "OK")
    BY <2>0, <2>1
  <2>4. KInv(k') /\ Woken(k, k', t)
    BY <1>2, <2>1, <2>2, <2>3, WakeupSInv
  <2>5. Woken(k, k', Head(queue[s]))
    BY <2>1, <2>4
  <2> QED BY <1>1, <1>2, <1>3, <1>l, <2>0, <2>4, <2>5, SignalPieces
<1>4. CASE cnt[s] + 1 > 0
  <2>1. k' = k /\ UNCHANGED <<wtsem, queue>>
    BY <1>1, <1>4, <1>c
  <2>2. Others(k, k', {}) /\ KInv(k')
    BY <1>2, <2>1 DEF Others
  <2> QED BY <1>1, <1>2, <1>4, <1>l, <2>1, <2>2, SignalPieces
<1> QED BY <1>3, <1>4, <1>c

\* chSemSignalI() in an interrupt handler, which only makes it ready.
LEMMA SignalIInv ==
    ASSUME IInv, NEW c \in Cores, NEW s \in Sems, chSemSignalI(c, s)
    PROVE  IInv'
<1>0. PICK kk : kk = EnterIsr(k, c)
  OBVIOUS
<1>1. /\ loop = NoLoop /\ cnt[s] < MaxCount
      /\ cnt' = [cnt EXCEPT ![s] = @ + 1] /\ credit' = [credit EXCEPT ![s] = @ + 1]
      /\ call' = call /\ loop' = loop
      /\ \/ /\ cnt[s] + 1 <= 0
            /\ k' = ReadyWithMsg(kk, c, Head(queue[s]), "OK")
            /\ wtsem' = [wtsem EXCEPT ![Head(queue[s])] = NoSem]
            /\ queue' = [queue EXCEPT ![s] = ch_queue_fifo_remove(@)]
         \/ /\ cnt[s] + 1 > 0
            /\ k' = kk /\ UNCHANGED <<wtsem, queue>>
  BY <1>0 DEF chSemSignalI, Signal
<1>2. loop.op = "none" /\ loop.op # "reset" /\ KInv(k)
  BY <1>1, Quiet
<1>k. KInv(kk) /\ Others(k, kk, {}) /\ kk.state = k.state
  BY <1>0, <1>2, EnterIsrInv
<1>l. loop'.op = loop.op /\ loop' \in Loops \union {NoLoop} /\ LoopOK(k', cnt', loop')
  BY <1>1, <1>2 DEF LoopOK
<1>c. cnt[s] \in Int
  BY SemAssumption DEF IInv, TypeOK, Counters
<1>3. CASE cnt[s] + 1 <= 0
  <2>0. /\ k' = ReadyWithMsg(kk, c, Head(queue[s]), "OK")
        /\ wtsem' = [wtsem EXCEPT ![Head(queue[s])] = NoSem]
        /\ queue' = [queue EXCEPT ![s] = ch_queue_fifo_remove(@)]
    BY <1>1, <1>3, <1>c
  <2>1. PICK t : t = Head(queue[s]) /\ t \in Threads /\ k.state[t] = "WTSEM"
    BY <1>2, <1>3, NegativeWaits
  <2>2. kk.state[t] \notin {"READY", "CURRENT"} /\ "OK" \in Messages
    BY <1>k, <2>1, KernelAssumption
  <2>3. k' = ReadyWithMsg(kk, c, t, "OK")
    BY <2>0, <2>1
  <2>4. KInv(k') /\ Woken(kk, k', t)
    BY <1>k, <2>1, <2>2, <2>3, ReadyWithMsgInv
  <2>5. Woken(k, k', Head(queue[s]))
    BY <1>k, <2>1, <2>4 DEF Woken, Others
  <2> QED BY <1>1, <1>2, <1>3, <1>l, <2>0, <2>4, <2>5, SignalPieces
<1>4. CASE cnt[s] + 1 > 0
  <2>1. k' = kk /\ UNCHANGED <<wtsem, queue>>
    BY <1>1, <1>4, <1>c
  <2> QED BY <1>1, <1>2, <1>4, <1>k, <1>l, <2>1, SignalPieces
<1> QED BY <1>3, <1>4, <1>c

\* The loop variable while a loop is going on.
LEMMA LoopFacts ==
    ASSUME IInv, loop.op \in {"reset", "add"}
    PROVE  /\ loop \in Loops /\ loop.core \in Cores /\ loop.sem \in Sems /\ loop.left \in Nat
           /\ loop.thread \in BOOLEAN
<1>1. loop \in Loops
  BY DEF IInv, TypeOK, NoLoop
<1> QED BY <1>1 DEF Loops

\* One iteration of chSemAddCounterI().
LEMMA AddIterationInv ==
    ASSUME IInv, AddIteration
    PROVE  IInv'
<1>0. PICK c, s : c = loop.core /\ s = loop.sem
  OBVIOUS
<1>f. loop.op = "add" /\ loop.op # "reset" /\ loop.left > 0 /\ call' = call
      /\ loop' = [loop EXCEPT !.left = @ - 1]
  BY DEF AddIteration
<1>g. loop \in Loops /\ c \in Cores /\ s \in Sems /\ loop.left \in Nat /\ KInv(k)
  BY <1>0, <1>f, LoopFacts DEF IInv
<1>1. /\ cnt[s] < MaxCount
      /\ cnt' = [cnt EXCEPT ![s] = @ + 1] /\ credit' = [credit EXCEPT ![s] = @ + 1]
      /\ \/ /\ cnt[s] + 1 <= 0
            /\ k' = ReadyWithMsg(k, c, Head(queue[s]), "OK")
            /\ wtsem' = [wtsem EXCEPT ![Head(queue[s])] = NoSem]
            /\ queue' = [queue EXCEPT ![s] = ch_queue_fifo_remove(@)]
         \/ /\ cnt[s] + 1 > 0
            /\ k' = k /\ UNCHANGED <<wtsem, queue>>
  BY <1>0 DEF AddIteration, Signal
<1>l. /\ loop' \in Loops /\ loop'.op = loop.op /\ loop'.op = "add"
      /\ loop'.thread = loop.thread /\ loop'.core = loop.core
  BY <1>f, <1>g DEF Loops
<1>m. loop' \in Loops \union {NoLoop}
  BY <1>l
<1>n. k'.isr = k.isr => LoopOK(k', cnt', loop')
  BY <1>f, <1>l DEF LoopOK, IInv
<1>c. cnt[s] \in Int
  BY <1>g, SemAssumption DEF IInv, TypeOK, Counters
<1>3. CASE cnt[s] + 1 <= 0
  <2>0. /\ k' = ReadyWithMsg(k, c, Head(queue[s]), "OK")
        /\ wtsem' = [wtsem EXCEPT ![Head(queue[s])] = NoSem]
        /\ queue' = [queue EXCEPT ![s] = ch_queue_fifo_remove(@)]
    BY <1>1, <1>3, <1>c
  <2>1. PICK t : t = Head(queue[s]) /\ t \in Threads /\ k.state[t] = "WTSEM"
    BY <1>f, <1>g, <1>3, NegativeWaits
  <2>2. k.state[t] \notin {"READY", "CURRENT"} /\ "OK" \in Messages
    BY <2>1, KernelAssumption
  <2>3. k' = ReadyWithMsg(k, c, t, "OK")
    BY <2>0, <2>1
  <2>4. KInv(k') /\ Woken(k, k', t)
    BY <1>g, <2>1, <2>2, <2>3, ReadyWithMsgInv
  <2>5. k'.isr = k.isr
    BY <1>g, <2>1, <2>2, <2>3, ReadyWithMsgInv
  <2>6. Woken(k, k', Head(queue[s])) /\ LoopOK(k', cnt', loop')
    BY <1>n, <2>1, <2>4, <2>5
  <2> QED BY <1>f, <1>g, <1>1, <1>3, <1>l, <1>m, <2>0, <2>4, <2>6, SignalPieces
<1>4. CASE cnt[s] + 1 > 0
  <2>1. k' = k /\ UNCHANGED <<wtsem, queue>>
    BY <1>1, <1>4, <1>c
  <2>2. Others(k, k', {}) /\ KInv(k') /\ LoopOK(k', cnt', loop')
    BY <1>g, <1>n, <2>1 DEF Others
  <2> QED BY <1>f, <1>g, <1>1, <1>4, <1>l, <1>m, <2>1, <2>2, SignalPieces
<1> QED BY <1>3, <1>4, <1>c

\* One iteration of chSemResetWithMessageI(): the counter, already set,
\* disagrees with the queue until the queue is empty.
LEMMA ResetIterationInv ==
    ASSUME IInv, ResetIteration
    PROVE  IInv'
<1>0. PICK c, s : c = loop.core /\ s = loop.sem
  OBVIOUS
<1>1. /\ loop.op = "reset" /\ queue[s] # <<>>
      /\ queue' = [queue EXCEPT ![s] = ch_queue_fifo_remove(@)]
      /\ wtsem' = [wtsem EXCEPT ![Head(queue[s])] = NoSem]
      /\ k' = ReadyWithMsg(k, c, Head(queue[s]), "RESET")
      /\ UNCHANGED <<cnt, call, loop, credit>>
  BY <1>0 DEF ResetIteration
<1>2. /\ loop \in Loops /\ c \in Cores /\ s \in Sems /\ KInv(k) /\ k \in KernelType
      /\ QueuesOK(k, queue, wtsem) /\ queue \in [Sems -> Seq(Threads)]
  BY <1>0, <1>1, LoopFacts DEF IInv, TypeOK
<1>3. PICK t, q : t = Head(queue[s]) /\ q = Tail(queue[s])
  OBVIOUS
<1>4. /\ t \in ToSet(queue[s]) /\ t \in Threads /\ k.state[t] = "WTSEM"
      /\ q \in Seq(Threads) /\ NoDuplicates(q)
      /\ ToSet(q) = ToSet(queue[s]) \ {t}
      /\ SemPriority => SortedByPrio(q, k.prio)
  BY <1>1, <1>2, <1>3, HeadOut
<1>5. k.state[t] \notin {"READY", "CURRENT"} /\ "RESET" \in Messages
      /\ k' = ReadyWithMsg(k, c, t, "RESET")
  BY <1>1, <1>3, <1>4, KernelAssumption
<1>6. KInv(k') /\ Woken(k, k', t)
  BY <1>2, <1>4, <1>5, ReadyWithMsgInv
<1>7. k'.isr = k.isr
  BY <1>2, <1>4, <1>5, ReadyWithMsgInv
<1>8. QueuesOK(k', [queue EXCEPT ![s] = q], [wtsem EXCEPT ![t] = NoSem])
  BY <1>2, <1>4, <1>6, TakeOut
<1>9. queue' = [queue EXCEPT ![s] = q] /\ wtsem' = [wtsem EXCEPT ![t] = NoSem]
  BY <1>1, <1>3 DEF ch_queue_fifo_remove
<1>10. CountsOK(cnt', queue', loop')
  BY <1>0, <1>1, <1>2, <1>9 DEF CountsOK, IInv
<1>11. LoopOK(k', cnt', loop')
  BY <1>1, <1>7 DEF LoopOK, IInv
<1>12. /\ cnt' \in [Sems -> Counters] /\ call' \in [Threads -> Sems \union {NoSem}]
       /\ loop' \in Loops \union {NoLoop} /\ credit' \in [Sems -> Int]
  BY <1>1 DEF IInv, TypeOK
<1> QED BY <1>6, <1>8, <1>9, <1>10, <1>11, <1>12, Pieces

\* The end of a loop, with chSchRescheduleS() for a thread.
LEMMA LoopEndInv ==
    ASSUME IInv, LoopEnd
    PROVE  IInv'
<1>1. /\ \/ loop.op = "reset" /\ queue[loop.sem] = <<>>
         \/ loop.op = "add" /\ loop.left = 0
      /\ k' = IF loop.thread THEN chSchRescheduleS(k, loop.core) ELSE k
      /\ loop' = NoLoop
      /\ UNCHANGED <<cnt, queue, wtsem, call, credit>>
  BY DEF LoopEnd
<1>2. /\ loop.core \in Cores /\ loop.sem \in Sems /\ KInv(k) /\ QueuesOK(k, queue, wtsem)
      /\ loop.op # "none"
  BY <1>1, LoopFacts DEF IInv
<1>3. KInv(k') /\ Others(k, k', {})
  <2>1. CASE loop.thread
    <3>1. k.firing[loop.core] = NoThread
      BY <1>2, <2>1, InThreadFiring DEF IInv, LoopOK
    <3>2. k' = chSchRescheduleS(k, loop.core)
      BY <1>1, <2>1
    <3> QED BY <1>2, <3>1, <3>2, RescheduleSInv
  <2>2. CASE ~ loop.thread
    BY <1>1, <1>2, <2>2 DEF Others
  <2> QED BY <2>1, <2>2
<1>4. QueuesOK(k', queue', wtsem')
  BY <1>1, <1>2, <1>3, NoQueue
<1>5. CountsOK(cnt', queue', loop')
  <2>1. \A z \in Sems : cnt[z] \in Int
    BY SemAssumption DEF IInv, TypeOK, Counters
  <2>2. CASE loop.op = "reset" /\ queue[loop.sem] = <<>>
    <3>1. Len(queue[loop.sem]) = 0 /\ cnt[loop.sem] >= 0
      BY <2>2 DEF IInv, LoopOK
    <3> QED BY <1>1, <1>2, <2>1, <2>2, <3>1 DEF CountsOK, IInv
  <2>3. CASE loop.op = "add"
    BY <1>1, <2>3 DEF CountsOK, IInv
  <2> QED BY <1>1, <2>2, <2>3
<1>6. LoopOK(k', cnt', loop')
  BY <1>1 DEF LoopOK, NoLoop
<1>7. /\ cnt' \in [Sems -> Counters] /\ call' \in [Threads -> Sems \union {NoSem}]
      /\ loop' \in Loops \union {NoLoop} /\ credit' \in [Sems -> Int]
  BY <1>1 DEF IInv, TypeOK
<1> QED BY <1>3, <1>4, <1>5, <1>6, <1>7, Pieces

\* The entry of a loop: the kernel only notes the context.
LEMMA ContextInv ==
    ASSUME IInv, NEW c \in Cores, NEW thread \in BOOLEAN, Context(c, thread)
    PROVE  /\ loop = NoLoop /\ KInv(k') /\ QueuesOK(k', queue, wtsem)
           /\ thread => c \notin k'.isr
<1>1. loop = NoLoop
  BY DEF Context
<1>2. KInv(k) /\ QueuesOK(k, queue, wtsem)
  BY <1>1, Quiet
<1>3. CASE thread
  <2>1. k' = k /\ Caller(c)
    BY <1>3 DEF Context
  <2>2. c \notin k.isr
    BY <2>1, CallerFacts
  <2> QED BY <1>1, <1>2, <2>1, <2>2
<1>4. CASE ~ thread
  <2>1. k' = EnterIsr(k, c)
    BY <1>4 DEF Context
  <2>2. KInv(k') /\ Others(k, k', {})
    BY <1>2, <2>1, EnterIsrInv
  <2>3. QueuesOK(k', queue, wtsem)
    BY <1>2, <2>2, NoQueue
  <2> QED BY <1>1, <1>4, <2>2, <2>3
<1> QED BY <1>3, <1>4

\* The entry of chSemResetWithMessageI(): the counter is set.
LEMMA ResetInv ==
    ASSUME IInv, NEW c \in Cores, NEW s \in Sems, NEW n \in 0 .. MaxCount, NEW thread \in BOOLEAN,
           chSemResetWithMessageI(c, s, n, thread)
    PROVE  IInv'
<1>1. /\ Context(c, thread) /\ cnt' = [cnt EXCEPT ![s] = n]
      /\ credit' = [credit EXCEPT ![s] = n + Cardinality(InFlight(s))]
      /\ loop' = [op |-> "reset", core |-> c, sem |-> s, left |-> 0, thread |-> thread]
      /\ UNCHANGED <<queue, wtsem, call>>
  BY DEF chSemResetWithMessageI
<1>2. loop = NoLoop /\ KInv(k') /\ QueuesOK(k', queue, wtsem) /\ (thread => c \notin k'.isr)
  BY <1>1, ContextInv
<1>3. /\ cnt \in [Sems -> Counters] /\ call \in [Threads -> Sems \union {NoSem}]
      /\ credit \in [Sems -> Int]
      /\ \A z \in Sems : Len(queue[z]) = IF cnt[z] < 0 THEN - cnt[z] ELSE 0
  BY <1>2, Quiet
<1>4. cnt' \in [Sems -> Counters] /\ cnt'[s] = n /\ n >= 0
  BY <1>1, <1>3, SemAssumption DEF Counters
<1>5. credit' \in [Sems -> Int]
  <2>1. IsFiniteSet(InFlight(s))
    BY FS_Subset, KernelAssumption DEF InFlight
  <2>2. Cardinality(InFlight(s)) \in Nat
    BY <2>1, FS_CardinalityType
  <2>3. n + Cardinality(InFlight(s)) \in Int
    BY <2>2, SemAssumption
  <2> QED BY <1>1, <1>3, <2>3
<1>6. loop' \in Loops \union {NoLoop} /\ loop'.op = "reset" /\ loop'.sem = s
      /\ loop'.core = c /\ loop'.thread = thread
  BY <1>1 DEF Loops
<1>7. CountsOK(cnt', queue', loop')
  BY <1>1, <1>3, <1>6 DEF CountsOK
<1>8. LoopOK(k', cnt', loop')
  BY <1>2, <1>4, <1>6 DEF LoopOK
<1>9. QueuesOK(k', queue', wtsem') /\ call' \in [Threads -> Sems \union {NoSem}]
  BY <1>1, <1>2, <1>3
<1> QED BY <1>2, <1>4, <1>5, <1>6, <1>7, <1>8, <1>9, Pieces

\* The entry of chSemAddCounterI().
LEMMA AddInv ==
    ASSUME IInv, NEW c \in Cores, NEW s \in Sems, NEW n \in 0 .. MaxCount, NEW thread \in BOOLEAN,
           chSemAddCounterI(c, s, n, thread)
    PROVE  IInv'
<1>1. /\ Context(c, thread)
      /\ loop' = [op |-> "add", core |-> c, sem |-> s, left |-> n, thread |-> thread]
      /\ UNCHANGED <<cnt, queue, wtsem, call, credit>>
  BY DEF chSemAddCounterI
<1>2. loop = NoLoop /\ KInv(k') /\ QueuesOK(k', queue, wtsem) /\ (thread => c \notin k'.isr)
  BY <1>1, ContextInv
<1>3. /\ cnt \in [Sems -> Counters] /\ call \in [Threads -> Sems \union {NoSem}]
      /\ credit \in [Sems -> Int]
      /\ \A z \in Sems : Len(queue[z]) = IF cnt[z] < 0 THEN - cnt[z] ELSE 0
  BY <1>2, Quiet
<1>4. loop' \in Loops \union {NoLoop} /\ loop'.op = "add"
      /\ loop'.core = c /\ loop'.thread = thread
  BY <1>1, SemAssumption DEF Loops
<1>5. CountsOK(cnt', queue', loop')
  BY <1>1, <1>3, <1>4 DEF CountsOK
<1>6. LoopOK(k', cnt', loop')
  BY <1>2, <1>4 DEF LoopOK
<1>7. /\ QueuesOK(k', queue', wtsem') /\ call' \in [Threads -> Sems \union {NoSem}]
      /\ cnt' \in [Sems -> Counters] /\ credit' \in [Sems -> Int]
  BY <1>1, <1>2, <1>3
<1> QED BY <1>2, <1>4, <1>5, <1>6, <1>7, Pieces

\* The interrupts that leave the semaphores alone.
LEMMA IrqPieces ==
    ASSUME IInv, loop = NoLoop, KInv(k'), QueuesOK(k', queue, wtsem),
           UNCHANGED <<cnt, queue, wtsem, call, loop, credit>>
    PROVE  IInv'
<1>1. LoopOK(k', cnt', loop')
  BY DEF LoopOK, NoLoop
<1> QED BY <1>1 DEF IInv, TypeOK, KInv, KInvX, CountsOK

\* Thread starts, timer expiries, reschedule interrupts and interrupt exits.
LEMMA IrqInv ==
    ASSUME IInv, NEW c \in Cores,
           \/ \E t \in UserThreads : chThdStartI(c, t)
           \/ \E t \in Threads : Expire(c, t)
           \/ Notified(c)
           \/ ExitIsr(c)
    PROVE  IInv'
<1>1. CASE \E t \in UserThreads : chThdStartI(c, t)
  <2>1. PICK t \in UserThreads : chThdStartI(c, t)
    BY <1>1
  <2>2. /\ loop = NoLoop /\ k.state[t] = "WTSTART" /\ t \in Threads
        /\ k' = ReadyWithMsg(EnterIsr(k, c), c, t, "OK")
        /\ UNCHANGED <<cnt, queue, wtsem, call, loop, credit>>
    BY <2>1 DEF chThdStartI, UserThreads
  <2>3. KInv(k) /\ QueuesOK(k, queue, wtsem)
    BY <2>2, Quiet
  <2>4. PICK kk : kk = EnterIsr(k, c)
    OBVIOUS
  <2>5. KInv(kk) /\ Others(k, kk, {}) /\ kk.state = k.state
    BY <2>3, <2>4, EnterIsrInv
  <2>6. kk.state[t] \notin {"READY", "CURRENT"} /\ "OK" \in Messages
        /\ k' = ReadyWithMsg(kk, c, t, "OK")
    BY <2>2, <2>4, <2>5, KernelAssumption
  <2>7. KInv(k') /\ Woken(kk, k', t)
    BY <2>2, <2>5, <2>6, ReadyWithMsgInv
  <2>8. /\ Others(k, k', {t}) /\ k.state[t] # "WTSEM" /\ k'.state[t] \in {"READY", "CURRENT"}
        /\ \A u \in Threads \intersect {t} :
              k.state[u] # "WTSEM" /\ k'.state[u] \in {"READY", "CURRENT"}
    BY <2>2, <2>5, <2>7 DEF Woken, Others
  <2>9. QueuesOK(k', queue, wtsem)
    BY <2>3, <2>8, NoQueue
  <2> QED BY <2>2, <2>7, <2>9, IrqPieces
<1>2. CASE \E t \in Threads : Expire(c, t)
  <2>1. PICK t \in Threads : Expire(c, t)
    BY <1>2
  <2>2. /\ loop = NoLoop /\ TimerDueEnabled(k, c, t) /\ k' = TimerDue(k, c, t)
        /\ UNCHANGED <<cnt, queue, wtsem, call, loop, credit>>
    BY <2>1 DEF Expire
  <2>3. KInv(k) /\ QueuesOK(k, queue, wtsem)
    BY <2>2, Quiet
  <2>4. KInv(k') /\ Others(k, k', {})
    BY <2>2, <2>3, TimerDueInv
  <2>5. QueuesOK(k', queue, wtsem)
    BY <2>3, <2>4, NoQueue
  <2> QED BY <2>2, <2>4, <2>5, IrqPieces
<1>3. CASE Notified(c)
  <2>2. /\ loop = NoLoop /\ k' = NotifyIrq(k, c)
        /\ UNCHANGED <<cnt, queue, wtsem, call, loop, credit>>
    BY <1>3 DEF Notified
  <2>3. KInv(k) /\ QueuesOK(k, queue, wtsem)
    BY <2>2, Quiet
  <2>4. KInv(k') /\ Others(k, k', {})
    BY <2>2, <2>3, EnterIsrInv
  <2>5. QueuesOK(k', queue, wtsem)
    BY <2>3, <2>4, NoQueue
  <2> QED BY <2>2, <2>4, <2>5, IrqPieces
<1>4. CASE ExitIsr(c)
  <2>2. /\ loop = NoLoop /\ IsrExitEnabled(k, c) /\ k' = IsrExit(k, c)
        /\ UNCHANGED <<cnt, queue, wtsem, call, loop, credit>>
    BY <1>4 DEF ExitIsr
  <2>3. KInv(k) /\ QueuesOK(k, queue, wtsem)
    BY <2>2, Quiet
  <2>4. KInv(k') /\ Others(k, k', {})
    BY <2>2, <2>3, IsrExitInv
  <2>5. QueuesOK(k', queue, wtsem)
    BY <2>3, <2>4, NoQueue
  <2> QED BY <2>2, <2>4, <2>5, IrqPieces
<1> QED BY <1>1, <1>2, <1>3, <1>4

\* The timeout callback.  A thread it finds not ready is still waiting: its
\* timer would otherwise have been reset.
LEMMA TimeoutInv ==
    ASSUME IInv, NEW c \in Cores, sch_wakeup(c)
    PROVE  IInv'
<1>1. PICK t, s, kk : /\ t = k.firing[c] /\ s = wtsem[t] /\ kk = [k EXCEPT !.firing[c] = NoThread]
                      /\ loop = NoLoop /\ t # NoThread
                      /\ UNCHANGED <<call, loop, credit>>
                      /\ \/ /\ AlreadyReady(k, t)
                            /\ k' = kk
                            /\ UNCHANGED <<cnt, queue, wtsem>>
                         \/ /\ ~ AlreadyReady(k, t)
                            /\ cnt' = [cnt EXCEPT ![s] = @ + 1]
                            /\ queue' = [queue EXCEPT ![s] = ch_queue_dequeue(@, t)]
                            /\ wtsem' = [wtsem EXCEPT ![t] = NoSem]
                            /\ k' = sch_ready_behind([kk EXCEPT !.rdymsg[t] = "TIMEOUT"], t)
  BY DEF sch_wakeup
<1>2. /\ k \in KernelType /\ KInv(k) /\ QueuesOK(k, queue, wtsem) /\ loop.op = "none"
      /\ \A z \in Sems : /\ Len(queue[z]) = IF cnt[z] < 0 THEN - cnt[z] ELSE 0
                         /\ cnt[z] \in Int /\ - MaxCount - 1 <= cnt[z] /\ cnt[z] <= MaxCount
      /\ cnt \in [Sems -> Counters] /\ call \in [Threads -> Sems \union {NoSem}]
      /\ credit \in [Sems -> Int] /\ queue \in [Sems -> Seq(Threads)]
  BY <1>1, Quiet
<1>3. t \in Threads /\ k.state[t] \in TimedStates
  BY <1>1, <1>2 DEF KInv, KInvX, KernelType
<1>4. KInv(kk) /\ Others(k, kk, {})
  BY <1>1, <1>2, <1>3, CallbackInv
<1>5. CASE AlreadyReady(k, t) /\ k' = kk /\ UNCHANGED <<cnt, queue, wtsem>>
  <2>1. QueuesOK(k', queue, wtsem)
    BY <1>2, <1>4, <1>5, NoQueue
  <2> QED BY <1>1, <1>4, <1>5, <2>1, IrqPieces
<1>6. CASE /\ ~ AlreadyReady(k, t)
           /\ cnt' = [cnt EXCEPT ![s] = @ + 1]
           /\ queue' = [queue EXCEPT ![s] = ch_queue_dequeue(@, t)]
           /\ wtsem' = [wtsem EXCEPT ![t] = NoSem]
           /\ k' = sch_ready_behind([kk EXCEPT !.rdymsg[t] = "TIMEOUT"], t)
  <2>1. k.state[t] = "WTSEM" /\ s \in Sems /\ t \in ToSet(queue[s])
    <3>1. k.state[t] = "WTSEM"
      BY <1>2, <1>3, <1>6 DEF AlreadyReady, TimedStates, QueuesOK, SemStates
    <3> QED BY <1>1, <1>2, <1>3, <3>1 DEF QueuesOK
  <2>2. k.state[t] \notin {"READY", "CURRENT"}
    BY <2>1
  <2>3. KInv(k') /\ Woken(k, k', t)
    <3>1. /\ kk = [k EXCEPT !.firing[c] = NoThread] /\ t \in Threads
          /\ k' = sch_ready_behind([kk EXCEPT !.rdymsg[t] = "TIMEOUT"], t)
      BY <1>1, <1>3, <1>6
    <3>2. KInv(k')
      BY <1>2, <2>2, <3>1, CallbackInv
    <3>3. Woken(k, k', t)
      BY <1>2, <2>2, <3>1, CallbackInv
    <3> QED BY <3>2, <3>3
  <2>4. PICK q : q = ch_queue_dequeue(queue[s], t)
    OBVIOUS
  <2>5. queue[s] \in Seq(Threads) /\ NoDuplicates(queue[s]) /\ k.prio \in [Threads -> Nat]
    <3>1. queue[s] \in Seq(Threads) /\ NoDuplicates(queue[s])
      BY <1>2, <2>1 DEF QueuesOK
    <3>2. k.prio \in [Threads -> Nat]
      BY <1>2 DEF KernelType, Prios
    <3> QED BY <3>1, <3>2
  <2>6. /\ q \in Seq(Threads) /\ Len(q) = Len(queue[s]) - 1
        /\ ToSet(q) = ToSet(queue[s]) \ {t} /\ NoDuplicates(q)
    BY <2>1, <2>4, <2>5, DequeueSet
  <2>7. SemPriority => SortedByPrio(q, k.prio)
    <3>1. SemPriority => SortedByPrio(queue[s], k.prio)
      BY <1>2, <2>1 DEF QueuesOK
    <3> QED BY <2>1, <2>4, <2>5, <3>1, RemoveSorted
  <2>8. QueuesOK(k', [queue EXCEPT ![s] = q], [wtsem EXCEPT ![t] = NoSem])
    BY <1>2, <2>1, <2>3, <2>6, <2>7, TakeOut
  <2>9. queue' = [queue EXCEPT ![s] = q]
    BY <1>6, <2>4
  <2>10. cnt[s] < 0
    <3>1. queue[s] # <<>>
      BY <2>1 DEF ToSet
    <3>2. Len(queue[s]) > 0
      BY <2>5, <3>1, EmptySeq, LenProperties
    <3> QED BY <1>2, <2>1, <3>2
  <2>11. cnt' \in [Sems -> Counters]
    BY <1>2, <1>6, <2>1, <2>10, SemAssumption DEF Counters
  <2>12. CountsOK(cnt', queue', loop')
    BY <1>2, <1>6, <2>1, <2>6, <2>9, <2>10 DEF CountsOK
  <2>13. /\ LoopOK(k', cnt', loop') /\ loop' \in Loops \union {NoLoop}
         /\ call' \in [Threads -> Sems \union {NoSem}] /\ credit' \in [Sems -> Int]
    BY <1>1, <1>2 DEF LoopOK
  <2> QED BY <1>6, <2>3, <2>8, <2>9, <2>11, <2>12, <2>13, Pieces
<1> QED BY <1>1, <1>5, <1>6

\* The signal and the wait are done one after the other, in between the
\* kernel is in the state kk.
LEMMA SignalWaitInv ==
    ASSUME IInv, NEW c \in Cores, NEW s1 \in Sems, NEW s2 \in Sems, chSemSignalWait(c, s1, s2)
    PROVE  IInv'
<1>1. PICK t, tp, kk :
         /\ t = k.current[c] /\ tp = Head(queue[s1])
         /\ kk = IF cnt[s1] + 1 <= 0 THEN ReadyWithMsg(k, c, tp, "OK") ELSE k
         /\ Caller(c) /\ s1 # s2 /\ cnt[s1] < MaxCount /\ cnt[s2] > - MaxCount - 1
         /\ cnt' = [cnt EXCEPT ![s1] = @ + 1, ![s2] = @ - 1]
         /\ queue' = [queue EXCEPT ![s1] = IF cnt[s1] + 1 <= 0 THEN ch_queue_fifo_remove(@) ELSE @,
                                   ![s2] = IF cnt[s2] - 1 < 0 THEN sem_insert(@, t) ELSE @]
         /\ wtsem' = [u \in Threads |-> IF cnt[s1] + 1 <= 0 /\ u = tp THEN NoSem
                                        ELSE IF cnt[s2] - 1 < 0 /\ u = t THEN s2 ELSE wtsem[u]]
         /\ call' = [call EXCEPT ![t] = IF cnt[s2] - 1 < 0 THEN s2 ELSE @]
         /\ credit' = [credit EXCEPT ![s1] = @ + 1, ![s2] = IF cnt[s2] - 1 < 0 THEN @ ELSE @ - 1]
         /\ k' = IF cnt[s2] - 1 < 0 THEN chSchGoSleepS(kk, c, "WTSEM") ELSE chSchRescheduleS(kk, c)
         /\ loop' = loop
  BY DEF chSemSignalWait
<1>2. /\ loop = NoLoop /\ InThread(k, c) /\ k.firing[c] = NoThread /\ c \notin k.isr
      /\ t \in Threads /\ k.state[t] = "CURRENT"
  BY <1>1, CallerFacts
<1>3. /\ k \in KernelType /\ KInv(k) /\ QueuesOK(k, queue, wtsem) /\ loop.op = "none"
      /\ \A z \in Sems : /\ Len(queue[z]) = IF cnt[z] < 0 THEN - cnt[z] ELSE 0
                         /\ cnt[z] \in Int /\ - MaxCount - 1 <= cnt[z] /\ cnt[z] <= MaxCount
      /\ cnt \in [Sems -> Counters] /\ call \in [Threads -> Sems \union {NoSem}]
      /\ credit \in [Sems -> Int] /\ queue \in [Sems -> Seq(Threads)]
      /\ wtsem \in [Threads -> Sems \union {NoSem}]
  BY <1>2, Quiet
<1>v. /\ cnt'[s1] = cnt[s1] + 1 /\ cnt'[s2] = cnt[s2] - 1
      /\ \A z \in Sems \ {s1, s2} : cnt'[z] = cnt[z]
  BY <1>1, <1>3
<1>4. cnt' \in [Sems -> Counters]
  <2>1. cnt[s1] + 1 \in Counters /\ cnt[s2] - 1 \in Counters
    BY <1>1, <1>3, SemAssumption DEF Counters
  <2> QED BY <1>1, <1>3, <2>1
<1>5. credit' \in [Sems -> Int]
  <2>1. credit[s1] + 1 \in Int /\ credit[s2] \in Int /\ credit[s2] - 1 \in Int
    BY <1>3
  <2> QED BY <1>1, <1>3, <2>1
<1>6. /\ call' \in [Threads -> Sems \union {NoSem}]
      /\ LoopOK(k', cnt', loop') /\ loop' \in Loops \union {NoLoop}
  BY <1>1, <1>2, <1>3 DEF LoopOK
\* The signal.
<1>7. PICK qu, wt :
         /\ qu = [queue EXCEPT ![s1] = IF cnt[s1] + 1 <= 0 THEN ch_queue_fifo_remove(@) ELSE @]
         /\ wt = [u \in Threads |-> IF cnt[s1] + 1 <= 0 /\ u = tp THEN NoSem ELSE wtsem[u]]
         /\ QueuesOK(kk, qu, wt) /\ KInv(kk)
         /\ InThread(kk, c) /\ kk.firing[c] = NoThread
         /\ kk.current[c] = t /\ kk.prio = k.prio /\ (cnt[s1] + 1 <= 0 => tp # t)
         /\ Len(qu[s1]) = IF cnt[s1] + 1 < 0 THEN - (cnt[s1] + 1) ELSE 0
  <2>1. CASE cnt[s1] + 1 <= 0
    <3>1. queue[s1] # <<>> /\ tp \in Threads /\ k.state[tp] = "WTSEM" /\ tp # t
      BY <1>1, <1>2, <1>3, <2>1, NegativeWaits
    <3>2. PICK q : q = Tail(queue[s1])
      OBVIOUS
    <3>3. /\ tp \in ToSet(queue[s1]) /\ q \in Seq(Threads) /\ NoDuplicates(q)
          /\ ToSet(q) = ToSet(queue[s1]) \ {tp}
          /\ SemPriority => SortedByPrio(q, k.prio)
          /\ Len(q) = Len(queue[s1]) - 1
      BY <1>1, <1>3, <3>1, <3>2, HeadOut
    <3>4. k.state[tp] \notin {"READY", "CURRENT"} /\ "OK" \in Messages
          /\ kk = ReadyWithMsg(k, c, tp, "OK")
      BY <1>1, <2>1, <3>1, KernelAssumption
    <3>5. KInv(kk) /\ Woken(k, kk, tp)
      BY <1>3, <3>1, <3>4, ReadyWithMsgInv
    <3>6. kk.current = k.current /\ kk.isr = k.isr /\ kk.firing = k.firing
      BY <1>3, <3>4 DEF ReadyWithMsg, chSchReadyI, sch_ready_behind, chSysNotifyInstance, KernelType
    <3>7. QueuesOK(kk, [queue EXCEPT ![s1] = q], [wtsem EXCEPT ![tp] = NoSem])
      BY <1>3, <3>3, <3>5, TakeOut
    <3>8. [queue EXCEPT ![s1] = q]
             = [queue EXCEPT ![s1] = IF cnt[s1] + 1 <= 0 THEN ch_queue_fifo_remove(@) ELSE @]
      BY <2>1, <3>2 DEF ch_queue_fifo_remove
    <3>9. [wtsem EXCEPT ![tp] = NoSem]
             = [u \in Threads |-> IF cnt[s1] + 1 <= 0 /\ u = tp THEN NoSem ELSE wtsem[u]]
      BY <1>3, <2>1, <3>1
    <3>10. InThread(kk, c) /\ kk.firing[c] = NoThread /\ kk.current[c] = t /\ kk.prio = k.prio
      BY <1>1, <1>2, <3>5, <3>6 DEF InThread, Woken, Others
    <3>11. Len([queue EXCEPT ![s1] = q][s1]) = IF cnt[s1] + 1 < 0 THEN - (cnt[s1] + 1) ELSE 0
      BY <1>1, <1>3, <2>1, <3>3
    <3> QED BY <3>1, <3>5, <3>7, <3>8, <3>9, <3>10, <3>11
  <2>2. CASE ~ (cnt[s1] + 1 <= 0)
    <3>1. kk = k
      BY <1>1, <2>2
    <3>2. queue = [queue EXCEPT ![s1] = IF cnt[s1] + 1 <= 0 THEN ch_queue_fifo_remove(@) ELSE @]
      BY <1>3, <2>2
    <3>3. wtsem = [u \in Threads |-> IF cnt[s1] + 1 <= 0 /\ u = tp THEN NoSem ELSE wtsem[u]]
      BY <1>3, <2>2
    <3>4. Len(queue[s1]) = IF cnt[s1] + 1 < 0 THEN - (cnt[s1] + 1) ELSE 0
      BY <1>1, <1>3, <2>2
    <3>5. /\ QueuesOK(kk, queue, wtsem) /\ KInv(kk) /\ InThread(kk, c) /\ kk.firing[c] = NoThread
          /\ kk.current[c] = t /\ kk.prio = k.prio
      BY <1>1, <1>2, <1>3, <3>1
    <3> QED BY <2>2, <3>2, <3>3, <3>4, <3>5
  <2> QED BY <2>1, <2>2
<1>8. \A z \in Sems \ {s1} : qu[z] = queue[z]
  BY <1>3, <1>7
\* The wait.
<1>9. CASE cnt[s2] - 1 < 0
  <2>1. "WTSEM" \in TimedStates \ {"READY"} /\ k' = chSchGoSleepS(kk, c, "WTSEM")
    BY <1>1, <1>9 DEF TimedStates, States
  <2>2. KInv(k')
    BY <1>7, <2>1, GoSleepSInv
  <2>3. Asleep(kk, k', kk.current[c], "WTSEM")
    BY <1>7, <2>1, GoSleepSInv
  <2>4. kk \in KernelType /\ kk.state[t] = "CURRENT" /\ Asleep(kk, k', t, "WTSEM")
    BY <1>7, <2>3 DEF KInv, KInvX
  <2>5. /\ QueuesOK(k', [qu EXCEPT ![s2] = sem_insert(@, t)], [wt EXCEPT ![t] = s2])
        /\ Len(sem_insert(qu[s2], t)) = Len(qu[s2]) + 1
    <3>1. k \in KernelType /\ kk.prio = k.prio /\ t \in Threads /\ QueuesOK(kk, qu, wt)
      BY <1>2, <1>3, <1>7
    <3>2. QueuesOK(k', [qu EXCEPT ![s2] = sem_insert(@, t)], [wt EXCEPT ![t] = s2])
      BY <2>4, <3>1, WaitStep
    <3>3. Len(sem_insert(qu[s2], t)) = Len(qu[s2]) + 1
      BY <2>4, <3>1, WaitStep
    <3> QED BY <3>2, <3>3
  <2>6. queue' = [qu EXCEPT ![s2] = sem_insert(@, t)]
    BY <1>1, <1>3, <1>7, <1>9
  <2>7. wtsem' = [wt EXCEPT ![t] = s2]
    BY <1>1, <1>2, <1>7, <1>9
  <2>8. \A z \in Sems : Len(queue'[z]) = IF cnt'[z] < 0 THEN - cnt'[z] ELSE 0
    <3>0. qu \in [Sems -> Seq(Threads)] /\ qu[s2] = queue[s2]
      BY <1>1, <1>7, <1>8 DEF QueuesOK
    <3>1. Len(queue'[s2]) = IF cnt'[s2] < 0 THEN - cnt'[s2] ELSE 0
      BY <1>3, <1>9, <1>v, <2>5, <2>6, <3>0
    <3>2. Len(queue'[s1]) = IF cnt'[s1] < 0 THEN - cnt'[s1] ELSE 0
      BY <1>1, <1>3, <1>7, <2>6, <3>0
    <3>3. \A z \in Sems \ {s1, s2} : Len(queue'[z]) = IF cnt'[z] < 0 THEN - cnt'[z] ELSE 0
      BY <1>1, <1>3, <1>8, <2>6, <3>0
    <3> QED BY <3>1, <3>2, <3>3
  <2>9. CountsOK(cnt', queue', loop')
    BY <2>8 DEF CountsOK
  <2> QED BY <1>4, <1>5, <1>6, <2>2, <2>5, <2>6, <2>7, <2>9, Pieces
<1>10. CASE ~ (cnt[s2] - 1 < 0)
  <2>1. k' = chSchRescheduleS(kk, c)
    BY <1>1, <1>10
  <2>2. KInv(k') /\ Others(kk, k', {})
    BY <1>7, <2>1, RescheduleSInv
  <2>3. QueuesOK(k', qu, wt)
    BY <1>7, <2>2, NoQueue
  <2>4. queue' = qu
    BY <1>1, <1>3, <1>7, <1>10
  <2>5. wtsem' = wt
    BY <1>1, <1>7, <1>10
  <2>6. \A z \in Sems : Len(queue'[z]) = IF cnt'[z] < 0 THEN - cnt'[z] ELSE 0
    <3>1. Len(queue'[s2]) = IF cnt'[s2] < 0 THEN - cnt'[s2] ELSE 0
      BY <1>1, <1>3, <1>8, <1>10, <1>v, <2>4
    <3>2. Len(queue'[s1]) = IF cnt'[s1] < 0 THEN - cnt'[s1] ELSE 0
      BY <1>1, <1>3, <1>7, <2>4
    <3>3. \A z \in Sems \ {s1, s2} : Len(queue'[z]) = IF cnt'[z] < 0 THEN - cnt'[z] ELSE 0
      BY <1>1, <1>3, <1>8, <2>4
    <3> QED BY <3>1, <3>2, <3>3
  <2>7. CountsOK(cnt', queue', loop')
    BY <2>6 DEF CountsOK
  <2> QED BY <1>4, <1>5, <1>6, <2>2, <2>3, <2>4, <2>5, <2>7, Pieces
<1> QED BY <1>9, <1>10

-----------------------------------------------------------------------------
(* What the steps do to the order of the cores and to the messages           *)

\* The threads that wait, and the messages, are as before.
Kept(kk, r) == Others(kk, r, {}) /\ r.rdymsg = kk.rdymsg

\* t alone has been woken, with msg.
Signalled(kk, r, t, msg) == Woken(kk, r, t) /\ r.rdymsg = [kk.rdymsg EXCEPT ![t] = msg]

\* t alone has gone to sleep.
Slept(kk, r, t) == Asleep(kk, r, t, "WTSEM") /\ r.rdymsg = kk.rdymsg

\* The cores are in order, the one a thread executes a loop on excepted.
OrderInv ==
    /\ OrderedBut(k, IF loop.op # "none" /\ loop.thread THEN {loop.core} ELSE {})
    /\ (loop.op # "none" /\ ~ loop.thread) => loop.core \in k.isr

\* Without a loop the exception is empty.
LEMMA OrderQuiet ==
    ASSUME IInv, OrderInv, loop = NoLoop
    PROVE  OrderedBut(k, {}) /\ KInv(k) /\ k \in KernelType
BY Quiet DEF OrderInv

\* OrderInv from the kernel alone when the step is in no loop.
LEMMA OrderPieces ==
    ASSUME OrderedBut(k', {}), loop' = NoLoop
    PROVE  OrderInv'
BY DEF OrderInv, NoLoop

\* A thread of the core goes to sleep in the semaphore queue.
LEMMA SleepEffect ==
    ASSUME NEW kk, KInv(kk), NEW c \in Cores, InThread(kk, c), NEW X, OrderedBut(kk, X),
           X \subseteq {c}, NEW timed \in BOOLEAN,
           NEW r, r = chSchGoSleepTimeoutS(kk, c, "WTSEM", timed)
    PROVE  Slept(kk, r, kk.current[c]) /\ OrderedBut(r, {})
<1>1. "WTSEM" \in TimedStates \ {"READY"}
  BY DEF TimedStates, States
<1>2. Asleep(kk, r, kk.current[c], "WTSEM")
  BY <1>1, GoSleepInv
<1>3. PICK h : SleepStep(kk, r, c, "WTSEM", timed, h)
  BY <1>1, GoSleepEffect
<1>4. OrderedBut(r, X \ {c})
  BY <1>3, SleepOrder
<1>5. X \ {c} = {}
  OBVIOUS
<1>6. OrderedBut(r, {})
  BY <1>4, <1>5
<1> QED BY <1>2, <1>3, <1>6 DEF Slept, SleepStep

\* A waiting thread is made ready by core c.
LEMMA ReadyStep ==
    ASSUME NEW kk, KInv(kk), NEW c \in Cores, NEW t \in Threads, NEW msg \in Messages,
           kk.state[t] \notin {"READY", "CURRENT"}, NEW X, OrderedBut(kk, X),
           NEW r, r = ReadyWithMsg(kk, c, t, msg)
    PROVE  /\ Signalled(kk, r, t, msg) /\ OrderedBut(r, X \union {c})
           /\ KInv(r) /\ r.isr = kk.isr /\ r.current = kk.current
<1>1. kk \in KernelType
  BY DEF KInv, KInvX
<1>2. KInv(r) /\ Woken(kk, r, t)
  BY ReadyWithMsgInv
<1>3. MadeReady(kk, r, c, t, msg)
  BY <1>1, ReadyWithMsgEffect
<1>4. OrderedBut(r, X \union {c})
  BY ReadyWithMsgOrder
<1> QED BY <1>2, <1>3, <1>4 DEF Signalled, MadeReady

\* A core in a handler needs no exception.
LEMMA OrderInHandler ==
    ASSUME NEW kk, NEW c, c \in kk.isr, OrderedBut(kk, {c})
    PROVE  OrderedBut(kk, {})
BY DEF OrderedBut

LEMMA WaitEffect ==
    ASSUME IInv, OrderInv, NEW c \in Cores, NEW s \in Sems, NEW timed \in BOOLEAN,
           chSemWaitTimeoutS(c, s, timed), cnt[s] - 1 < 0
    PROVE  Slept(k, k', k.current[c]) /\ OrderInv'
<1>1. Caller(c) /\ loop' = loop /\ cnt[s] \in Int
  BY SemAssumption DEF chSemWaitTimeoutS, IInv, TypeOK, Counters
<1>2. k' = chSchGoSleepTimeoutS(k, c, "WTSEM", timed)
  BY <1>1 DEF chSemWaitTimeoutS, GoWait
<1>3. loop = NoLoop /\ InThread(k, c)
  BY <1>1, CallerFacts
<1>4. OrderedBut(k, {}) /\ KInv(k) /\ {} \subseteq {c}
  BY <1>3, OrderQuiet
<1>5. Slept(k, k', k.current[c])
  BY <1>2, <1>3, <1>4, SleepEffect
<1>6. OrderedBut(k', {})
  BY <1>2, <1>3, <1>4, SleepEffect
<1> QED BY <1>1, <1>3, <1>5, <1>6, OrderPieces

\* The signal of a thread, of a handler and of a loop: the head of the queue
\* is woken when there is one.
LEMMA SignalEffect ==
    ASSUME IInv, OrderInv, NEW c \in Cores, NEW s \in Sems, chSemSignal(c, s)
    PROVE  /\ IF cnt[s] + 1 <= 0 THEN Signalled(k, k', Head(queue[s]), "OK") ELSE Kept(k, k')
           /\ OrderInv'
<1>1. Caller(c) /\ loop' = loop /\ cnt[s] \in Int
  BY SemAssumption DEF chSemSignal, IInv, TypeOK, Counters
<1>2. loop = NoLoop /\ k.firing[c] = NoThread /\ loop.op # "reset"
  BY <1>1, CallerFacts, Quiet
<1>3. OrderedBut(k, {}) /\ KInv(k)
  BY <1>2, OrderQuiet
<1>4. CASE cnt[s] + 1 <= 0
  <2>1. PICK t : t = Head(queue[s]) /\ t \in Threads /\ k.state[t] = "WTSEM"
    BY <1>2, <1>4, NegativeWaits
  <2>2. k.state[t] \notin {"READY", "CURRENT"} /\ "OK" \in Messages
    BY <2>1, KernelAssumption
  <2>3. k' = chSchWakeupS(k, c, t, "OK")
    BY <1>1, <1>4, <2>1 DEF chSemSignal, Signal
  <2>4. Woken(k, k', t)
    BY <1>2, <1>3, <2>1, <2>2, <2>3, WakeupSInv
  <2>5. OrderedBut(k', {})
    BY <1>2, <1>3, <2>1, <2>2, <2>3, WakeupSOrder
  <2>6. k'.rdymsg = [k.rdymsg EXCEPT ![t] = "OK"]
    BY <1>2, <1>3, <2>1, <2>2, <2>3, WakeupSOrder
  <2>7. OrderInv'
    BY <1>1, <1>2, <2>5, OrderPieces
  <2> QED BY <1>4, <2>1, <2>4, <2>6, <2>7 DEF Signalled
<1>5. CASE ~ (cnt[s] + 1 <= 0)
  <2>1. k' = k
    BY <1>1, <1>5 DEF chSemSignal, Signal
  <2>2. Kept(k, k')
    BY <2>1 DEF Kept, Others
  <2>3. OrderInv'
    BY <1>1, <1>2, <1>3, <2>1, OrderPieces
  <2> QED BY <1>5, <2>2, <2>3
<1> QED BY <1>4, <1>5

LEMMA SignalIEffect ==
    ASSUME IInv, OrderInv, NEW c \in Cores, NEW s \in Sems, chSemSignalI(c, s)
    PROVE  /\ IF cnt[s] + 1 <= 0 THEN Signalled(k, k', Head(queue[s]), "OK") ELSE Kept(k, k')
           /\ OrderInv'
<1>0. PICK kk : kk = EnterIsr(k, c)
  OBVIOUS
<1>1. loop = NoLoop /\ loop' = loop /\ cnt[s] \in Int
  BY SemAssumption DEF chSemSignalI, IInv, TypeOK, Counters
<1>2. OrderedBut(k, {}) /\ KInv(k) /\ loop.op # "reset"
  BY <1>1, OrderQuiet, Quiet
<1>3. KInv(kk) /\ Others(k, kk, {}) /\ kk.state = k.state
  BY <1>0, <1>2, EnterIsrInv
<1>4. OrderedBut(kk, {}) /\ kk.rdymsg = k.rdymsg /\ kk.isr = k.isr \union {c}
  BY <1>0, <1>2, EnterIsrOrder
<1>5. OrderedBut(kk, {}) /\ c \in kk.isr
  BY <1>4
<1>6. CASE cnt[s] + 1 <= 0
  <2>1. PICK t : t = Head(queue[s]) /\ t \in Threads /\ k.state[t] = "WTSEM"
    BY <1>2, <1>6, NegativeWaits
  <2>2. kk.state[t] \notin {"READY", "CURRENT"} /\ "OK" \in Messages
    BY <1>3, <2>1, KernelAssumption
  <2>3. k' = ReadyWithMsg(kk, c, t, "OK")
    BY <1>0, <1>1, <1>6, <2>1 DEF chSemSignalI, Signal
  <2>4. Signalled(kk, k', t, "OK")
    BY <1>3, <1>5, <2>1, <2>2, <2>3, ReadyStep
  <2>5. OrderedBut(k', {} \union {c}) /\ k'.isr = kk.isr
    BY <1>3, <1>5, <2>1, <2>2, <2>3, ReadyStep
  <2>6. {} \union {c} = {c}
    OBVIOUS
  <2>7. OrderedBut(k', {})
    BY <1>5, <2>5, <2>6, OrderInHandler
  <2>8. Signalled(k, k', t, "OK")
    BY <1>3, <1>4, <2>4 DEF Signalled, Woken, Others
  <2>9. OrderInv'
    BY <1>1, <2>7, OrderPieces
  <2> QED BY <1>6, <2>1, <2>8, <2>9
<1>7. CASE ~ (cnt[s] + 1 <= 0)
  <2>1. k' = kk
    BY <1>0, <1>1, <1>7 DEF chSemSignalI, Signal
  <2>2. Kept(k, k')
    BY <1>3, <1>4, <2>1 DEF Kept
  <2>3. OrderInv'
    BY <1>1, <1>5, <2>1, OrderPieces
  <2> QED BY <1>7, <2>2, <2>3
<1> QED BY <1>6, <1>7

\* The signal and the wait of chSemSignalWait(), one after the other.
LEMMA SignalWaitEffect ==
    ASSUME IInv, OrderInv, NEW c \in Cores, NEW s1 \in Sems, NEW s2 \in Sems,
           chSemSignalWait(c, s1, s2)
    PROVE  /\ \E kk :
                /\ kk.current[c] = k.current[c] /\ kk.state[k.current[c]] = "CURRENT"
                /\ IF cnt[s1] + 1 <= 0 THEN Signalled(k, kk, Head(queue[s1]), "OK") ELSE kk = k
                /\ IF cnt[s2] - 1 < 0 THEN Slept(kk, k', k.current[c]) ELSE Kept(kk, k')
           /\ OrderInv'
<1>1. PICK t, tp, kk :
         /\ t = k.current[c] /\ tp = Head(queue[s1])
         /\ kk = IF cnt[s1] + 1 <= 0 THEN ReadyWithMsg(k, c, tp, "OK") ELSE k
         /\ Caller(c) /\ loop' = loop
         /\ k' = IF cnt[s2] - 1 < 0 THEN chSchGoSleepS(kk, c, "WTSEM") ELSE chSchRescheduleS(kk, c)
  BY DEF chSemSignalWait
<1>2. /\ loop = NoLoop /\ InThread(k, c) /\ k.firing[c] = NoThread /\ loop.op # "reset"
      /\ t \in Threads /\ k.state[t] = "CURRENT" /\ c \notin k.isr
  BY <1>1, CallerFacts, Quiet
<1>3. OrderedBut(k, {}) /\ KInv(k)
  BY <1>2, OrderQuiet
<1>4. /\ KInv(kk) /\ OrderedBut(kk, {c}) /\ kk.current = k.current /\ kk.isr = k.isr
      /\ IF cnt[s1] + 1 <= 0 THEN Signalled(k, kk, tp, "OK") ELSE kk = k
  <2>1. CASE cnt[s1] + 1 <= 0
    <3>1. tp \in Threads /\ k.state[tp] = "WTSEM"
      BY <1>1, <1>2, <2>1, NegativeWaits
    <3>2. /\ k.state[tp] \notin {"READY", "CURRENT"} /\ "OK" \in Messages
          /\ kk = ReadyWithMsg(k, c, tp, "OK")
      BY <1>1, <2>1, <3>1, KernelAssumption
    <3>3. Signalled(k, kk, tp, "OK")
      BY <1>3, <3>1, <3>2, ReadyStep
    <3>4. OrderedBut(kk, {} \union {c}) /\ KInv(kk)
      BY <1>3, <3>1, <3>2, ReadyStep
    <3>5. kk.isr = k.isr /\ kk.current = k.current
      <4>1. k \in KernelType
        BY <1>3 DEF KInv, KInvX
      <4>2. MadeReady(k, kk, c, tp, "OK")
        BY <3>1, <3>2, <4>1, ReadyWithMsgEffect
      <4> QED BY <4>2 DEF MadeReady
    <3>6. {} \union {c} = {c}
      OBVIOUS
    <3>7. OrderedBut(kk, {c})
      BY <3>4, <3>6
    <3> QED BY <2>1, <3>3, <3>4, <3>5, <3>7
  <2>2. CASE ~ (cnt[s1] + 1 <= 0)
    <3>1. kk = k
      BY <1>1, <2>2
    <3>2. OrderedBut(kk, {c})
      BY <1>3, <3>1 DEF OrderedBut
    <3> QED BY <1>3, <2>2, <3>1, <3>2
  <2> QED BY <2>1, <2>2
<1>5. /\ kk.current[c] = t /\ InThread(kk, c) /\ kk.firing[c] = NoThread /\ kk.state[t] = "CURRENT"
  <2>1. kk.current[c] = t /\ InThread(kk, c)
    BY <1>1, <1>2, <1>4 DEF InThread
  <2>2. kk.firing[c] = NoThread
    BY <1>2, <1>4, InThreadFiring
  <2> QED BY <1>4, <2>1, <2>2 DEF KInv, KInvX
<1>6. CASE cnt[s2] - 1 < 0
  <2>1. kk \in KernelType
    BY <1>4 DEF KInv, KInvX
  <2>2. [kk EXCEPT !.armed = kk.armed] = kk
    BY <2>1 DEF KernelType
  <2>3. k' = chSchGoSleepTimeoutS(kk, c, "WTSEM", FALSE)
    BY <1>1, <1>6, <2>2 DEF chSchGoSleepTimeoutS
  <2>4. Slept(kk, k', kk.current[c])
    BY <1>4, <1>5, <2>3, SleepEffect
  <2>5. OrderedBut(k', {})
    BY <1>4, <1>5, <2>3, SleepEffect
  <2>6. OrderInv'
    BY <1>1, <1>2, <2>5, OrderPieces
  <2> QED BY <1>1, <1>4, <1>5, <1>6, <2>4, <2>6
<1>7. CASE ~ (cnt[s2] - 1 < 0)
  <2>1. k' = chSchRescheduleS(kk, c)
    BY <1>1, <1>7
  <2>2. Others(kk, k', {})
    BY <1>4, <1>5, <2>1, RescheduleSInv
  <2>3. OrderedBut(k', {c} \ {c}) /\ Rest(kk, k')
    BY <1>4, <1>5, <2>1, RescheduleSOrder
  <2>4. {c} \ {c} = {}
    OBVIOUS
  <2>5. OrderedBut(k', {})
    BY <2>3, <2>4
  <2>6. OrderInv'
    BY <1>1, <1>2, <2>5, OrderPieces
  <2>7. Kept(kk, k')
    BY <2>2, <2>3 DEF Kept, Rest
  <2> QED BY <1>1, <1>4, <1>5, <1>7, <2>6, <2>7
<1> QED BY <1>6, <1>7

\* The entry of a loop.
LEMMA ContextEffect ==
    ASSUME IInv, OrderInv, NEW c \in Cores, NEW thread \in BOOLEAN, Context(c, thread),
           loop'.op # "none", loop'.core = c, loop'.thread = thread
    PROVE  Kept(k, k') /\ OrderInv'
<1>1. loop = NoLoop
  BY DEF Context
<1>2. OrderedBut(k, {}) /\ KInv(k)
  BY <1>1, OrderQuiet
<1>3. CASE thread
  <2>1. k' = k
    BY <1>3 DEF Context
  <2>2. Kept(k, k')
    BY <2>1 DEF Kept, Others
  <2>3. OrderedBut(k', {c})
    BY <1>2, <2>1 DEF OrderedBut
  <2> QED BY <1>3, <2>2, <2>3 DEF OrderInv
<1>4. CASE ~ thread
  <2>1. k' = EnterIsr(k, c)
    BY <1>4 DEF Context
  <2>2. Others(k, k', {})
    BY <1>2, <2>1, EnterIsrInv
  <2>3. OrderedBut(k', {}) /\ k'.rdymsg = k.rdymsg /\ k'.isr = k.isr \union {c}
    BY <1>2, <2>1, EnterIsrOrder
  <2> QED BY <1>4, <2>2, <2>3 DEF OrderInv, Kept
<1> QED BY <1>3, <1>4

\* A waiting thread is made ready by an iteration of a loop.
LEMMA LoopReadyEffect ==
    ASSUME IInv, OrderInv, loop.op \in {"reset", "add"}, NEW t \in Threads, k.state[t] = "WTSEM",
           NEW msg \in Messages, k' = ReadyWithMsg(k, loop.core, t, msg),
           loop'.op = loop.op, loop'.core = loop.core, loop'.thread = loop.thread
    PROVE  Signalled(k, k', t, msg) /\ OrderInv'
<1>1. loop.core \in Cores /\ loop.thread \in BOOLEAN /\ KInv(k)
  BY LoopFacts DEF IInv
<1>2. PICK X : X = IF loop.thread THEN {loop.core} ELSE {}
  OBVIOUS
<1>3. OrderedBut(k, X) /\ k.state[t] \notin {"READY", "CURRENT"}
  BY <1>2 DEF OrderInv
<1>4. Signalled(k, k', t, msg)
  BY <1>1, <1>3, ReadyStep
<1>5. OrderedBut(k', X \union {loop.core}) /\ k'.isr = k.isr
  BY <1>1, <1>3, ReadyStep
<1>6. X \union {loop.core} = {loop.core}
  BY <1>2
<1>7. OrderedBut(k', {loop.core})
  BY <1>5, <1>6
<1>8. ~ loop.thread => loop.core \in k'.isr
  BY <1>5 DEF OrderInv
<1>9. ~ loop.thread => OrderedBut(k', {})
  BY <1>7, <1>8, OrderInHandler
<1> QED BY <1>4, <1>7, <1>8, <1>9 DEF OrderInv

LEMMA ResetIterationEffect ==
    ASSUME IInv, OrderInv, ResetIteration
    PROVE  /\ Signalled(k, k', Head(queue[loop.sem]), "RESET") /\ OrderInv'
           /\ loop.sem \in Sems /\ Head(queue[loop.sem]) \in ToSet(queue[loop.sem])
<1>1. PICK t : /\ t = Head(queue[loop.sem]) /\ loop.op = "reset" /\ queue[loop.sem] # <<>>
               /\ k' = ReadyWithMsg(k, loop.core, t, "RESET") /\ loop' = loop
  BY DEF ResetIteration
<1>2. loop.sem \in Sems /\ k \in KernelType /\ QueuesOK(k, queue, wtsem)
  BY <1>1, LoopFacts DEF IInv, TypeOK
<1>3. t \in Threads /\ k.state[t] = "WTSEM" /\ t \in ToSet(queue[loop.sem]) /\ "RESET" \in Messages
  BY <1>1, <1>2, HeadOut, KernelAssumption
<1>4. loop.op \in {"reset", "add"} /\ loop'.op = loop.op /\ loop'.core = loop.core /\ loop'.thread = loop.thread
  BY <1>1
<1>5. Signalled(k, k', t, "RESET") /\ OrderInv'
  BY <1>1, <1>3, <1>4, LoopReadyEffect
<1> QED BY <1>1, <1>2, <1>3, <1>5

LEMMA AddIterationEffect ==
    ASSUME IInv, OrderInv, AddIteration
    PROVE  /\ loop.sem \in Sems /\ loop.op = "add" /\ loop'.op = "add" /\ OrderInv'
           /\ IF cnt[loop.sem] + 1 <= 0 THEN Signalled(k, k', Head(queue[loop.sem]), "OK")
              ELSE Kept(k, k')
<1>0. loop.op = "add"
  BY DEF AddIteration
<1>1. loop.sem \in Sems /\ loop \in Loops /\ loop.op \in {"reset", "add"}
  BY <1>0, LoopFacts
<1>2. PICK s : s = loop.sem /\ s \in Sems /\ cnt[s] \in Int
  BY <1>1, SemAssumption DEF IInv, TypeOK, Counters
<1>3. loop'.op = loop.op /\ loop'.core = loop.core /\ loop'.thread = loop.thread
  BY <1>1 DEF AddIteration, Loops
<1>4. CASE cnt[s] + 1 <= 0
  <2>1. PICK t : t = Head(queue[s]) /\ t \in Threads /\ k.state[t] = "WTSEM"
    BY <1>0, <1>2, <1>4, NegativeWaits
  <2>2. k' = ReadyWithMsg(k, loop.core, t, "OK") /\ "OK" \in Messages
    BY <1>2, <1>4, <2>1, KernelAssumption DEF AddIteration, Signal
  <2>3. Signalled(k, k', t, "OK") /\ OrderInv'
    BY <1>1, <1>3, <2>1, <2>2, LoopReadyEffect
  <2> QED BY <1>0, <1>1, <1>2, <1>3, <1>4, <2>1, <2>3
<1>5. CASE ~ (cnt[s] + 1 <= 0)
  <2>1. k' = k
    BY <1>2, <1>5 DEF AddIteration, Signal
  <2>2. Kept(k, k') /\ OrderInv'
    BY <1>3, <2>1 DEF Kept, Others, OrderInv
  <2> QED BY <1>0, <1>1, <1>2, <1>3, <1>5, <2>2
<1> QED BY <1>4, <1>5

LEMMA LoopEndEffect ==
    ASSUME IInv, OrderInv, LoopEnd
    PROVE  Kept(k, k') /\ OrderInv'
<1>1. /\ loop.op \in {"reset", "add"} /\ loop' = NoLoop
      /\ k' = IF loop.thread THEN chSchRescheduleS(k, loop.core) ELSE k
  BY DEF LoopEnd
<1>2. loop.core \in Cores /\ loop.thread \in BOOLEAN /\ KInv(k)
  BY <1>1, LoopFacts DEF IInv
<1>3. CASE loop.thread
  <2>1. OrderedBut(k, {loop.core}) /\ loop.core \notin k.isr
    BY <1>1, <1>3 DEF OrderInv, IInv, LoopOK
  <2>2. k.firing[loop.core] = NoThread /\ k' = chSchRescheduleS(k, loop.core)
    BY <1>1, <1>2, <1>3, <2>1, InThreadFiring
  <2>3. Others(k, k', {})
    BY <1>2, <2>2, RescheduleSInv
  <2>4. OrderedBut(k', {loop.core} \ {loop.core}) /\ Rest(k, k')
    BY <1>2, <2>1, <2>2, RescheduleSOrder
  <2>5. {loop.core} \ {loop.core} = {}
    OBVIOUS
  <2>6. OrderedBut(k', {})
    BY <2>4, <2>5
  <2>7. OrderInv'
    BY <1>1, <2>6, OrderPieces
  <2> QED BY <2>3, <2>4, <2>7 DEF Kept, Rest
<1>4. CASE ~ loop.thread
  <2>1. k' = k /\ OrderedBut(k, {})
    BY <1>1, <1>4 DEF OrderInv
  <2>2. OrderInv'
    BY <1>1, <2>1, OrderPieces
  <2> QED BY <2>1, <2>2 DEF Kept, Others
<1> QED BY <1>2, <1>3, <1>4

\* Timer expiries, reschedule interrupts and interrupt exits.
LEMMA IrqEffect ==
    ASSUME IInv, OrderInv, NEW c \in Cores,
           \/ \E t \in Threads : Expire(c, t)
           \/ Notified(c)
           \/ ExitIsr(c)
    PROVE  Kept(k, k') /\ OrderInv'
<1>1. loop = NoLoop /\ loop' = NoLoop
  BY DEF Expire, Notified, ExitIsr
<1>2. OrderedBut(k, {}) /\ KInv(k)
  BY <1>1, OrderQuiet
<1>3. CASE \E t \in Threads : Expire(c, t)
  <2>1. PICK t \in Threads : TimerDueEnabled(k, c, t) /\ k' = TimerDue(k, c, t)
    BY <1>3 DEF Expire
  <2>2. Others(k, k', {})
    BY <1>2, <2>1, TimerDueInv
  <2>3. OrderedBut(k', {}) /\ k'.rdymsg = k.rdymsg
    BY <1>2, <2>1, TimerDueOrder
  <2>4. OrderInv'
    BY <1>1, <2>3, OrderPieces
  <2> QED BY <2>2, <2>3, <2>4 DEF Kept
<1>4. CASE Notified(c)
  <2>1. k' = NotifyIrq(k, c)
    BY <1>4 DEF Notified
  <2>2. Others(k, k', {})
    BY <1>2, <2>1, EnterIsrInv
  <2>3. OrderedBut(k', {}) /\ k'.rdymsg = k.rdymsg
    BY <1>2, <2>1, EnterIsrOrder
  <2>4. OrderInv'
    BY <1>1, <2>3, OrderPieces
  <2> QED BY <2>2, <2>3, <2>4 DEF Kept
<1>5. CASE ExitIsr(c)
  <2>1. IsrExitEnabled(k, c) /\ k' = IsrExit(k, c)
    BY <1>5 DEF ExitIsr
  <2>2. Others(k, k', {})
    BY <1>2, <2>1, IsrExitInv
  <2>3. OrderedBut(k', {}) /\ k'.rdymsg = k.rdymsg
    BY <1>2, <2>1, IsrExitOrder
  <2>4. OrderInv'
    BY <1>1, <2>3, OrderPieces
  <2> QED BY <2>2, <2>3, <2>4 DEF Kept
<1> QED BY <1>3, <1>4, <1>5

LEMMA StartEffect ==
    ASSUME IInv, OrderInv, NEW c \in Cores, NEW t \in UserThreads, chThdStartI(c, t)
    PROVE  Signalled(k, k', t, "OK") /\ OrderInv'
<1>0. PICK kk : kk = EnterIsr(k, c)
  OBVIOUS
<1>1. /\ loop = NoLoop /\ loop' = NoLoop /\ k.state[t] = "WTSTART" /\ t \in Threads
      /\ k' = ReadyWithMsg(kk, c, t, "OK")
  BY <1>0 DEF chThdStartI, UserThreads
<1>2. OrderedBut(k, {}) /\ KInv(k)
  BY <1>1, OrderQuiet
<1>3. KInv(kk) /\ Others(k, kk, {}) /\ kk.state = k.state
  BY <1>0, <1>2, EnterIsrInv
<1>4. OrderedBut(kk, {}) /\ kk.rdymsg = k.rdymsg /\ kk.isr = k.isr \union {c}
  BY <1>0, <1>2, EnterIsrOrder
<1>5. kk.state[t] \notin {"READY", "CURRENT"} /\ "OK" \in Messages /\ c \in kk.isr
  BY <1>1, <1>3, <1>4, KernelAssumption
<1>6. Signalled(kk, k', t, "OK")
  BY <1>1, <1>3, <1>4, <1>5, ReadyStep
<1>7. OrderedBut(k', {} \union {c}) /\ k'.isr = kk.isr
  BY <1>1, <1>3, <1>4, <1>5, ReadyStep
<1>8. {} \union {c} = {c}
  OBVIOUS
<1>9. OrderedBut(k', {})
  BY <1>5, <1>7, <1>8, OrderInHandler
<1>10. Signalled(k, k', t, "OK")
  BY <1>3, <1>4, <1>6 DEF Signalled, Woken, Others
<1>11. OrderInv'
  BY <1>1, <1>9, OrderPieces
<1> QED BY <1>10, <1>11

LEMMA TimeoutEffect ==
    ASSUME IInv, OrderInv, NEW c \in Cores, sch_wakeup(c)
    PROVE  /\ \/ Kept(k, k') /\ UNCHANGED <<cnt, wtsem>>
              \/ \E t \in Threads, s \in Sems :
                    /\ k.state[t] = "WTSEM" /\ wtsem[t] = s /\ Signalled(k, k', t, "TIMEOUT")
                    /\ cnt' = [cnt EXCEPT ![s] = @ + 1] /\ wtsem' = [wtsem EXCEPT ![t] = NoSem]
                    /\ cnt[s] < 0
           /\ OrderInv'
<1>1. PICK t, s, kk : /\ t = k.firing[c] /\ s = wtsem[t] /\ kk = [k EXCEPT !.firing[c] = NoThread]
                      /\ loop = NoLoop /\ t # NoThread /\ loop' = loop
                      /\ \/ /\ AlreadyReady(k, t)
                            /\ k' = kk
                            /\ UNCHANGED <<cnt, queue, wtsem>>
                         \/ /\ ~ AlreadyReady(k, t)
                            /\ cnt' = [cnt EXCEPT ![s] = @ + 1]
                            /\ queue' = [queue EXCEPT ![s] = ch_queue_dequeue(@, t)]
                            /\ wtsem' = [wtsem EXCEPT ![t] = NoSem]
                            /\ k' = sch_ready_behind([kk EXCEPT !.rdymsg[t] = "TIMEOUT"], t)
  BY DEF sch_wakeup
<1>2. /\ k \in KernelType /\ QueuesOK(k, queue, wtsem)
      /\ \A z \in Sems : Len(queue[z]) = (IF cnt[z] < 0 THEN - cnt[z] ELSE 0) /\ cnt[z] \in Int
      /\ queue \in [Sems -> Seq(Threads)]
  BY <1>1, Quiet
<1>k. OrderedBut(k, {}) /\ KInv(k)
  BY <1>1, OrderQuiet
<1>3. t \in Threads /\ k.state[t] \in TimedStates
  BY <1>1, <1>2, <1>k DEF KInv, KInvX, KernelType
<1>4. PICK r : r = sch_ready_behind([kk EXCEPT !.rdymsg[t] = "TIMEOUT"], t)
  OBVIOUS
<1>e. t = k.firing[c] /\ kk = [k EXCEPT !.firing[c] = NoThread]
  BY <1>1
<1>5. CASE AlreadyReady(k, t) /\ k' = kk /\ UNCHANGED <<cnt, queue, wtsem>>
  <2>1. Others(k, kk, {})
    BY <1>1, <1>k, <1>3, CallbackInv
  <2>2. OrderedBut(kk, {})
    BY <1>1, <1>k, <1>3, CallbackOrder
  <2>3. kk.rdymsg = k.rdymsg
    BY <1>1, <1>2 DEF KernelType
  <2>4. OrderInv'
    BY <1>1, <1>5, <2>2, OrderPieces
  <2> QED BY <1>5, <2>1, <2>3, <2>4 DEF Kept
<1>6. CASE /\ ~ AlreadyReady(k, t)
           /\ cnt' = [cnt EXCEPT ![s] = @ + 1]
           /\ wtsem' = [wtsem EXCEPT ![t] = NoSem]
           /\ k' = r
  <2>1. k.state[t] = "WTSEM" /\ s \in Sems /\ t \in ToSet(queue[s])
    <3>1. k.state[t] = "WTSEM"
      BY <1>2, <1>3, <1>6 DEF AlreadyReady, TimedStates, QueuesOK, SemStates
    <3> QED BY <1>1, <1>2, <1>3, <3>1 DEF QueuesOK
  <2>2. k.state[t] \notin {"READY", "CURRENT"}
    BY <2>1
  <2>3. Woken(k, r, t)
    BY <1>e, <1>k, <1>3, <1>4, <2>2, CallbackInv
  <2>4. OrderedBut(r, {})
    BY <1>e, <1>k, <1>3, <1>4, CallbackOrder
  <2>5. r.rdymsg = [k.rdymsg EXCEPT ![t] = "TIMEOUT"]
    <3>1. PICK k1 : k1 = [kk EXCEPT !.rdymsg[t] = "TIMEOUT"]
      OBVIOUS
    <3>2. k1 \in KernelType /\ k1.rdymsg = [k.rdymsg EXCEPT ![t] = "TIMEOUT"]
      BY <1>2, <1>3, <1>e, <3>1, KernelAssumption DEF KernelType
    <3>3. Readied(k1, r, t)
      BY <1>3, <1>4, <3>1, <3>2, ReadyEffect
    <3> QED BY <3>2, <3>3 DEF Readied, Rest
  <2>6. cnt[s] < 0
    <3>1. queue[s] # <<>>
      BY <2>1 DEF ToSet
    <3>2. Len(queue[s]) > 0
      BY <1>2, <2>1, <3>1, EmptySeq, LenProperties
    <3> QED BY <1>2, <2>1, <3>2
  <2>7. OrderInv'
    BY <1>1, <1>6, <2>4, OrderPieces
  <2>8. Signalled(k, k', t, "TIMEOUT")
    BY <1>6, <2>3, <2>5 DEF Signalled
  <2> QED BY <1>1, <1>3, <1>6, <2>1, <2>6, <2>7, <2>8
<1> QED BY <1>1, <1>4, <1>5, <1>6

-----------------------------------------------------------------------------
(* The units in flight                                                       *)

\* InFlight as a function of the kernel state and of the calls.
Flight(kk, cl, s) ==
    {t \in Threads : cl[t] = s /\ kk.state[t] # "WTSEM" /\ kk.rdymsg[t] = "OK"}

\* A thread that waits in the kernel is inside the call of that semaphore,
\* one that has not been started is in none.
CallsOK(kk, wt, cl) ==
    \A t \in Threads : /\ kk.state[t] = "WTSEM" => cl[t] = wt[t]
                       /\ kk.state[t] = "WTSTART" => cl[t] = NoSem

\* UnitsConserved as a function of the state.
Units(cn, cr, kk, cl) ==
    \A s \in Sems : cr[s] = (IF cn[s] > 0 THEN cn[s] ELSE 0) + Cardinality(Flight(kk, cl, s))

\* The same threads are in flight.
SameFlight(kk, cl, r, cl2) == \A z \in Sems : Flight(r, cl2, z) = Flight(kk, cl, z)

LEMMA UnitsIs == UnitsConserved <=> Units(cnt, credit, k, call)
BY DEF UnitsConserved, Units, InFlight, Flight

\* The sets of the threads in flight are finite; one thread more or less.
LEMMA FlightCard ==
    ASSUME NEW kk, NEW cl, NEW s
    PROVE  /\ Cardinality(Flight(kk, cl, s)) \in Nat
           /\ \A t : t \notin Flight(kk, cl, s) =>
                 Cardinality(Flight(kk, cl, s) \union {t}) = Cardinality(Flight(kk, cl, s)) + 1
           /\ \A t : t \in Flight(kk, cl, s) =>
                 Cardinality(Flight(kk, cl, s) \ {t}) = Cardinality(Flight(kk, cl, s)) - 1
<1>1. PICK F : F = Flight(kk, cl, s)
  OBVIOUS
<1>2. IsFiniteSet(Threads) /\ F \subseteq Threads
  BY <1>1, KernelAssumption DEF Flight
<1>3. IsFiniteSet(F)
  BY <1>2, FS_Subset
<1>4. Cardinality(F) \in Nat
  BY <1>3, FS_CardinalityType
<1>5. \A t : t \notin F => Cardinality(F \union {t}) = Cardinality(F) + 1
  BY <1>3, FS_AddElement
<1>6. \A t : t \in F => Cardinality(F \ {t}) = Cardinality(F) - 1
  BY <1>3, FS_RemoveElement
<1> QED BY <1>1, <1>4, <1>5, <1>6

\* Nothing that a waiting thread notices: nobody is in flight or leaves.
LEMMA FlightKept ==
    ASSUME NEW kk, NEW r, Kept(kk, r), NEW cl, NEW wt
    PROVE  /\ \A z : Flight(r, cl, z) = Flight(kk, cl, z)
           /\ CallsOK(kk, wt, cl) => CallsOK(r, wt, cl)
BY DEF Kept, Others, Flight, CallsOK

\* The thread that goes to sleep was running, hence not in flight.
LEMMA FlightSlept ==
    ASSUME NEW kk, NEW r, NEW t \in Threads, Slept(kk, r, t), kk.state[t] = "CURRENT",
           NEW cl \in [Threads -> Sems \union {NoSem}], cl[t] = NoSem, NEW s \in Sems,
           NEW cl2, cl2 = [cl EXCEPT ![t] = s]
    PROVE  SameFlight(kk, cl, r, cl2)
<1>1. NoSem \notin Sems
  BY SemAssumption
<1>2. \A u \in Threads \ {t} :
         /\ cl2[u] = cl[u]
         /\ (r.state[u] = "WTSEM") <=> (kk.state[u] = "WTSEM")
         /\ r.rdymsg[u] = kk.rdymsg[u]
  BY DEF Slept, Asleep, Others
<1>3. cl2[t] = s /\ r.state[t] = "WTSEM"
  BY DEF Slept, Asleep
<1>4. ASSUME NEW z \in Sems
      PROVE  Flight(r, cl2, z) = Flight(kk, cl, z)
  BY <1>1, <1>2, <1>3 DEF Flight
<1> QED BY <1>4 DEF SameFlight

LEMMA CallsSlept ==
    ASSUME NEW kk, NEW r, NEW t \in Threads, Slept(kk, r, t),
           NEW cl \in [Threads -> Sems \union {NoSem}], NEW s \in Sems,
           NEW wt \in [Threads -> Sems \union {NoSem}], CallsOK(kk, wt, cl)
    PROVE  CallsOK(r, [wt EXCEPT ![t] = s], [cl EXCEPT ![t] = s])
<1>1. \A u \in Threads \ {t} :
         /\ [cl EXCEPT ![t] = s][u] = cl[u] /\ [wt EXCEPT ![t] = s][u] = wt[u]
         /\ (r.state[u] = "WTSEM") <=> (kk.state[u] = "WTSEM")
         /\ (r.state[u] = "WTSTART") <=> (kk.state[u] = "WTSTART")
  BY DEF Slept, Asleep, Others
<1>2. [cl EXCEPT ![t] = s][t] = s /\ [wt EXCEPT ![t] = s][t] = s /\ r.state[t] = "WTSEM"
  BY DEF Slept, Asleep
<1> QED BY <1>1, <1>2 DEF CallsOK

\* t, that waited on s, is in flight if msg gives it a unit.
Delivered(kk, cl, r, t, s, msg) ==
    /\ \A z \in Sems : Flight(r, cl, z) = IF z = s /\ msg = "OK" THEN Flight(kk, cl, z) \union {t}
                                           ELSE Flight(kk, cl, z)
    /\ \A z \in Sems : t \notin Flight(kk, cl, z)

\* A waiting thread that is woken is in flight if it is given a unit.
LEMMA FlightSignalled ==
    ASSUME NEW kk \in KernelType, NEW r, NEW t \in Threads, NEW msg, Signalled(kk, r, t, msg),
           kk.state[t] = "WTSEM", NEW cl, NEW s, cl[t] = s
    PROVE  Delivered(kk, cl, r, t, s, msg)
<1>1. kk.rdymsg \in [Threads -> Messages]
  BY DEF KernelType
<1>2. \A u \in Threads \ {t} :
         /\ (r.state[u] = "WTSEM") <=> (kk.state[u] = "WTSEM")
         /\ r.rdymsg[u] = kk.rdymsg[u]
  BY <1>1 DEF Signalled, Woken, Others
<1>3. r.state[t] # "WTSEM" /\ r.rdymsg[t] = msg
  BY <1>1 DEF Signalled, Woken
<1>4. ASSUME NEW z \in Sems
      PROVE  Flight(r, cl, z) = IF z = s /\ msg = "OK" THEN Flight(kk, cl, z) \union {t}
                                ELSE Flight(kk, cl, z)
  <2>1. \A u \in Threads \ {t} : u \in Flight(r, cl, z) <=> u \in Flight(kk, cl, z)
    BY <1>2 DEF Flight
  <2>2. t \in Flight(r, cl, z) <=> (z = s /\ msg = "OK")
    BY <1>3 DEF Flight
  <2>3. t \notin Flight(kk, cl, z)
    BY DEF Flight
  <2>4. Flight(r, cl, z) \subseteq Threads /\ Flight(kk, cl, z) \subseteq Threads
    BY DEF Flight
  <2> QED BY <2>1, <2>2, <2>3, <2>4
<1>5. \A z \in Sems : t \notin Flight(kk, cl, z)
  BY DEF Flight
<1> QED BY <1>4, <1>5 DEF Delivered

LEMMA CallsSignalled ==
    ASSUME NEW kk \in KernelType, NEW r, NEW t \in Threads, NEW msg, Signalled(kk, r, t, msg),
           NEW cl, NEW wt \in [Threads -> Sems \union {NoSem}], CallsOK(kk, wt, cl)
    PROVE  CallsOK(r, [wt EXCEPT ![t] = NoSem], cl)
<1>1. \A u \in Threads \ {t} :
         /\ [wt EXCEPT ![t] = NoSem][u] = wt[u]
         /\ (r.state[u] = "WTSEM") <=> (kk.state[u] = "WTSEM")
         /\ (r.state[u] = "WTSTART") <=> (kk.state[u] = "WTSTART")
  BY DEF Signalled, Woken, Others
<1>2. r.state[t] # "WTSEM" /\ r.state[t] # "WTSTART"
  BY DEF Signalled, Woken
<1> QED BY <1>1, <1>2 DEF CallsOK

\* t, in flight on s if it has been given a unit, is so no longer.
TookUnit(kk, cl, cl2, t, s) ==
    /\ \A z \in Sems \ {s} : Flight(kk, cl2, z) = Flight(kk, cl, z)
    /\ Flight(kk, cl2, s) = IF kk.rdymsg[t] = "OK" THEN Flight(kk, cl, s) \ {t} ELSE Flight(kk, cl, s)
    /\ kk.rdymsg[t] = "OK" => t \in Flight(kk, cl, s)

\* A wait that returns takes its unit with it.
LEMMA FlightReturned ==
    ASSUME NEW kk, NEW t \in Threads, kk.state[t] = "CURRENT",
           NEW cl \in [Threads -> Sems \union {NoSem}], NEW s \in Sems, cl[t] = s, NEW wt
    PROVE  /\ TookUnit(kk, cl, [cl EXCEPT ![t] = NoSem], t, s)
           /\ CallsOK(kk, wt, cl) => CallsOK(kk, wt, [cl EXCEPT ![t] = NoSem])
<1>1. NoSem \notin Sems
  BY SemAssumption
<1>2. /\ \A u \in Threads \ {t} : [cl EXCEPT ![t] = NoSem][u] = cl[u]
      /\ [cl EXCEPT ![t] = NoSem][t] = NoSem
  OBVIOUS
<1>3. \A z \in Sems \ {s} : Flight(kk, [cl EXCEPT ![t] = NoSem], z) = Flight(kk, cl, z)
  BY <1>1, <1>2 DEF Flight
<1>4. Flight(kk, [cl EXCEPT ![t] = NoSem], s)
         = IF kk.rdymsg[t] = "OK" THEN Flight(kk, cl, s) \ {t} ELSE Flight(kk, cl, s)
  BY <1>1, <1>2 DEF Flight
<1>5. kk.rdymsg[t] = "OK" => t \in Flight(kk, cl, s)
  BY DEF Flight
<1>6. CallsOK(kk, wt, cl) => CallsOK(kk, wt, [cl EXCEPT ![t] = NoSem])
  BY <1>2 DEF CallsOK
<1> QED BY <1>3, <1>4, <1>5, <1>6 DEF TookUnit

\* A unit goes to a waiting thread.
LEMMA GrantUnits ==
    ASSUME NEW cn \in [Sems -> Int], NEW cr \in [Sems -> Int], NEW kk \in KernelType,
           NEW cl, NEW wt \in [Threads -> Sems \union {NoSem}],
           Units(cn, cr, kk, cl), CallsOK(kk, wt, cl),
           NEW t \in Threads, kk.state[t] = "WTSEM", NEW s \in Sems, wt[t] = s,
           NEW r, Signalled(kk, r, t, "OK"), cn[s] + 1 <= 0
    PROVE  /\ Units([cn EXCEPT ![s] = @ + 1], [cr EXCEPT ![s] = @ + 1], r, cl)
           /\ CallsOK(r, [wt EXCEPT ![t] = NoSem], cl)
<1>0. cl[t] = s
  BY DEF CallsOK
<1>1. /\ \A z \in Sems \ {s} : Flight(r, cl, z) = Flight(kk, cl, z)
      /\ Flight(r, cl, s) = Flight(kk, cl, s) \union {t} /\ t \notin Flight(kk, cl, s)
  <2>1. Delivered(kk, cl, r, t, s, "OK")
    BY <1>0, FlightSignalled
  <2> QED BY <2>1 DEF Delivered
<1>2. CallsOK(r, [wt EXCEPT ![t] = NoSem], cl)
  BY CallsSignalled
<1>3. /\ Cardinality(Flight(kk, cl, s)) \in Nat
      /\ Cardinality(Flight(r, cl, s)) = Cardinality(Flight(kk, cl, s)) + 1
  BY <1>1, FlightCard
<1>4. ASSUME NEW z \in Sems
      PROVE  [cr EXCEPT ![s] = @ + 1][z]
                = (IF [cn EXCEPT ![s] = @ + 1][z] > 0 THEN [cn EXCEPT ![s] = @ + 1][z] ELSE 0)
                  + Cardinality(Flight(r, cl, z))
  <2>1. cr[z] = (IF cn[z] > 0 THEN cn[z] ELSE 0) + Cardinality(Flight(kk, cl, z))
    BY DEF Units
  <2>2. CASE z = s
    BY <1>3, <2>1, <2>2
  <2>3. CASE z # s
    BY <1>1, <2>1, <2>3
  <2> QED BY <2>2, <2>3
<1> QED BY <1>2, <1>4 DEF Units

\* A unit that nobody waits for becomes available.
LEMMA PutUnits ==
    ASSUME NEW cn \in [Sems -> Int], NEW cr \in [Sems -> Int], NEW kk, NEW cl, NEW wt,
           Units(cn, cr, kk, cl), CallsOK(kk, wt, cl), NEW s \in Sems,
           NEW r, Kept(kk, r), cn[s] + 1 > 0
    PROVE  /\ Units([cn EXCEPT ![s] = @ + 1], [cr EXCEPT ![s] = @ + 1], r, cl)
           /\ CallsOK(r, wt, cl)
<1>1. \A z : Flight(r, cl, z) = Flight(kk, cl, z)
  BY FlightKept
<1>2. CallsOK(r, wt, cl)
  BY FlightKept
<1>3. ASSUME NEW z \in Sems
      PROVE  [cr EXCEPT ![s] = @ + 1][z]
                = (IF [cn EXCEPT ![s] = @ + 1][z] > 0 THEN [cn EXCEPT ![s] = @ + 1][z] ELSE 0)
                  + Cardinality(Flight(r, cl, z))
  <2>1. /\ cr[z] = (IF cn[z] > 0 THEN cn[z] ELSE 0) + Cardinality(Flight(kk, cl, z))
        /\ Cardinality(Flight(kk, cl, z)) \in Nat
    BY FlightCard DEF Units
  <2> QED BY <1>1, <2>1
<1> QED BY <1>2, <1>3 DEF Units

\* A wait that finds no unit sleeps.
LEMMA BlockUnits ==
    ASSUME NEW cn \in [Sems -> Int], NEW cr \in [Sems -> Int], NEW kk,
           NEW cl \in [Threads -> Sems \union {NoSem}], NEW wt \in [Threads -> Sems \union {NoSem}],
           Units(cn, cr, kk, cl), CallsOK(kk, wt, cl),
           NEW t \in Threads, kk.state[t] = "CURRENT", cl[t] = NoSem, NEW s \in Sems,
           NEW r, Slept(kk, r, t), cn[s] - 1 < 0
    PROVE  /\ Units([cn EXCEPT ![s] = @ - 1], cr, r, [cl EXCEPT ![t] = s])
           /\ CallsOK(r, [wt EXCEPT ![t] = s], [cl EXCEPT ![t] = s])
<1>1. SameFlight(kk, cl, r, [cl EXCEPT ![t] = s])
  BY FlightSlept
<1>2. CallsOK(r, [wt EXCEPT ![t] = s], [cl EXCEPT ![t] = s])
  BY CallsSlept
<1>3. ASSUME NEW z \in Sems
      PROVE  cr[z] = (IF [cn EXCEPT ![s] = @ - 1][z] > 0 THEN [cn EXCEPT ![s] = @ - 1][z] ELSE 0)
                     + Cardinality(Flight(r, [cl EXCEPT ![t] = s], z))
  <2>1. /\ cr[z] = (IF cn[z] > 0 THEN cn[z] ELSE 0) + Cardinality(Flight(kk, cl, z))
        /\ Cardinality(Flight(kk, cl, z)) \in Nat
    BY FlightCard DEF Units
  <2>2. Cardinality(Flight(r, [cl EXCEPT ![t] = s], z)) = Cardinality(Flight(kk, cl, z))
    BY <1>1 DEF SameFlight
  <2>3. CASE z = s
    BY <2>1, <2>2, <2>3
  <2>4. CASE z # s
    BY <2>1, <2>2, <2>4
  <2> QED BY <2>3, <2>4
<1> QED BY <1>2, <1>3 DEF Units

\* A wait that finds a unit takes it.
LEMMA TakeUnits ==
    ASSUME NEW cn \in [Sems -> Int], NEW cr \in [Sems -> Int], NEW kk, NEW cl, NEW wt,
           Units(cn, cr, kk, cl), CallsOK(kk, wt, cl), NEW s \in Sems,
           NEW r, Kept(kk, r), cn[s] > 0
    PROVE  /\ Units([cn EXCEPT ![s] = @ - 1], [cr EXCEPT ![s] = @ - 1], r, cl)
           /\ CallsOK(r, wt, cl)
<1>1. \A z : Flight(r, cl, z) = Flight(kk, cl, z)
  BY FlightKept
<1>2. CallsOK(r, wt, cl)
  BY FlightKept
<1>3. ASSUME NEW z \in Sems
      PROVE  [cr EXCEPT ![s] = @ - 1][z]
                = (IF [cn EXCEPT ![s] = @ - 1][z] > 0 THEN [cn EXCEPT ![s] = @ - 1][z] ELSE 0)
                  + Cardinality(Flight(r, cl, z))
  <2>1. /\ cr[z] = (IF cn[z] > 0 THEN cn[z] ELSE 0) + Cardinality(Flight(kk, cl, z))
        /\ Cardinality(Flight(kk, cl, z)) \in Nat
    BY FlightCard DEF Units
  <2> QED BY <1>1, <2>1
<1> QED BY <1>2, <1>3 DEF Units

\* A waiting thread is woken without a unit.
LEMMA NoUnits ==
    ASSUME NEW cn \in [Sems -> Int], NEW cr \in [Sems -> Int], NEW kk \in KernelType,
           NEW cl, NEW wt \in [Threads -> Sems \union {NoSem}],
           Units(cn, cr, kk, cl), CallsOK(kk, wt, cl),
           NEW t \in Threads, kk.state[t] = "WTSEM", NEW s \in Sems, wt[t] = s,
           NEW msg, msg # "OK", NEW r, Signalled(kk, r, t, msg)
    PROVE  Units(cn, cr, r, cl) /\ CallsOK(r, [wt EXCEPT ![t] = NoSem], cl)
<1>1. cl[t] = s
  BY DEF CallsOK
<1>2. \A z \in Sems : Flight(r, cl, z) = Flight(kk, cl, z)
  <2>1. Delivered(kk, cl, r, t, s, msg)
    BY <1>1, FlightSignalled
  <2> QED BY <2>1 DEF Delivered
<1>3. CallsOK(r, [wt EXCEPT ![t] = NoSem], cl)
  BY CallsSignalled
<1> QED BY <1>2, <1>3 DEF Units

UnitsInv == CallsOK(k, wtsem, call) /\ Units(cnt, credit, k, call)

\* The types the arithmetic needs.
LEMMA UnitsTypes ==
    ASSUME IInv
    PROVE  /\ cnt \in [Sems -> Int] /\ credit \in [Sems -> Int] /\ k \in KernelType
           /\ call \in [Threads -> Sems \union {NoSem}] /\ wtsem \in [Threads -> Sems \union {NoSem}]
           /\ queue \in [Sems -> Seq(Threads)]
BY SemAssumption DEF IInv, TypeOK, Counters

\* The head of the queue waits on its semaphore.
LEMMA HeadWaits ==
    ASSUME IInv, NEW s \in Sems, loop.op # "reset", cnt[s] + 1 <= 0, NEW t, t = Head(queue[s])
    PROVE  t \in Threads /\ k.state[t] = "WTSEM" /\ wtsem[t] = s /\ queue[s] # <<>>
<1>1. queue[s] # <<>> /\ k \in KernelType /\ QueuesOK(k, queue, wtsem)
  BY NegativeWaits DEF IInv, TypeOK
<1>2. t \in ToSet(queue[s])
  BY <1>1, HeadOut
<1> QED BY <1>1, <1>2 DEF QueuesOK

\* A signal, from wherever it comes.
LEMMA SignalUnits ==
    ASSUME IInv, UnitsInv, NEW s \in Sems, loop.op # "reset",
           IF cnt[s] + 1 <= 0 THEN Signalled(k, k', Head(queue[s]), "OK") ELSE Kept(k, k'),
           cnt' = [cnt EXCEPT ![s] = @ + 1], credit' = [credit EXCEPT ![s] = @ + 1],
           wtsem' = IF cnt[s] + 1 <= 0 THEN [wtsem EXCEPT ![Head(queue[s])] = NoSem] ELSE wtsem,
           call' = call
    PROVE  UnitsInv'
<1>0. cnt[s] \in Int
  BY UnitsTypes
<1>1. CASE cnt[s] + 1 <= 0
  <2>1. PICK t : t = Head(queue[s])
    OBVIOUS
  <2>2. t \in Threads /\ k.state[t] = "WTSEM" /\ wtsem[t] = s
    BY <1>1, <2>1, HeadWaits
  <2>3. Signalled(k, k', t, "OK") /\ wtsem' = [wtsem EXCEPT ![t] = NoSem]
    BY <1>1, <2>1
  <2>4. Units([cnt EXCEPT ![s] = @ + 1], [credit EXCEPT ![s] = @ + 1], k', call)
    BY <1>1, <2>2, <2>3, UnitsTypes, GrantUnits DEF UnitsInv
  <2>5. CallsOK(k', [wtsem EXCEPT ![t] = NoSem], call)
    BY <1>1, <2>2, <2>3, UnitsTypes, GrantUnits DEF UnitsInv
  <2> QED BY <2>3, <2>4, <2>5 DEF UnitsInv
<1>2. CASE ~ (cnt[s] + 1 <= 0)
  <2>1. Kept(k, k') /\ wtsem' = wtsem /\ cnt[s] + 1 > 0
    BY <1>0, <1>2
  <2>2. Units([cnt EXCEPT ![s] = @ + 1], [credit EXCEPT ![s] = @ + 1], k', call)
    BY <2>1, UnitsTypes, PutUnits DEF UnitsInv
  <2>3. CallsOK(k', wtsem, call)
    BY <2>1, UnitsTypes, PutUnits DEF UnitsInv
  <2> QED BY <2>1, <2>2, <2>3 DEF UnitsInv
<1> QED BY <1>1, <1>2

\* A step that neither moves a unit nor wakes a waiting thread.
LEMMA KeptUnits ==
    ASSUME UnitsInv, Kept(k, k'), UNCHANGED <<cnt, wtsem, call, credit>>
    PROVE  UnitsInv'
<1>1. \A z : Flight(k', call, z) = Flight(k, call, z)
  BY FlightKept
<1>2. CallsOK(k', wtsem, call)
  BY FlightKept DEF UnitsInv
<1> QED BY <1>1, <1>2 DEF UnitsInv, Units

\* A thread that was not waiting becomes ready: no unit moves.
LEMMA StartUnits ==
    ASSUME IInv, UnitsInv, NEW t \in Threads, k.state[t] = "WTSTART", Signalled(k, k', t, "OK"),
           UNCHANGED <<cnt, wtsem, call, credit>>
    PROVE  UnitsInv'
<1>1. call[t] = NoSem /\ NoSem \notin Sems
  BY SemAssumption DEF UnitsInv, CallsOK
<1>2. k.rdymsg \in [Threads -> Messages]
  BY UnitsTypes DEF KernelType
<1>3. \A u \in Threads \ {t} :
         /\ (k'.state[u] = "WTSEM") <=> (k.state[u] = "WTSEM")
         /\ (k'.state[u] = "WTSTART") <=> (k.state[u] = "WTSTART")
         /\ k'.rdymsg[u] = k.rdymsg[u]
  BY <1>2 DEF Signalled, Woken, Others
<1>4. k'.state[t] # "WTSEM" /\ k'.state[t] # "WTSTART"
  BY DEF Signalled, Woken
<1>5. ASSUME NEW z \in Sems
      PROVE  Flight(k', call, z) = Flight(k, call, z)
  BY <1>1, <1>3 DEF Flight
<1>6. CallsOK(k', wtsem, call)
  BY <1>3, <1>4 DEF UnitsInv, CallsOK
<1> QED BY <1>5, <1>6 DEF UnitsInv, Units

LEMMA WaitUnits ==
    ASSUME IInv, OrderInv, UnitsInv, NEW c \in Cores, NEW s \in Sems, NEW timed \in BOOLEAN,
           chSemWaitTimeoutS(c, s, timed)
    PROVE  UnitsInv'
<1>0. /\ Caller(c) /\ cnt[s] \in Int /\ cnt' = [cnt EXCEPT ![s] = @ - 1]
      /\ Units(cnt, credit, k, call) /\ CallsOK(k, wtsem, call)
  BY UnitsTypes DEF chSemWaitTimeoutS, UnitsInv
<1>1. CASE cnt[s] - 1 < 0
  <2>1. PICK t : t = k.current[c] /\ t \in Threads /\ k.state[t] = "CURRENT" /\ call[t] = NoSem
    BY <1>0, CallerFacts DEF Caller
  <2>2. Slept(k, k', t)
    BY <1>1, <2>1, WaitEffect
  <2>3. /\ wtsem' = [wtsem EXCEPT ![t] = s] /\ call' = [call EXCEPT ![t] = s]
        /\ credit' = credit
    BY <1>0, <1>1, <2>1 DEF chSemWaitTimeoutS, GoWait
  <2>4. Units([cnt EXCEPT ![s] = @ - 1], credit, k', [call EXCEPT ![t] = s])
    BY <1>0, <1>1, <2>1, <2>2, UnitsTypes, BlockUnits
  <2>5. CallsOK(k', [wtsem EXCEPT ![t] = s], [call EXCEPT ![t] = s])
    BY <1>0, <1>1, <2>1, <2>2, UnitsTypes, BlockUnits
  <2> QED BY <1>0, <2>3, <2>4, <2>5 DEF UnitsInv
<1>2. CASE ~ (cnt[s] - 1 < 0)
  <2>1. k' = k /\ wtsem' = wtsem /\ call' = call /\ credit' = [credit EXCEPT ![s] = @ - 1]
    BY <1>0, <1>2 DEF chSemWaitTimeoutS
  <2>2. Kept(k, k') /\ cnt[s] > 0
    BY <1>0, <1>2, <2>1 DEF Kept, Others
  <2>3. Units([cnt EXCEPT ![s] = @ - 1], [credit EXCEPT ![s] = @ - 1], k', call)
    BY <1>0, <2>2, UnitsTypes, TakeUnits
  <2> QED BY <1>0, <2>1, <2>3 DEF UnitsInv
<1> QED BY <1>1, <1>2

LEMMA ImmediateUnits ==
    ASSUME IInv, UnitsInv, NEW c \in Cores, NEW s \in Sems, WaitImmediate(c, s)
    PROVE  UnitsInv'
<1>1. /\ cnt' = [cnt EXCEPT ![s] = @ - 1] /\ credit' = [credit EXCEPT ![s] = @ - 1]
      /\ k' = k /\ wtsem' = wtsem /\ call' = call /\ cnt[s] > 0
      /\ Units(cnt, credit, k, call) /\ CallsOK(k, wtsem, call)
  BY DEF WaitImmediate, UnitsInv
<1>2. Kept(k, k')
  BY <1>1 DEF Kept, Others
<1>3. Units([cnt EXCEPT ![s] = @ - 1], [credit EXCEPT ![s] = @ - 1], k', call)
  BY <1>1, <1>2, UnitsTypes, TakeUnits
<1> QED BY <1>1, <1>3 DEF UnitsInv

LEMMA ReturnUnits ==
    ASSUME IInv, UnitsInv, NEW c \in Cores, Return(c)
    PROVE  UnitsInv'
<1>1. PICK t, s : t = k.current[c] /\ s = call[t]
  OBVIOUS
<1>2. /\ loop = NoLoop /\ InThread(k, c) /\ s # NoSem
      /\ credit' = [credit EXCEPT ![s] = IF k.rdymsg[t] = "OK" THEN @ - 1 ELSE @]
      /\ call' = [call EXCEPT ![t] = NoSem]
      /\ k' = k /\ cnt' = cnt /\ wtsem' = wtsem
  BY <1>1 DEF Return
<1>3. t \in Threads /\ k.state[t] = "CURRENT"
  BY <1>1, <1>2 DEF IInv, KInv, KInvX, KernelType
<1>4. /\ s \in Sems /\ cnt \in [Sems -> Int] /\ credit \in [Sems -> Int]
      /\ call \in [Threads -> Sems \union {NoSem}]
  BY <1>1, <1>2, <1>3, UnitsTypes
<1>5. CallsOK(k, wtsem, [call EXCEPT ![t] = NoSem])
  BY <1>1, <1>3, <1>4, FlightReturned DEF UnitsInv
<1>6. PICK cl : cl = [call EXCEPT ![t] = NoSem]
  OBVIOUS
<1>7. TookUnit(k, call, cl, t, s)
  BY <1>1, <1>3, <1>4, <1>6, FlightReturned
<1>10. /\ Cardinality(Flight(k, call, s)) \in Nat
       /\ Cardinality(Flight(k, cl, s)) = IF k.rdymsg[t] = "OK" THEN Cardinality(Flight(k, call, s)) - 1
                                          ELSE Cardinality(Flight(k, call, s))
  BY <1>7, FlightCard DEF TookUnit
<1>11. ASSUME NEW z \in Sems
       PROVE  credit'[z] = (IF cnt[z] > 0 THEN cnt[z] ELSE 0) + Cardinality(Flight(k, cl, z))
  <2>1. credit[z] = (IF cnt[z] > 0 THEN cnt[z] ELSE 0) + Cardinality(Flight(k, call, z))
    BY DEF UnitsInv, Units
  <2>2. CASE z = s
    BY <1>2, <1>4, <1>10, <2>1, <2>2
  <2>3. CASE z # s
    BY <1>2, <1>4, <1>7, <2>1, <2>3 DEF TookUnit
  <2> QED BY <2>2, <2>3
<1> QED BY <1>2, <1>5, <1>6, <1>11 DEF UnitsInv, Units

LEMMA ResetUnits ==
    ASSUME IInv, OrderInv, UnitsInv, NEW c \in Cores, NEW s \in Sems, NEW n \in 0 .. MaxCount,
           NEW thread \in BOOLEAN, chSemResetWithMessageI(c, s, n, thread)
    PROVE  UnitsInv'
<1>1. /\ Context(c, thread) /\ cnt' = [cnt EXCEPT ![s] = n] /\ wtsem' = wtsem /\ call' = call
      /\ credit' = [credit EXCEPT ![s] = n + Cardinality(InFlight(s))]
      /\ loop'.op # "none" /\ loop'.core = c /\ loop'.thread = thread
  BY DEF chSemResetWithMessageI
<1>2. Kept(k, k')
  BY <1>1, ContextEffect
<1>3. \A z : Flight(k', call, z) = Flight(k, call, z)
  BY <1>2, FlightKept
<1>4. CallsOK(k', wtsem, call)
  BY <1>2, FlightKept DEF UnitsInv
<1>5. n \in Int /\ n >= 0 /\ InFlight(s) = Flight(k, call, s)
  BY SemAssumption DEF InFlight, Flight
<1>6. ASSUME NEW z \in Sems
      PROVE  credit'[z] = (IF cnt'[z] > 0 THEN cnt'[z] ELSE 0) + Cardinality(Flight(k', call, z))
  <2>1. /\ credit[z] = (IF cnt[z] > 0 THEN cnt[z] ELSE 0) + Cardinality(Flight(k, call, z))
        /\ Cardinality(Flight(k, call, z)) \in Nat
    BY FlightCard DEF UnitsInv, Units
  <2>2. CASE z = s
    BY <1>1, <1>3, <1>5, <2>1, <2>2, UnitsTypes
  <2>3. CASE z # s
    BY <1>1, <1>3, <2>1, <2>3, UnitsTypes
  <2> QED BY <2>2, <2>3
<1> QED BY <1>1, <1>4, <1>6 DEF UnitsInv, Units

\* The signal of chSemSignalWait(), then its wait.
LEMMA SignalWaitUnits ==
    ASSUME IInv, OrderInv, UnitsInv, NEW c \in Cores, NEW s1 \in Sems, NEW s2 \in Sems,
           chSemSignalWait(c, s1, s2)
    PROVE  UnitsInv'
<1>1. PICK t, tp :
         /\ t = k.current[c] /\ tp = Head(queue[s1]) /\ Caller(c) /\ s1 # s2
         /\ cnt' = [cnt EXCEPT ![s1] = @ + 1, ![s2] = @ - 1]
         /\ wtsem' = [u \in Threads |-> IF cnt[s1] + 1 <= 0 /\ u = tp THEN NoSem
                                        ELSE IF cnt[s2] - 1 < 0 /\ u = t THEN s2 ELSE wtsem[u]]
         /\ call' = [call EXCEPT ![t] = IF cnt[s2] - 1 < 0 THEN s2 ELSE @]
         /\ credit' = [credit EXCEPT ![s1] = @ + 1, ![s2] = IF cnt[s2] - 1 < 0 THEN @ ELSE @ - 1]
  BY DEF chSemSignalWait
<1>2. /\ cnt \in [Sems -> Int] /\ credit \in [Sems -> Int] /\ k \in KernelType
      /\ call \in [Threads -> Sems \union {NoSem}] /\ wtsem \in [Threads -> Sems \union {NoSem}]
      /\ cnt[s1] \in Int /\ cnt[s2] \in Int
      /\ Units(cnt, credit, k, call) /\ CallsOK(k, wtsem, call)
  BY UnitsTypes DEF UnitsInv
<1>3. /\ loop.op # "reset" /\ t \in Threads /\ k.state[t] = "CURRENT" /\ call[t] = NoSem
  BY <1>1, CallerFacts, Quiet DEF Caller
<1>4. PICK kk :
         /\ kk.current[c] = t /\ kk.state[t] = "CURRENT"
         /\ IF cnt[s1] + 1 <= 0 THEN Signalled(k, kk, tp, "OK") ELSE kk = k
         /\ IF cnt[s2] - 1 < 0 THEN Slept(kk, k', t) ELSE Kept(kk, k')
  BY <1>1, SignalWaitEffect
<1>5. PICK cn, cr, wt :
         /\ cn = [cnt EXCEPT ![s1] = @ + 1] /\ cr = [credit EXCEPT ![s1] = @ + 1]
         /\ wt = IF cnt[s1] + 1 <= 0 THEN [wtsem EXCEPT ![tp] = NoSem] ELSE wtsem
  OBVIOUS
<1>6. /\ cn \in [Sems -> Int] /\ cr \in [Sems -> Int] /\ cn[s2] = cnt[s2]
      /\ wt \in [Threads -> Sems \union {NoSem}]
  <2>1. cn \in [Sems -> Int] /\ cr \in [Sems -> Int] /\ cn[s2] = cnt[s2]
    BY <1>1, <1>2, <1>5
  <2>2. [wtsem EXCEPT ![tp] = NoSem] \in [Threads -> Sems \union {NoSem}]
    BY <1>2
  <2> QED BY <1>2, <1>5, <2>1, <2>2
<1>7. Units(cn, cr, kk, call) /\ CallsOK(kk, wt, call)
  <2>1. CASE cnt[s1] + 1 <= 0
    <3>1. tp \in Threads /\ k.state[tp] = "WTSEM" /\ wtsem[tp] = s1
      BY <1>1, <1>3, <2>1, HeadWaits
    <3>2. Signalled(k, kk, tp, "OK") /\ wt = [wtsem EXCEPT ![tp] = NoSem]
      BY <1>4, <1>5, <2>1
    <3>3. Units([cnt EXCEPT ![s1] = @ + 1], [credit EXCEPT ![s1] = @ + 1], kk, call)
      BY <1>2, <2>1, <3>1, <3>2, GrantUnits
    <3>4. CallsOK(kk, [wtsem EXCEPT ![tp] = NoSem], call)
      BY <1>2, <2>1, <3>1, <3>2, GrantUnits
    <3> QED BY <1>5, <3>2, <3>3, <3>4
  <2>2. CASE ~ (cnt[s1] + 1 <= 0)
    <3>1. kk = k /\ wt = wtsem /\ cnt[s1] + 1 > 0 /\ Kept(k, kk)
      BY <1>2, <1>4, <1>5, <2>2 DEF Kept, Others
    <3>2. Units([cnt EXCEPT ![s1] = @ + 1], [credit EXCEPT ![s1] = @ + 1], kk, call)
      BY <1>2, <3>1, PutUnits
    <3> QED BY <1>2, <1>5, <3>1, <3>2
  <2> QED BY <2>1, <2>2
<1>8. CASE cnt[s2] - 1 < 0
  <2>1. Slept(kk, k', t) /\ cn[s2] - 1 < 0
    BY <1>4, <1>6, <1>8
  <2>2. Units([cn EXCEPT ![s2] = @ - 1], cr, k', [call EXCEPT ![t] = s2])
    BY <1>2, <1>3, <1>4, <1>6, <1>7, <2>1, BlockUnits
  <2>3. CallsOK(k', [wt EXCEPT ![t] = s2], [call EXCEPT ![t] = s2])
    BY <1>2, <1>3, <1>4, <1>6, <1>7, <2>1, BlockUnits
  <2>4. cnt' = [cn EXCEPT ![s2] = @ - 1] /\ call' = [call EXCEPT ![t] = s2]
    BY <1>1, <1>2, <1>5, <1>8
  <2>5. credit' = cr
    BY <1>1, <1>2, <1>5, <1>8
  <2>6. wtsem' = [wt EXCEPT ![t] = s2]
    <3>1. cnt[s1] + 1 <= 0 => tp # t
      BY <1>1, <1>3, HeadWaits
    <3> QED BY <1>1, <1>2, <1>5, <1>8, <3>1
  <2> QED BY <2>2, <2>3, <2>4, <2>5, <2>6 DEF UnitsInv
<1>9. CASE ~ (cnt[s2] - 1 < 0)
  <2>1. Kept(kk, k') /\ cn[s2] > 0
    BY <1>2, <1>4, <1>6, <1>9
  <2>2. Units([cn EXCEPT ![s2] = @ - 1], [cr EXCEPT ![s2] = @ - 1], k', call)
    BY <1>2, <1>3, <1>6, <1>7, <2>1, TakeUnits
  <2>3. CallsOK(k', wt, call)
    BY <1>2, <1>3, <1>6, <1>7, <2>1, TakeUnits
  <2>4. cnt' = [cn EXCEPT ![s2] = @ - 1] /\ call' = call
    BY <1>1, <1>2, <1>5, <1>9
  <2>5. credit' = [cr EXCEPT ![s2] = @ - 1]
    BY <1>1, <1>2, <1>5, <1>9
  <2>6. wtsem' = wt
    BY <1>1, <1>2, <1>5, <1>9
  <2> QED BY <2>2, <2>3, <2>4, <2>5, <2>6 DEF UnitsInv
<1> QED BY <1>8, <1>9

LEMMA ResetIterationUnits ==
    ASSUME IInv, OrderInv, UnitsInv, ResetIteration
    PROVE  UnitsInv'
<1>1. PICK t, s : t = Head(queue[loop.sem]) /\ s = loop.sem
  OBVIOUS
<1>2. /\ wtsem' = [wtsem EXCEPT ![t] = NoSem] /\ cnt' = cnt /\ call' = call /\ credit' = credit
      /\ Units(cnt, credit, k, call) /\ CallsOK(k, wtsem, call)
  BY <1>1 DEF ResetIteration, UnitsInv
<1>3. Signalled(k, k', t, "RESET") /\ s \in Sems /\ t \in ToSet(queue[s])
  BY <1>1, ResetIterationEffect
<1>4. t \in Threads /\ k.state[t] = "WTSEM" /\ wtsem[t] = s
  BY <1>3 DEF IInv, QueuesOK
<1>5. Units(cnt, credit, k', call)
  BY <1>2, <1>3, <1>4, UnitsTypes, NoUnits
<1>6. CallsOK(k', [wtsem EXCEPT ![t] = NoSem], call)
  BY <1>2, <1>3, <1>4, UnitsTypes, NoUnits
<1> QED BY <1>2, <1>5, <1>6 DEF UnitsInv

LEMMA AddIterationUnits ==
    ASSUME IInv, OrderInv, UnitsInv, AddIteration
    PROVE  UnitsInv'
<1>1. PICK s : s = loop.sem
  OBVIOUS
<1>2. /\ loop.op # "reset" /\ s \in Sems /\ cnt[s] \in Int
      /\ IF cnt[s] + 1 <= 0 THEN Signalled(k, k', Head(queue[s]), "OK") ELSE Kept(k, k')
  BY <1>1, AddIterationEffect, UnitsTypes
<1>3. /\ cnt' = [cnt EXCEPT ![s] = @ + 1] /\ credit' = [credit EXCEPT ![s] = @ + 1]
      /\ wtsem' = IF cnt[s] + 1 <= 0 THEN [wtsem EXCEPT ![Head(queue[s])] = NoSem] ELSE wtsem
      /\ call' = call
  BY <1>1, <1>2 DEF AddIteration, Signal
<1> QED BY <1>2, <1>3, SignalUnits

\* chSemSignal() and chSemSignalI().
LEMMA SignalCallUnits ==
    ASSUME IInv, OrderInv, UnitsInv, NEW c \in Cores, NEW s \in Sems,
           chSemSignal(c, s) \/ chSemSignalI(c, s)
    PROVE  UnitsInv'
<1>1. /\ loop = NoLoop /\ call' = call /\ cnt' = [cnt EXCEPT ![s] = @ + 1]
      /\ credit' = [credit EXCEPT ![s] = @ + 1]
  BY DEF chSemSignal, chSemSignalI, Signal, Caller
<1>2. loop.op # "reset" /\ cnt[s] \in Int
  BY <1>1, UnitsTypes DEF NoLoop
<1>3. wtsem' = IF cnt[s] + 1 <= 0 THEN [wtsem EXCEPT ![Head(queue[s])] = NoSem] ELSE wtsem
  BY <1>2 DEF chSemSignal, chSemSignalI, Signal
<1>4. IF cnt[s] + 1 <= 0 THEN Signalled(k, k', Head(queue[s]), "OK") ELSE Kept(k, k')
  BY SignalEffect, SignalIEffect
<1> QED BY <1>1, <1>2, <1>3, <1>4, SignalUnits

\* The timeout callback gives back to the counter a unit that was never there.
LEMMA TimeoutUnits ==
    ASSUME IInv, OrderInv, UnitsInv, NEW c \in Cores, sch_wakeup(c)
    PROVE  UnitsInv'
<1>1. call' = call /\ credit' = credit
  BY DEF sch_wakeup
<1>2. CASE Kept(k, k') /\ UNCHANGED <<cnt, wtsem>>
  BY <1>1, <1>2, KeptUnits
<1>3. CASE \E t \in Threads, s \in Sems :
              /\ k.state[t] = "WTSEM" /\ wtsem[t] = s /\ Signalled(k, k', t, "TIMEOUT")
              /\ cnt' = [cnt EXCEPT ![s] = @ + 1] /\ wtsem' = [wtsem EXCEPT ![t] = NoSem]
              /\ cnt[s] < 0
  <2>1. PICK t \in Threads, s \in Sems :
              /\ k.state[t] = "WTSEM" /\ wtsem[t] = s /\ Signalled(k, k', t, "TIMEOUT")
              /\ cnt' = [cnt EXCEPT ![s] = @ + 1] /\ wtsem' = [wtsem EXCEPT ![t] = NoSem]
              /\ cnt[s] < 0
    BY <1>3
  <2>2. Units(cnt, credit, k, call) /\ CallsOK(k, wtsem, call) /\ cnt \in [Sems -> Int]
    BY UnitsTypes DEF UnitsInv
  <2>3. Units(cnt, credit, k', call)
    BY <2>1, <2>2, UnitsTypes, NoUnits
  <2>4. CallsOK(k', [wtsem EXCEPT ![t] = NoSem], call)
    BY <2>1, <2>2, UnitsTypes, NoUnits
  <2>5. \A z \in Sems : (IF cnt'[z] > 0 THEN cnt'[z] ELSE 0) = IF cnt[z] > 0 THEN cnt[z] ELSE 0
    BY <2>1, <2>2
  <2>6. Units(cnt', credit, k', call)
    BY <2>3, <2>5 DEF Units
  <2> QED BY <1>1, <2>1, <2>4, <2>6 DEF UnitsInv
<1> QED BY <1>2, <1>3, TimeoutEffect

-----------------------------------------------------------------------------
(* The theorems *)

\* IInv is inductive: it holds initially and every step preserves it.
THEOREM Inductive == Spec => []IInv
<1>1. Init => IInv
  <2> SUFFICES ASSUME Init PROVE IInv
    OBVIOUS
  <2>1. KInv(k) /\ k \in KernelType
    BY KernelInitInv, SemAssumption DEF Init, KInv, KInvX
  <2>2. \A t \in Threads : k.state[t] \in SemStates /\ k.state[t] # "WTSEM"
    BY DEF Init, KernelInit, SemStates
  <2>3. \A s \in Sems : queue[s] = <<>> /\ cnt[s] \in Int /\ cnt[s] >= 0
    BY SemAssumption DEF Init
  <2>4. \A s \in Sems : /\ NoDuplicates(queue[s]) /\ SortedByPrio(queue[s], k.prio)
                        /\ ToSet(queue[s]) = {} /\ Len(queue[s]) = 0
    BY <2>3 DEF NoDuplicates, SortedByPrio, IsSorted, ToSet
  <2>5. TypeOK
    <3>1. cnt \in [Sems -> Counters] /\ credit \in [Sems -> Int]
      BY SemAssumption DEF Init, Counters
    <3>2. queue \in [Sems -> Seq(Threads)]
      BY DEF Init
    <3>3. /\ wtsem \in [Threads -> Sems \union {NoSem}] /\ call \in [Threads -> Sems \union {NoSem}]
          /\ loop \in Loops \union {NoLoop}
      BY DEF Init
    <3> QED BY <2>1, <3>1, <3>2, <3>3 DEF TypeOK
  <2>6. QueuesOK(k, queue, wtsem)
    BY <2>2, <2>4, <2>5 DEF QueuesOK, TypeOK
  <2>7. CountsOK(cnt, queue, loop) /\ LoopOK(k, cnt, loop)
    BY <2>3, <2>4 DEF CountsOK, LoopOK, Init, NoLoop
  <2> QED BY <2>1, <2>5, <2>6, <2>7 DEF IInv
<1>2. IInv /\ [Next]_vars => IInv'
  <2> SUFFICES ASSUME IInv, [Next]_vars PROVE IInv'
    OBVIOUS
  <2>1. ASSUME NEW c \in Cores, SemCall(c)
        PROVE  IInv'
    <3>1. PICK s \in Sems :
             \/ \E timed \in BOOLEAN : chSemWaitTimeoutS(c, s, timed)
             \/ WaitImmediate(c, s)
             \/ chSemSignal(c, s)
             \/ chSemSignalI(c, s)
             \/ \E s2 \in Sems : chSemSignalWait(c, s, s2)
             \/ \E n \in 0 .. MaxCount, thread \in BOOLEAN :
                   \/ chSemResetWithMessageI(c, s, n, thread)
                   \/ chSemAddCounterI(c, s, n, thread)
      BY <2>1 DEF SemCall
    <3>2. CASE \E timed \in BOOLEAN : chSemWaitTimeoutS(c, s, timed)
      BY <3>2, WaitInv
    <3>3. CASE WaitImmediate(c, s)
      BY <3>3, ImmediateInv
    <3>4. CASE chSemSignal(c, s)
      BY <3>4, SignalInv
    <3>5. CASE chSemSignalI(c, s)
      BY <3>5, SignalIInv
    <3>6. CASE \E s2 \in Sems : chSemSignalWait(c, s, s2)
      BY <3>6, SignalWaitInv
    <3>7. CASE \E n \in 0 .. MaxCount, thread \in BOOLEAN : chSemResetWithMessageI(c, s, n, thread)
      BY <3>7, ResetInv
    <3>8. CASE \E n \in 0 .. MaxCount, thread \in BOOLEAN : chSemAddCounterI(c, s, n, thread)
      BY <3>8, AddInv
    <3> QED BY <3>1, <3>2, <3>3, <3>4, <3>5, <3>6, <3>7, <3>8
  <2>2. ASSUME NEW c \in Cores, Return(c)
        PROVE  IInv'
    BY <2>2, ReturnInv
  <2>3. ASSUME NEW c \in Cores, KernelIrq(c)
        PROVE  IInv'
    <3>1. CASE sch_wakeup(c)
      BY <3>1, TimeoutInv
    <3>2. CASE \/ \E t \in UserThreads : chThdStartI(c, t)
               \/ \E t \in Threads : Expire(c, t)
               \/ Notified(c)
               \/ ExitIsr(c)
      BY <3>2, IrqInv
    <3> QED BY <2>3, <3>1, <3>2 DEF KernelIrq
  <2>4. ASSUME LoopStep
        PROVE  IInv'
    BY <2>4, ResetIterationInv, AddIterationInv, LoopEndInv DEF LoopStep
  <2>5. CASE UNCHANGED vars
    BY <2>5 DEF vars, IInv, TypeOK
  <2> QED BY <2>1, <2>2, <2>3, <2>4, <2>5 DEF Next
<1> QED BY <1>1, <1>2, PTL DEF Spec

\* Every variable keeps its type; in particular no semaphore counter leaves
\* its range, whatever signals, resets, additions and timeouts are mixed.
THEOREM TypeCorrect == Spec => []TypeOK
<1>1. IInv => TypeOK
  BY DEF IInv
<1> QED BY <1>1, Inductive, PTL

\* The semaphore and its queue always agree: chsem.c's "inconsistent
\* semaphore" assertions never fire, and the queue is exactly the set of the
\* threads that wait, in priority order where that is configured.
THEOREM Consistent == Spec => []SemConsistent
<1>1. IInv => SemConsistent
  <2> SUFFICES ASSUME IInv, NEW s \in Sems
               PROVE  /\ NoDuplicates(queue[s])
                      /\ ToSet(queue[s]) = {t \in Threads : k.state[t] = "WTSEM" /\ wtsem[t] = s}
                      /\ SemPriority => SortedByPrio(queue[s], k.prio)
                      /\ (loop.op = "reset" => loop.sem # s) =>
                            IF cnt[s] < 0 THEN Len(queue[s]) = - cnt[s] ELSE queue[s] = <<>>
    BY DEF SemConsistent
  <2>1. /\ NoDuplicates(queue[s])
        /\ ToSet(queue[s]) = {t \in Threads : k.state[t] = "WTSEM" /\ wtsem[t] = s}
        /\ SemPriority => SortedByPrio(queue[s], k.prio)
    BY DEF IInv, QueuesOK
  <2>2. (loop.op = "reset" => loop.sem # s) => Len(queue[s]) = IF cnt[s] < 0 THEN - cnt[s] ELSE 0
    BY DEF IInv, CountsOK
  <2>3. queue[s] \in Seq(Threads)
    BY DEF IInv, TypeOK
  <2>4. Len(queue[s]) = 0 => queue[s] = <<>>
    BY <2>3, EmptySeq
  <2> QED BY <2>1, <2>2, <2>4
<1> QED BY <1>1, Inductive, PTL

\* Under the semaphores the kernel's own structures stay exact: each ready
\* list holds the ready threads of its core once each and in priority order,
\* and each core runs one thread, one of its own.
THEOREM KernelExact == Spec => [](ReadyListExact(k) /\ ReadyListSorted(k) /\ CurrentExact(k))
<1>1. IInv => ReadyListExact(k) /\ ReadyListSorted(k) /\ CurrentExact(k)
  BY KInvImplies DEF IInv
<1> QED BY <1>1, Inductive, PTL

\* The order of the cores and the units, preserved together by every step of
\* a state that satisfies IInv.
LEMMA OrderAndUnits ==
    ASSUME IInv, OrderInv, UnitsInv, [Next]_vars
    PROVE  OrderInv' /\ UnitsInv'
<1>1. ASSUME NEW c \in Cores, NEW s \in Sems, NEW timed \in BOOLEAN, chSemWaitTimeoutS(c, s, timed)
      PROVE  OrderInv' /\ UnitsInv'
  <2>1. UnitsInv'
    BY <1>1, WaitUnits
  <2>2. CASE cnt[s] - 1 < 0
    BY <1>1, <2>1, <2>2, WaitEffect
  <2>3. CASE ~ (cnt[s] - 1 < 0)
    <3>1. k' = k /\ loop' = loop
      BY <1>1, <2>3 DEF chSemWaitTimeoutS
    <3> QED BY <2>1, <3>1 DEF OrderInv
  <2> QED BY <2>2, <2>3
<1>2. ASSUME NEW c \in Cores, NEW s \in Sems, WaitImmediate(c, s)
      PROVE  OrderInv' /\ UnitsInv'
  BY <1>2, ImmediateUnits DEF WaitImmediate, OrderInv
<1>3. ASSUME NEW c \in Cores, NEW s \in Sems, chSemSignal(c, s) \/ chSemSignalI(c, s)
      PROVE  OrderInv' /\ UnitsInv'
  BY <1>3, SignalCallUnits, SignalEffect, SignalIEffect
<1>4. ASSUME NEW c \in Cores, NEW s1 \in Sems, NEW s2 \in Sems, chSemSignalWait(c, s1, s2)
      PROVE  OrderInv' /\ UnitsInv'
  BY <1>4, SignalWaitUnits, SignalWaitEffect
<1>5. ASSUME NEW c \in Cores, NEW s \in Sems, NEW n \in 0 .. MaxCount, NEW thread \in BOOLEAN,
             chSemResetWithMessageI(c, s, n, thread)
      PROVE  OrderInv' /\ UnitsInv'
  <2>1. Context(c, thread) /\ loop'.op # "none" /\ loop'.core = c /\ loop'.thread = thread
    BY <1>5 DEF chSemResetWithMessageI
  <2> QED BY <1>5, <2>1, ResetUnits, ContextEffect
<1>6. ASSUME NEW c \in Cores, NEW s \in Sems, NEW n \in 0 .. MaxCount, NEW thread \in BOOLEAN,
             chSemAddCounterI(c, s, n, thread)
      PROVE  OrderInv' /\ UnitsInv'
  <2>1. /\ Context(c, thread) /\ loop'.op # "none" /\ loop'.core = c /\ loop'.thread = thread
        /\ UNCHANGED <<cnt, wtsem, call, credit>>
    BY <1>6 DEF chSemAddCounterI
  <2>2. Kept(k, k') /\ OrderInv'
    BY <2>1, ContextEffect
  <2> QED BY <2>1, <2>2, KeptUnits
<1>7. ASSUME NEW c \in Cores, Return(c)
      PROVE  OrderInv' /\ UnitsInv'
  BY <1>7, ReturnUnits DEF Return, OrderInv
<1>8. ASSUME NEW c \in Cores, NEW t \in UserThreads, chThdStartI(c, t)
      PROVE  OrderInv' /\ UnitsInv'
  <2>1. k.state[t] = "WTSTART" /\ t \in Threads /\ UNCHANGED <<cnt, wtsem, call, credit>>
    BY <1>8 DEF chThdStartI, UserThreads
  <2>2. Signalled(k, k', t, "OK") /\ OrderInv'
    BY <1>8, StartEffect
  <2> QED BY <2>1, <2>2, StartUnits
<1>9. ASSUME NEW c \in Cores, (\E t \in Threads : Expire(c, t)) \/ Notified(c) \/ ExitIsr(c)
      PROVE  OrderInv' /\ UnitsInv'
  <2>1. UNCHANGED <<cnt, wtsem, call, credit>>
    BY <1>9 DEF Expire, Notified, ExitIsr
  <2>2. Kept(k, k') /\ OrderInv'
    BY <1>9, IrqEffect
  <2> QED BY <2>1, <2>2, KeptUnits
<1>10. ASSUME NEW c \in Cores, sch_wakeup(c)
       PROVE  OrderInv' /\ UnitsInv'
  BY <1>10, TimeoutUnits, TimeoutEffect
<1>11. ASSUME LoopStep
       PROVE  OrderInv' /\ UnitsInv'
  <2>1. CASE ResetIteration
    BY <2>1, ResetIterationUnits, ResetIterationEffect
  <2>2. CASE AddIteration
    BY <2>2, AddIterationUnits, AddIterationEffect
  <2>3. CASE LoopEnd
    <3>1. UNCHANGED <<cnt, wtsem, call, credit>>
      BY <2>3 DEF LoopEnd
    <3>2. Kept(k, k') /\ OrderInv'
      BY <2>3, LoopEndEffect
    <3> QED BY <3>1, <3>2, KeptUnits
  <2> QED BY <1>11, <2>1, <2>2, <2>3 DEF LoopStep
<1>12. CASE UNCHANGED vars
  BY <1>12 DEF vars, OrderInv, UnitsInv, Units, CallsOK, Flight
<1>13. ASSUME NEW c \in Cores, SemCall(c)
       PROVE  OrderInv' /\ UnitsInv'
  BY <1>1, <1>2, <1>3, <1>4, <1>5, <1>6, <1>13 DEF SemCall
<1>14. ASSUME NEW c \in Cores, KernelIrq(c)
       PROVE  OrderInv' /\ UnitsInv'
  BY <1>8, <1>9, <1>10, <1>14 DEF KernelIrq
<1> QED BY <1>7, <1>11, <1>12, <1>13, <1>14 DEF Next

\* Initially no thread is in a call and each core runs its idle thread.
LEMMA InitOrderAndUnits ==
    ASSUME Init
    PROVE  OrderInv /\ UnitsInv
<1>1. OrderedBut(k, {})
  BY KernelInitOrder, SemAssumption DEF Init
<1>2. OrderInv
  BY <1>1 DEF OrderInv, Init, NoLoop
<1>3. \A t \in Threads : call[t] = NoSem /\ k.state[t] # "WTSEM"
  BY DEF Init, KernelInit
<1>4. CallsOK(k, wtsem, call)
  BY <1>3 DEF CallsOK
<1>5. \A s \in Sems : Flight(k, call, s) = {}
  BY <1>3, SemAssumption DEF Flight
<1>6. Cardinality({}) = 0
  BY FS_EmptySet
<1>7. \A s \in Sems : credit[s] = cnt[s] /\ cnt[s] \in Int /\ cnt[s] >= 0
  BY SemAssumption DEF Init
<1>8. Units(cnt, credit, k, call)
  BY <1>5, <1>6, <1>7 DEF Units
<1> QED BY <1>2, <1>4, <1>8 DEF UnitsInv

\* OrderInv and UnitsInv, inductive together with IInv.
THEOREM InductiveOrderUnits == Spec => [](OrderInv /\ UnitsInv)
<1>1. Init => OrderInv /\ UnitsInv
  BY InitOrderAndUnits
<1>2. IInv /\ (OrderInv /\ UnitsInv) /\ [Next]_vars => (OrderInv /\ UnitsInv)'
  BY OrderAndUnits
<1> QED BY <1>1, <1>2, Inductive, PTL DEF Spec

\* The kernel under the semaphores is sound in every state: its lists are
\* exact and sorted, and, outside interrupt handlers and pending reschedule
\* interrupts, no ready thread of a core is more important than the one it
\* runs.  The resets and additions included, once their loop is over: no
\* path of chsem.c forgets to reschedule.
THEOREM KernelSound == Spec => []KernelOK
<1>1. IInv /\ OrderInv => KernelOK
  <2> SUFFICES ASSUME IInv, OrderInv PROVE KernelOK
    OBVIOUS
  <2>1. ReadyListExact(k) /\ ReadyListSorted(k) /\ CurrentExact(k)
    BY KInvImplies DEF IInv
  <2>2. ASSUME loop = NoLoop, NEW c \in Cores \ (k.isr \union k.notified)
        PROVE  PriorityOrder(k, c)
    <3>1. OrderedBut(k, {}) /\ KInv(k)
      BY <2>2, OrderQuiet
    <3>2. Ordered(k, c)
      BY <2>2, <3>1 DEF OrderedBut
    <3> QED BY <2>2, <3>1, <3>2, OrderedIff
  <2> QED BY <2>1, <2>2 DEF KernelOK
<1> QED BY <1>1, Inductive, InductiveOrderUnits, PTL

\* No unit of a semaphore is lost or made up, whatever signals, resets,
\* additions, timeouts and late returns are interleaved: a timeout that races
\* a signal either leaves the unit to the thread or gives the count back.
THEOREM Conserved == Spec => []UnitsConserved
<1>1. UnitsInv => UnitsConserved
  BY UnitsIs DEF UnitsInv
<1> QED BY <1>1, InductiveOrderUnits, PTL

-----------------------------------------------------------------------------
(* RtSem implements SemSpec: each step of the code is one step of a         *)
(* counting semaphore or is invisible to its users.                         *)

\* The three variables of SemSpec as functions of the state.
Avail(cn) == [s \in Sems |-> IF cn[s] > 0 THEN cn[s] ELSE 0]

\* The threads that wait on s.
Waiters(kk, wt, s) == {t \in Threads : kk.state[t] = "WTSEM" /\ wt[t] = s}

\* s is being reset by the loop lp.
Resets(lp, s) == lp.op = "reset" /\ lp.sem = s

Waiting(kk, wt, lp) == [s \in Sems |-> IF Resets(lp, s) THEN {} ELSE Waiters(kk, wt, s)]

\* What the wait of t will return.
ResultOf(kk, cl, lp, t) ==
    IF cl[t] = NoSem THEN "none"
    ELSE IF kk.state[t] # "WTSEM" THEN kk.rdymsg[t]
    ELSE IF Resets(lp, cl[t]) THEN "RESET" ELSE "none"

Result(kk, cl, lp) == [t \in Threads |-> ResultOf(kk, cl, lp, t)]

AAvail == Avail(cnt)
AWaiting == Waiting(k, wtsem, loop)
AResult == Result(k, call, loop)

\* The abstract actions in these terms.
LEMMA TakeIs ==
    ASSUME NEW s \in Sems, AAvail[s] > 0, AAvail' = [AAvail EXCEPT ![s] = @ - 1],
           AWaiting' = AWaiting, AResult' = AResult
    PROVE  Abstract!Take(s)
BY DEF Abstract!Take, AAvail, AWaiting, AResult, Avail, Waiting, Waiters, Result, ResultOf,
       Resets, Resetting

LEMMA BlockIs ==
    ASSUME NEW t \in Threads, NEW s \in Sems,
           AResult[t] = "none", \A z \in Sems : t \notin AWaiting[z], AAvail[s] = 0,
           AWaiting' = [AWaiting EXCEPT ![s] = @ \union {t}],
           AAvail' = AAvail, AResult' = AResult
    PROVE  Abstract!Block(t, s)
BY DEF Abstract!Block, Abstract!Free, AAvail, AWaiting, AResult, Avail, Waiting, Waiters, Result,
       ResultOf, Resets, Resetting

LEMMA PutIs ==
    ASSUME NEW s \in Sems, AWaiting[s] = {}, AAvail[s] < MaxCount,
           AAvail' = [AAvail EXCEPT ![s] = @ + 1], AWaiting' = AWaiting, AResult' = AResult
    PROVE  Abstract!Put(s)
BY DEF Abstract!Put, AAvail, AWaiting, AResult, Avail, Waiting, Waiters, Result, ResultOf,
       Resets, Resetting

LEMMA GrantIs ==
    ASSUME NEW t \in Threads, NEW s \in Sems, t \in AWaiting[s],
           AWaiting' = [AWaiting EXCEPT ![s] = @ \ {t}],
           AResult' = [AResult EXCEPT ![t] = "OK"], AAvail' = AAvail
    PROVE  Abstract!Grant(t, s)
BY DEF Abstract!Grant, AAvail, AWaiting, AResult, Avail, Waiting, Waiters, Result, ResultOf,
       Resets, Resetting

LEMMA TimeOutIs ==
    ASSUME NEW t \in Threads, NEW s \in Sems, t \in AWaiting[s],
           AWaiting' = [AWaiting EXCEPT ![s] = @ \ {t}],
           AResult' = [AResult EXCEPT ![t] = "TIMEOUT"], AAvail' = AAvail
    PROVE  Abstract!TimeOut(t, s)
BY DEF Abstract!TimeOut, AAvail, AWaiting, AResult, Avail, Waiting, Waiters, Result, ResultOf,
       Resets, Resetting

LEMMA ResetIs ==
    ASSUME NEW s \in Sems, NEW n \in 0 .. MaxCount, AAvail' = [AAvail EXCEPT ![s] = n],
           AResult' = [t \in Threads |-> IF t \in AWaiting[s] THEN "RESET" ELSE AResult[t]],
           AWaiting' = [AWaiting EXCEPT ![s] = {}]
    PROVE  Abstract!Reset(s)
BY DEF Abstract!Reset, AAvail, AWaiting, AResult, Avail, Waiting, Waiters, Result, ResultOf,
       Resets, Resetting

LEMMA FinishIs ==
    ASSUME NEW t \in Threads, AResult[t] # "none", AResult' = [AResult EXCEPT ![t] = "none"],
           AAvail' = AAvail, AWaiting' = AWaiting
    PROVE  Abstract!Finish(t)
BY DEF Abstract!Finish, AAvail, AWaiting, AResult, Avail, Waiting, Waiters, Result, ResultOf,
       Resets, Resetting

LEMMA StutterIs ==
    ASSUME AAvail' = AAvail, AWaiting' = AWaiting, AResult' = AResult
    PROVE  UNCHANGED Abstract!svars
BY DEF Abstract!svars, AAvail, AWaiting, AResult, Avail, Waiting, Waiters, Result, ResultOf,
       Resets, Resetting

LEMMA PutAndWaitIs ==
    ASSUME NEW t \in Threads, NEW s1 \in Sems, NEW s2 \in Sems, s1 # s2,
           AResult[t] = "none", \A z \in Sems : t \notin AWaiting[z],
           NEW u \in AWaiting[s1] \union {t},
           u = t => AWaiting[s1] = {} /\ AAvail[s1] < MaxCount,
           AAvail' = [AAvail EXCEPT ![s1] = IF u = t THEN @ + 1 ELSE @,
                                    ![s2] = IF @ > 0 THEN @ - 1 ELSE @],
           AWaiting' = [AWaiting EXCEPT ![s1] = @ \ {u},
                                        ![s2] = IF AAvail[s2] > 0 THEN @ ELSE @ \union {t}],
           AResult' = IF u = t THEN AResult ELSE [AResult EXCEPT ![u] = "OK"]
    PROVE  Abstract!PutAndWait(t, s1, s2)
BY DEF Abstract!PutAndWait, Abstract!Free, AAvail, AWaiting, AResult, Avail, Waiting, Waiters,
       Result, ResultOf, Resets, Resetting

-----------------------------------------------------------------------------
(* What the kernel does to the waiting threads and to the results            *)

\* A step that moves no waiting thread.
LEMMA KeptAbs ==
    ASSUME NEW kk, NEW r, Kept(kk, r), NEW wt, NEW cl, NEW lp
    PROVE  Waiting(r, wt, lp) = Waiting(kk, wt, lp) /\ Result(r, cl, lp) = Result(kk, cl, lp)
<1>1. \A t \in Threads : /\ (r.state[t] = "WTSEM") <=> (kk.state[t] = "WTSEM")
                         /\ r.rdymsg[t] = kk.rdymsg[t]
  BY DEF Kept, Others
<1>2. \A s \in Sems : Waiters(r, wt, s) = Waiters(kk, wt, s)
  BY <1>1 DEF Waiters
<1>3. \A t \in Threads : ResultOf(r, cl, lp, t) = ResultOf(kk, cl, lp, t)
  BY <1>1 DEF ResultOf
<1>4. Waiting(r, wt, lp) = Waiting(kk, wt, lp)
  BY <1>2 DEF Waiting
<1>5. Result(r, cl, lp) = Result(kk, cl, lp)
  BY <1>3 DEF Result
<1> QED BY <1>4, <1>5

\* t leaves the threads that wait on s, with result msg.
LeavesWith(wa, wa2, re, re2, t, s, msg) ==
    t \in wa[s] /\ wa2 = [wa EXCEPT ![s] = @ \ {t}] /\ re2 = [re EXCEPT ![t] = msg]

LEMMA SignalledAbs ==
    ASSUME NEW kk \in KernelType, NEW r, NEW t \in Threads, NEW msg, Signalled(kk, r, t, msg),
           kk.state[t] = "WTSEM", NEW s \in Sems, NEW cl, cl[t] = s, NEW lp, ~ Resets(lp, s),
           NEW wt \in [Threads -> Sems \union {NoSem}], wt[t] = s
    PROVE  LeavesWith(Waiting(kk, wt, lp), Waiting(r, [wt EXCEPT ![t] = NoSem], lp),
                      Result(kk, cl, lp), Result(r, cl, lp), t, s, msg)
<1>1. kk.rdymsg \in [Threads -> Messages] /\ NoSem \notin Sems
  BY SemAssumption DEF KernelType
<1>2. \A u \in Threads \ {t} :
         /\ (r.state[u] = "WTSEM") <=> (kk.state[u] = "WTSEM")
         /\ r.rdymsg[u] = kk.rdymsg[u]
  BY <1>1 DEF Signalled, Woken, Others
<1>3. r.state[t] # "WTSEM" /\ r.rdymsg[t] = msg
  BY <1>1 DEF Signalled, Woken
<1>4. PICK w2 : w2 = [wt EXCEPT ![t] = NoSem]
  OBVIOUS
<1>5. \A z \in Sems : Waiters(r, w2, z) = IF z = s THEN Waiters(kk, wt, z) \ {t} ELSE Waiters(kk, wt, z)
  <2> SUFFICES ASSUME NEW z \in Sems
               PROVE  Waiters(r, w2, z) = IF z = s THEN Waiters(kk, wt, z) \ {t} ELSE Waiters(kk, wt, z)
    OBVIOUS
  <2>1. \A u \in Threads \ {t} : u \in Waiters(r, w2, z) <=> u \in Waiters(kk, wt, z)
    BY <1>2, <1>4 DEF Waiters
  <2>2. t \notin Waiters(r, w2, z) /\ (t \in Waiters(kk, wt, z) <=> z = s)
    BY <1>3 DEF Waiters
  <2>3. Waiters(r, w2, z) \subseteq Threads /\ Waiters(kk, wt, z) \subseteq Threads
    BY DEF Waiters
  <2> QED BY <2>1, <2>2, <2>3
<1>6. Waiting(r, w2, lp) = [Waiting(kk, wt, lp) EXCEPT ![s] = @ \ {t}]
  BY <1>5 DEF Waiting
<1>7. t \in Waiting(kk, wt, lp)[s]
  BY DEF Waiting, Waiters
<1>8. \A u \in Threads : ResultOf(r, cl, lp, u) = IF u = t THEN msg ELSE ResultOf(kk, cl, lp, u)
  BY <1>1, <1>2, <1>3 DEF ResultOf
<1>9. Result(r, cl, lp) = [Result(kk, cl, lp) EXCEPT ![t] = msg]
  BY <1>8 DEF Result
<1> QED BY <1>4, <1>6, <1>7, <1>9 DEF LeavesWith

\* Nothing changes for the users.
Unseen(wa, wa2, re, re2) == wa2 = wa /\ re2 = re

\* A thread that the loop of a reset wakes had left for the users already.
LEMMA ResetAbs ==
    ASSUME NEW kk \in KernelType, NEW r, NEW t \in Threads, Signalled(kk, r, t, "RESET"),
           kk.state[t] = "WTSEM", NEW s \in Sems, NEW cl, cl[t] = s, NEW lp, Resets(lp, s),
           NEW wt \in [Threads -> Sems \union {NoSem}], wt[t] = s
    PROVE  Unseen(Waiting(kk, wt, lp), Waiting(r, [wt EXCEPT ![t] = NoSem], lp),
                  Result(kk, cl, lp), Result(r, cl, lp))
<1>1. kk.rdymsg \in [Threads -> Messages] /\ NoSem \notin Sems
  BY SemAssumption DEF KernelType
<1>2. \A u \in Threads \ {t} :
         /\ (r.state[u] = "WTSEM") <=> (kk.state[u] = "WTSEM")
         /\ r.rdymsg[u] = kk.rdymsg[u]
  BY <1>1 DEF Signalled, Woken, Others
<1>3. r.state[t] # "WTSEM" /\ r.rdymsg[t] = "RESET"
  BY <1>1 DEF Signalled, Woken
<1>4. PICK w2 : w2 = [wt EXCEPT ![t] = NoSem]
  OBVIOUS
<1>5. \A z \in Sems \ {s} : Waiters(r, w2, z) = Waiters(kk, wt, z)
  BY <1>2, <1>3, <1>4 DEF Waiters
<1>6. Waiting(r, w2, lp) = Waiting(kk, wt, lp)
  BY <1>5 DEF Waiting
<1>7. \A u \in Threads : ResultOf(r, cl, lp, u) = ResultOf(kk, cl, lp, u)
  BY <1>1, <1>2, <1>3 DEF ResultOf
<1>8. Result(r, cl, lp) = Result(kk, cl, lp)
  BY <1>7 DEF Result
<1> QED BY <1>4, <1>6, <1>8 DEF Unseen

\* t joins the threads that wait on s.
Joins(wa, wa2, re, re2, t, s) == wa2 = [wa EXCEPT ![s] = @ \union {t}] /\ re2 = re

\* The running thread goes to sleep on s.
LEMMA SleptAbs ==
    ASSUME NEW kk, NEW r, NEW t \in Threads, Slept(kk, r, t), kk.state[t] = "CURRENT",
           NEW s \in Sems, NEW cl \in [Threads -> Sems \union {NoSem}], cl[t] = NoSem,
           NEW lp, ~ Resets(lp, s), NEW wt \in [Threads -> Sems \union {NoSem}]
    PROVE  Joins(Waiting(kk, wt, lp), Waiting(r, [wt EXCEPT ![t] = s], lp),
                 Result(kk, cl, lp), Result(r, [cl EXCEPT ![t] = s], lp), t, s)
<1>1. NoSem \notin Sems
  BY SemAssumption
<1>2. \A u \in Threads \ {t} :
         /\ (r.state[u] = "WTSEM") <=> (kk.state[u] = "WTSEM")
         /\ r.rdymsg[u] = kk.rdymsg[u]
  BY DEF Slept, Asleep, Others
<1>3. r.state[t] = "WTSEM"
  BY DEF Slept, Asleep
<1>4. PICK w2, c2 : w2 = [wt EXCEPT ![t] = s] /\ c2 = [cl EXCEPT ![t] = s]
  OBVIOUS
<1>5. \A z \in Sems : Waiters(r, w2, z) = IF z = s THEN Waiters(kk, wt, z) \union {t}
                                          ELSE Waiters(kk, wt, z)
  BY <1>2, <1>3, <1>4 DEF Waiters
<1>6. Waiting(r, w2, lp) = [Waiting(kk, wt, lp) EXCEPT ![s] = @ \union {t}]
  BY <1>5 DEF Waiting
<1>7. \A u \in Threads : ResultOf(r, c2, lp, u) = ResultOf(kk, cl, lp, u)
  BY <1>1, <1>2, <1>3, <1>4 DEF ResultOf
<1>8. Result(r, c2, lp) = Result(kk, cl, lp)
  BY <1>7 DEF Result
<1> QED BY <1>4, <1>6, <1>8 DEF Joins

\* A running thread outside every call is free.
LEMMA FreeAbs ==
    ASSUME NEW kk, NEW t \in Threads, kk.state[t] = "CURRENT", NEW cl, cl[t] = NoSem, NEW lp, NEW wt
    PROVE  Result(kk, cl, lp)[t] = "none" /\ \A z \in Sems : t \notin Waiting(kk, wt, lp)[z]
BY DEF Result, ResultOf, Waiting, Waiters

\* Without a reset going on, a semaphore with a counter that is not negative
\* has no waiting thread.
LEMMA NobodyWaits ==
    ASSUME IInv, NEW s \in Sems, loop.op # "reset", cnt[s] >= 0
    PROVE  Waiters(k, wtsem, s) = {}
<1>1. queue[s] \in Seq(Threads) /\ Len(queue[s]) = 0
  BY UnitsTypes DEF IInv, CountsOK
<1>2. queue[s] = <<>>
  BY <1>1, EmptySeq
<1>3. ToSet(queue[s]) = {}
  BY <1>2 DEF ToSet
<1> QED BY <1>3 DEF IInv, QueuesOK, Waiters

\* The available units follow the counter.
LEMMA AvailMore ==
    ASSUME NEW cn \in [Sems -> Int], NEW s \in Sems
    PROVE  Avail([cn EXCEPT ![s] = @ + 1])
             = IF cn[s] + 1 <= 0 THEN Avail(cn) ELSE [Avail(cn) EXCEPT ![s] = @ + 1]
BY DEF Avail

LEMMA AvailSet ==
    ASSUME NEW cn \in [Sems -> Int], NEW s \in Sems, NEW n \in 0 .. MaxCount
    PROVE  Avail([cn EXCEPT ![s] = n]) = [Avail(cn) EXCEPT ![s] = n]
<1>1. n \in Int /\ n >= 0
  BY SemAssumption
<1>2. \A z \in Sems : Avail([cn EXCEPT ![s] = n])[z] = [Avail(cn) EXCEPT ![s] = n][z]
  BY <1>1 DEF Avail
<1> QED BY <1>2 DEF Avail

LEMMA AvailLess ==
    ASSUME NEW cn \in [Sems -> Int], NEW s \in Sems
    PROVE  Avail([cn EXCEPT ![s] = @ - 1])
             = IF cn[s] - 1 < 0 THEN Avail(cn) ELSE [Avail(cn) EXCEPT ![s] = @ - 1]
BY DEF Avail

-----------------------------------------------------------------------------
(* Step simulation                                                           *)

\* A step of SemSpec, or none.
Simulated == [Abstract!SNext]_(Abstract!svars)

\* A step that touches neither units nor waiting threads is invisible.
LEMMA KeptSim ==
    ASSUME Kept(k, k'), UNCHANGED <<cnt, wtsem, call>>, \A s : Resets(loop', s) <=> Resets(loop, s)
    PROVE  Simulated
<1>1. Waiting(k', wtsem, loop) = Waiting(k, wtsem, loop)
  BY KeptAbs
<1>2. Result(k', call, loop) = Result(k, call, loop)
  BY KeptAbs
<1>3. Waiting(k', wtsem, loop') = Waiting(k', wtsem, loop)
  BY DEF Waiting
<1>4. Result(k', call, loop') = Result(k', call, loop)
  BY DEF Result, ResultOf
<1>5. AAvail' = AAvail /\ AWaiting' = AWaiting /\ AResult' = AResult
  BY <1>1, <1>2, <1>3, <1>4 DEF AAvail, AWaiting, AResult
<1> QED BY <1>5, StutterIs DEF Simulated

\* A step that has no effect on a reset: it neither starts nor ends one.
LEMMA NoReset ==
    ASSUME loop = NoLoop
    PROVE  \A s : ~ Resets(loop, s)
BY DEF NoLoop, Resets

\* A unit is taken at once.
LEMMA TakeSim ==
    ASSUME IInv, NEW s \in Sems, cnt[s] > 0, cnt' = [cnt EXCEPT ![s] = @ - 1],
           UNCHANGED <<k, wtsem, call, loop>>
    PROVE  Simulated
<1>1. cnt \in [Sems -> Int] /\ cnt[s] \in Int
  BY UnitsTypes
<1>2. AAvail' = [AAvail EXCEPT ![s] = @ - 1] /\ AAvail[s] > 0
  <2>1. AAvail' = [AAvail EXCEPT ![s] = @ - 1]
    <3>1. ~ (cnt[s] - 1 < 0)
      BY <1>1
    <3> QED BY <1>1, <3>1, AvailLess DEF AAvail
  <2> QED BY <2>1 DEF AAvail, Avail
<1>3. AWaiting' = AWaiting /\ AResult' = AResult
  BY DEF AWaiting, AResult
<1>4. Abstract!Take(s)
  BY <1>2, <1>3, TakeIs
<1> QED BY <1>4 DEF Simulated, Abstract!SNext

LEMMA WaitSim ==
    ASSUME IInv, OrderInv, UnitsInv, NEW c \in Cores, NEW s \in Sems, NEW timed \in BOOLEAN,
           chSemWaitTimeoutS(c, s, timed)
    PROVE  Simulated
<1>0. /\ Caller(c) /\ cnt[s] \in Int /\ cnt' = [cnt EXCEPT ![s] = @ - 1] /\ loop' = loop
      /\ cnt \in [Sems -> Int] /\ call \in [Threads -> Sems \union {NoSem}]
      /\ wtsem \in [Threads -> Sems \union {NoSem}]
  BY UnitsTypes DEF chSemWaitTimeoutS
<1>1. CASE cnt[s] - 1 < 0
  <2>1. PICK t : t = k.current[c] /\ t \in Threads /\ k.state[t] = "CURRENT" /\ call[t] = NoSem
    BY <1>0, CallerFacts DEF Caller
  <2>2. Slept(k, k', t) /\ ~ Resets(loop, s)
    BY <1>0, <1>1, <2>1, WaitEffect, NoReset DEF Caller
  <2>3. wtsem' = [wtsem EXCEPT ![t] = s] /\ call' = [call EXCEPT ![t] = s]
    BY <1>0, <1>1, <2>1 DEF chSemWaitTimeoutS, GoWait
  <2>4. Joins(Waiting(k, wtsem, loop), Waiting(k', [wtsem EXCEPT ![t] = s], loop),
              Result(k, call, loop), Result(k', [call EXCEPT ![t] = s], loop), t, s)
    BY <1>0, <2>1, <2>2, SleptAbs
  <2>6. AWaiting' = [AWaiting EXCEPT ![s] = @ \union {t}] /\ AResult' = AResult
    BY <1>0, <2>3, <2>4 DEF Joins, AWaiting, AResult
  <2>7. AAvail' = AAvail /\ AAvail[s] = 0
    BY <1>0, <1>1 DEF AAvail, Avail
  <2>8. AResult[t] = "none" /\ \A z \in Sems : t \notin AWaiting[z]
    BY <2>1, FreeAbs DEF AResult, AWaiting
  <2>9. Abstract!Block(t, s)
    BY <2>1, <2>6, <2>7, <2>8, BlockIs
  <2> QED BY <2>1, <2>9 DEF Simulated, Abstract!SNext
<1>2. CASE ~ (cnt[s] - 1 < 0)
  <2>1. UNCHANGED <<k, wtsem, call, loop>> /\ cnt[s] > 0
    BY <1>0, <1>2 DEF chSemWaitTimeoutS
  <2> QED BY <1>0, <2>1, TakeSim
<1> QED BY <1>1, <1>2

\* A signal, from wherever it comes.
LEMMA SignalSim ==
    ASSUME IInv, UnitsInv, NEW s \in Sems, loop.op # "reset", loop'.op # "reset", cnt[s] < MaxCount,
           IF cnt[s] + 1 <= 0 THEN Signalled(k, k', Head(queue[s]), "OK") ELSE Kept(k, k'),
           cnt' = [cnt EXCEPT ![s] = @ + 1],
           wtsem' = IF cnt[s] + 1 <= 0 THEN [wtsem EXCEPT ![Head(queue[s])] = NoSem] ELSE wtsem,
           call' = call
    PROVE  Simulated
<1>0. /\ cnt[s] \in Int /\ cnt \in [Sems -> Int] /\ k \in KernelType
      /\ wtsem \in [Threads -> Sems \union {NoSem}]
  BY UnitsTypes
<1>n. ~ Resets(loop, s) /\ \A z : Resets(loop', z) <=> Resets(loop, z)
  BY DEF Resets
<1>p. /\ Waiting(k', wtsem', loop') = Waiting(k', wtsem', loop)
      /\ Result(k', call, loop') = Result(k', call, loop)
  BY <1>n DEF Waiting, Result, ResultOf
<1>1. CASE cnt[s] + 1 <= 0
  <2>1. PICK t : t = Head(queue[s])
    OBVIOUS
  <2>2. t \in Threads /\ k.state[t] = "WTSEM" /\ wtsem[t] = s
    BY <1>1, <2>1, HeadWaits
  <2>3. Signalled(k, k', t, "OK") /\ wtsem' = [wtsem EXCEPT ![t] = NoSem] /\ call[t] = s
    BY <1>1, <2>1, <2>2 DEF UnitsInv, CallsOK
  <2>4. LeavesWith(Waiting(k, wtsem, loop), Waiting(k', [wtsem EXCEPT ![t] = NoSem], loop),
                   Result(k, call, loop), Result(k', call, loop), t, s, "OK")
    BY <1>0, <1>n, <2>2, <2>3, SignalledAbs
  <2>5. /\ t \in AWaiting[s] /\ AWaiting' = [AWaiting EXCEPT ![s] = @ \ {t}]
        /\ AResult' = [AResult EXCEPT ![t] = "OK"]
    BY <1>p, <2>3, <2>4 DEF LeavesWith, AWaiting, AResult
  <2>6. AAvail' = AAvail
    BY <1>0, <1>1, AvailMore DEF AAvail
  <2>7. Abstract!Grant(t, s)
    BY <2>2, <2>5, <2>6, GrantIs
  <2> QED BY <2>2, <2>7 DEF Simulated, Abstract!SNext
<1>2. CASE ~ (cnt[s] + 1 <= 0)
  <2>1. Kept(k, k') /\ wtsem' = wtsem /\ cnt[s] >= 0
    BY <1>0, <1>2
  <2>2. Waiting(k', wtsem, loop) = Waiting(k, wtsem, loop)
    BY <2>1, KeptAbs
  <2>3. Result(k', call, loop) = Result(k, call, loop)
    BY <2>1, KeptAbs
  <2>4. AWaiting' = AWaiting /\ AResult' = AResult
    BY <1>p, <2>1, <2>2, <2>3 DEF AWaiting, AResult
  <2>5. AWaiting[s] = {}
    BY <2>1, NobodyWaits DEF AWaiting, Waiting
  <2>6. AAvail' = [AAvail EXCEPT ![s] = @ + 1] /\ AAvail[s] < MaxCount
    <3>1. AAvail' = [AAvail EXCEPT ![s] = @ + 1]
      BY <1>0, <1>2, AvailMore DEF AAvail
    <3>2. AAvail[s] < MaxCount
      BY <1>0, <2>1 DEF AAvail, Avail
    <3> QED BY <3>1, <3>2
  <2>7. Abstract!Put(s)
    BY <2>4, <2>5, <2>6, PutIs
  <2> QED BY <2>7 DEF Simulated, Abstract!SNext
<1> QED BY <1>1, <1>2

\* chSemSignal() and chSemSignalI().
LEMMA SignalCallSim ==
    ASSUME IInv, OrderInv, UnitsInv, NEW c \in Cores, NEW s \in Sems,
           chSemSignal(c, s) \/ chSemSignalI(c, s)
    PROVE  Simulated
<1>1. /\ loop = NoLoop /\ loop' = loop /\ call' = call /\ cnt' = [cnt EXCEPT ![s] = @ + 1]
      /\ cnt[s] < MaxCount
  BY DEF chSemSignal, chSemSignalI, Signal, Caller
<1>2. loop.op # "reset" /\ loop'.op # "reset" /\ cnt[s] \in Int
  BY <1>1, UnitsTypes DEF NoLoop
<1>3. wtsem' = IF cnt[s] + 1 <= 0 THEN [wtsem EXCEPT ![Head(queue[s])] = NoSem] ELSE wtsem
  BY <1>2 DEF chSemSignal, chSemSignalI, Signal
<1>4. IF cnt[s] + 1 <= 0 THEN Signalled(k, k', Head(queue[s]), "OK") ELSE Kept(k, k')
  BY SignalEffect, SignalIEffect
<1> QED BY <1>1, <1>2, <1>3, <1>4, SignalSim

LEMMA AddIterationSim ==
    ASSUME IInv, OrderInv, UnitsInv, AddIteration
    PROVE  Simulated
<1>1. PICK s : s = loop.sem
  OBVIOUS
<1>2. /\ loop.op # "reset" /\ loop'.op # "reset" /\ s \in Sems /\ cnt[s] \in Int
      /\ IF cnt[s] + 1 <= 0 THEN Signalled(k, k', Head(queue[s]), "OK") ELSE Kept(k, k')
  BY <1>1, AddIterationEffect, UnitsTypes
<1>3. /\ cnt' = [cnt EXCEPT ![s] = @ + 1] /\ cnt[s] < MaxCount
      /\ wtsem' = IF cnt[s] + 1 <= 0 THEN [wtsem EXCEPT ![Head(queue[s])] = NoSem] ELSE wtsem
      /\ call' = call
  BY <1>1, <1>2 DEF AddIteration, Signal
<1> QED BY <1>2, <1>3, SignalSim

\* A wait returns: its result is gone, if it was visible.
LEMMA ReturnSim ==
    ASSUME IInv, NEW c \in Cores, Return(c)
    PROVE  Simulated
<1>1. PICK t : t = k.current[c]
  OBVIOUS
<1>2. /\ loop = NoLoop /\ InThread(k, c) /\ call' = [call EXCEPT ![t] = NoSem]
      /\ k' = k /\ cnt' = cnt /\ wtsem' = wtsem /\ loop' = loop
  BY <1>1 DEF Return
<1>3. t \in Threads /\ call \in [Threads -> Sems \union {NoSem}]
  BY <1>1, UnitsTypes DEF KernelType
<1>4. \A u \in Threads : ResultOf(k, call', loop, u) = IF u = t THEN "none" ELSE ResultOf(k, call, loop, u)
  BY <1>2, <1>3 DEF ResultOf
<1>5. AResult' = [AResult EXCEPT ![t] = "none"]
  BY <1>2, <1>3, <1>4 DEF AResult, Result
<1>6. AAvail' = AAvail /\ AWaiting' = AWaiting
  BY <1>2 DEF AAvail, AWaiting
<1>7. CASE AResult[t] # "none"
  <2>1. Abstract!Finish(t)
    BY <1>3, <1>5, <1>6, <1>7, FinishIs
  <2> QED BY <1>3, <2>1 DEF Simulated, Abstract!SNext
<1>8. CASE AResult[t] = "none"
  <2>1. AResult' = AResult
    BY <1>5, <1>8 DEF AResult, Result
  <2> QED BY <1>6, <2>1, StutterIs DEF Simulated
<1> QED BY <1>7, <1>8

\* The entry of a reset is the reset, for the users.
LEMMA ResetSim ==
    ASSUME IInv, OrderInv, UnitsInv, NEW c \in Cores, NEW s \in Sems, NEW n \in 0 .. MaxCount,
           NEW thread \in BOOLEAN, chSemResetWithMessageI(c, s, n, thread)
    PROVE  Simulated
<1>1. /\ Context(c, thread) /\ cnt' = [cnt EXCEPT ![s] = n] /\ wtsem' = wtsem /\ call' = call
      /\ loop'.op = "reset" /\ loop'.sem = s /\ loop'.core = c /\ loop'.thread = thread
      /\ loop = NoLoop
  BY DEF chSemResetWithMessageI, Context
<1>2. Kept(k, k')
  BY <1>1, ContextEffect
<1>3. \A z : /\ ~ Resets(loop, z)
             /\ Resets(loop', z) <=> z = s
  BY <1>1, NoReset DEF Resets
<1>4. Waiting(k', wtsem, loop') = Waiting(k, wtsem, loop')
  BY <1>2, KeptAbs
<1>5. Result(k', call, loop') = Result(k, call, loop')
  BY <1>2, KeptAbs
<1>6. Waiting(k, wtsem, loop') = [Waiting(k, wtsem, loop) EXCEPT ![s] = {}]
  BY <1>3 DEF Waiting
<1>7. \A t \in Threads : (t \in Waiting(k, wtsem, loop)[s]) <=> (k.state[t] = "WTSEM" /\ call[t] = s)
  BY <1>3 DEF Waiting, Waiters, UnitsInv, CallsOK
<1>8. \A t \in Threads : ResultOf(k, call, loop', t) = IF t \in Waiting(k, wtsem, loop)[s] THEN "RESET"
                                                       ELSE ResultOf(k, call, loop, t)
  BY <1>3, <1>7, SemAssumption DEF ResultOf
<1>9. Result(k, call, loop') = [t \in Threads |-> IF t \in Waiting(k, wtsem, loop)[s] THEN "RESET"
                                                  ELSE Result(k, call, loop)[t]]
  BY <1>8 DEF Result
<1>10. /\ AWaiting' = [AWaiting EXCEPT ![s] = {}]
       /\ AResult' = [t \in Threads |-> IF t \in AWaiting[s] THEN "RESET" ELSE AResult[t]]
  BY <1>1, <1>4, <1>5, <1>6, <1>9 DEF AWaiting, AResult
<1>11. AAvail' = [AAvail EXCEPT ![s] = n]
  BY <1>1, UnitsTypes, AvailSet DEF AAvail
<1>12. Abstract!Reset(s)
  BY <1>10, <1>11, ResetIs
<1> QED BY <1>12 DEF Simulated, Abstract!SNext

LEMMA ResetIterationSim ==
    ASSUME IInv, OrderInv, UnitsInv, ResetIteration
    PROVE  Simulated
<1>1. PICK t, s : t = Head(queue[loop.sem]) /\ s = loop.sem
  OBVIOUS
<1>2. /\ wtsem' = [wtsem EXCEPT ![t] = NoSem] /\ cnt' = cnt /\ call' = call /\ loop' = loop
      /\ Resets(loop, s)
  BY <1>1 DEF ResetIteration, Resets
<1>3. Signalled(k, k', t, "RESET") /\ s \in Sems /\ t \in ToSet(queue[s])
  BY <1>1, ResetIterationEffect
<1>4. t \in Threads /\ k.state[t] = "WTSEM" /\ wtsem[t] = s
  BY <1>3 DEF IInv, QueuesOK
<1>5. call[t] = s /\ k \in KernelType /\ wtsem \in [Threads -> Sems \union {NoSem}]
  BY <1>4, UnitsTypes DEF UnitsInv, CallsOK
<1>6. Unseen(Waiting(k, wtsem, loop), Waiting(k', [wtsem EXCEPT ![t] = NoSem], loop),
             Result(k, call, loop), Result(k', call, loop))
  BY <1>2, <1>3, <1>4, <1>5, ResetAbs
<1>8. AAvail' = AAvail /\ AWaiting' = AWaiting /\ AResult' = AResult
  BY <1>2, <1>6 DEF Unseen, AAvail, AWaiting, AResult
<1> QED BY <1>8, StutterIs DEF Simulated

\* When a loop ends nobody is left in the queue of the semaphore it reset.
LEMMA LoopEndSim ==
    ASSUME IInv, OrderInv, UnitsInv, LoopEnd
    PROVE  Simulated
<1>1. loop' = NoLoop /\ UNCHANGED <<cnt, wtsem, call>> /\ Kept(k, k')
  BY LoopEndEffect DEF LoopEnd
<1>2. \A z : ~ Resets(loop', z)
  BY <1>1 DEF NoLoop, Resets
<1>3. CASE loop.op # "reset"
  <2>1. \A z : Resets(loop', z) <=> Resets(loop, z)
    BY <1>2, <1>3 DEF Resets
  <2> QED BY <1>1, <2>1, KeptSim
<1>4. CASE loop.op = "reset"
  <2>1. PICK s : s = loop.sem
    OBVIOUS
  <2>2. queue[s] = <<>> /\ s \in Sems
    BY <1>4, <2>1, LoopFacts DEF LoopEnd
  <2>3. ToSet(queue[s]) = {}
    BY <2>2 DEF ToSet
  <2>4. Waiters(k, wtsem, s) = {}
    BY <2>2, <2>3 DEF IInv, QueuesOK, Waiters
  <2>5. \A t \in Threads : ~ (k.state[t] = "WTSEM" /\ call[t] = s)
    BY <2>4 DEF Waiters, UnitsInv, CallsOK
  <2>6. \A z : Resets(loop, z) <=> z = s
    BY <1>4, <2>1 DEF Resets
  <2>7. Waiting(k, wtsem, loop') = Waiting(k, wtsem, loop)
    BY <1>2, <2>4, <2>6 DEF Waiting
  <2>8. \A t \in Threads : ResultOf(k, call, loop', t) = ResultOf(k, call, loop, t)
    BY <1>2, <2>5, <2>6 DEF ResultOf
  <2>9. Result(k, call, loop') = Result(k, call, loop)
    BY <2>8 DEF Result
  <2>10. Waiting(k', wtsem, loop') = Waiting(k, wtsem, loop')
    BY <1>1, KeptAbs
  <2>11. Result(k', call, loop') = Result(k, call, loop')
    BY <1>1, KeptAbs
  <2>12. AAvail' = AAvail /\ AWaiting' = AWaiting /\ AResult' = AResult
    BY <1>1, <2>7, <2>9, <2>10, <2>11 DEF AAvail, AWaiting, AResult
  <2> QED BY <2>12, StutterIs DEF Simulated
<1> QED BY <1>3, <1>4

\* The signal and the wait of chSemSignalWait() are one step.
LEMMA SignalWaitSim ==
    ASSUME IInv, OrderInv, UnitsInv, NEW c \in Cores, NEW s1 \in Sems, NEW s2 \in Sems,
           chSemSignalWait(c, s1, s2)
    PROVE  Simulated
<1>1. PICK t, tp :
         /\ t = k.current[c] /\ tp = Head(queue[s1]) /\ Caller(c) /\ s1 # s2
         /\ cnt[s1] < MaxCount
         /\ cnt' = [cnt EXCEPT ![s1] = @ + 1, ![s2] = @ - 1]
         /\ wtsem' = [u \in Threads |-> IF cnt[s1] + 1 <= 0 /\ u = tp THEN NoSem
                                        ELSE IF cnt[s2] - 1 < 0 /\ u = t THEN s2 ELSE wtsem[u]]
         /\ call' = [call EXCEPT ![t] = IF cnt[s2] - 1 < 0 THEN s2 ELSE @]
         /\ loop' = loop
  BY DEF chSemSignalWait
<1>2. /\ cnt \in [Sems -> Int] /\ k \in KernelType
      /\ call \in [Threads -> Sems \union {NoSem}] /\ wtsem \in [Threads -> Sems \union {NoSem}]
      /\ cnt[s1] \in Int /\ cnt[s2] \in Int
  BY UnitsTypes
<1>3. /\ loop.op # "reset" /\ t \in Threads /\ k.state[t] = "CURRENT" /\ call[t] = NoSem
      /\ ~ Resets(loop, s1) /\ ~ Resets(loop, s2)
  BY <1>1, CallerFacts, Quiet, NoReset DEF Caller
<1>4. PICK kk :
         /\ kk.current[c] = t /\ kk.state[t] = "CURRENT"
         /\ IF cnt[s1] + 1 <= 0 THEN Signalled(k, kk, tp, "OK") ELSE kk = k
         /\ IF cnt[s2] - 1 < 0 THEN Slept(kk, k', t) ELSE Kept(kk, k')
  BY <1>1, SignalWaitEffect
<1>5. PICK wt, u : /\ wt = IF cnt[s1] + 1 <= 0 THEN [wtsem EXCEPT ![tp] = NoSem] ELSE wtsem
                   /\ u = IF cnt[s1] + 1 <= 0 THEN tp ELSE t
  OBVIOUS
<1>6. AResult[t] = "none" /\ \A z \in Sems : t \notin AWaiting[z]
  BY <1>3, FreeAbs DEF AResult, AWaiting
<1>7. cnt[s1] + 1 <= 0 => /\ tp \in Threads /\ k.state[tp] = "WTSEM" /\ wtsem[tp] = s1 /\ tp # t
                          /\ call[tp] = s1
  BY <1>1, <1>3, HeadWaits DEF UnitsInv, CallsOK
<1>t. wt \in [Threads -> Sems \union {NoSem}]
  <2>1. [wtsem EXCEPT ![tp] = NoSem] \in [Threads -> Sems \union {NoSem}]
    BY <1>2
  <2> QED BY <1>2, <1>5, <2>1
\* The signal.
<1>8. /\ u \in AWaiting[s1] \union {t}
      /\ (u = t) <=> ~ (cnt[s1] + 1 <= 0)
      /\ u = t => AWaiting[s1] = {} /\ AAvail[s1] < MaxCount
      /\ Waiting(kk, wt, loop) = [AWaiting EXCEPT ![s1] = @ \ {u}]
      /\ Result(kk, call, loop) = IF u = t THEN AResult ELSE [AResult EXCEPT ![u] = "OK"]
  <2>1. CASE cnt[s1] + 1 <= 0
    <3>1. u = tp /\ u # t /\ wt = [wtsem EXCEPT ![u] = NoSem] /\ Signalled(k, kk, u, "OK")
      BY <1>4, <1>5, <1>7, <2>1
    <3>2. u \in Threads /\ k.state[u] = "WTSEM" /\ wtsem[u] = s1 /\ call[u] = s1
      BY <1>7, <2>1, <3>1
    <3>3. LeavesWith(Waiting(k, wtsem, loop), Waiting(kk, [wtsem EXCEPT ![u] = NoSem], loop),
                     Result(k, call, loop), Result(kk, call, loop), u, s1, "OK")
      BY <1>2, <1>3, <3>1, <3>2, SignalledAbs
    <3> QED BY <2>1, <3>1, <3>3 DEF LeavesWith, AWaiting, AResult
  <2>2. CASE ~ (cnt[s1] + 1 <= 0)
    <3>1. u = t /\ wt = wtsem /\ kk = k /\ cnt[s1] >= 0
      BY <1>2, <1>4, <1>5, <2>2
    <3>2. AWaiting[s1] = {}
      BY <1>3, <3>1, NobodyWaits DEF AWaiting, Waiting
    <3>3. AAvail[s1] < MaxCount
      BY <1>1, <1>2, <3>1 DEF AAvail, Avail
    <3>4. [AWaiting EXCEPT ![s1] = @ \ {u}] = AWaiting
      BY <3>2 DEF AWaiting, Waiting
    <3> QED BY <2>2, <3>1, <3>2, <3>3, <3>4 DEF AWaiting, AResult
  <2> QED BY <2>1, <2>2
\* The wait.
<1>9. /\ AWaiting' = [Waiting(kk, wt, loop) EXCEPT ![s2] = IF AAvail[s2] > 0 THEN @ ELSE @ \union {t}]
      /\ AResult' = Result(kk, call, loop)
  <2>1. CASE cnt[s2] - 1 < 0
    <3>1. Slept(kk, k', t) /\ call' = [call EXCEPT ![t] = s2] /\ AAvail[s2] = 0
      BY <1>1, <1>2, <1>4, <2>1 DEF AAvail, Avail
    <3>2. wtsem' = [wt EXCEPT ![t] = s2]
      BY <1>1, <1>2, <1>3, <1>5, <1>7, <2>1
    <3>3. Joins(Waiting(kk, wt, loop), Waiting(k', [wt EXCEPT ![t] = s2], loop),
                Result(kk, call, loop), Result(k', [call EXCEPT ![t] = s2], loop), t, s2)
      BY <1>2, <1>3, <1>4, <1>t, <3>1, SleptAbs
    <3>4. AWaiting' = [Waiting(kk, wt, loop) EXCEPT ![s2] = @ \union {t}] /\ AResult' = Result(kk, call, loop)
      BY <1>1, <3>1, <3>2, <3>3 DEF Joins, AWaiting, AResult
    <3>5. ~ (AAvail[s2] > 0)
      BY <3>1
    <3> QED BY <3>4, <3>5
  <2>2. CASE ~ (cnt[s2] - 1 < 0)
    <3>1. Kept(kk, k') /\ call' = call /\ AAvail[s2] > 0
      BY <1>1, <1>2, <1>4, <2>2 DEF AAvail, Avail
    <3>2. wtsem' = wt
      BY <1>1, <1>2, <1>5, <2>2
    <3>3. Waiting(k', wt, loop) = Waiting(kk, wt, loop)
      BY <3>1, KeptAbs
    <3>4. Result(k', call, loop) = Result(kk, call, loop)
      BY <3>1, KeptAbs
    <3>5. [Waiting(kk, wt, loop) EXCEPT ![s2] = @] = Waiting(kk, wt, loop)
      BY DEF Waiting
    <3> QED BY <1>1, <3>1, <3>2, <3>3, <3>4, <3>5 DEF AWaiting, AResult
  <2> QED BY <2>1, <2>2
<1>10. AAvail' = [AAvail EXCEPT ![s1] = IF u = t THEN @ + 1 ELSE @,
                                ![s2] = IF @ > 0 THEN @ - 1 ELSE @]
  <2>1. \A z \in Sems : cnt'[z] = IF z = s1 THEN cnt[z] + 1 ELSE IF z = s2 THEN cnt[z] - 1 ELSE cnt[z]
    BY <1>1, <1>2
  <2>2. \A z \in Sems : cnt[z] \in Int
    BY <1>2
  <2>3. \A z \in Sems : AAvail'[z] = [AAvail EXCEPT ![s1] = IF u = t THEN @ + 1 ELSE @,
                                                    ![s2] = IF @ > 0 THEN @ - 1 ELSE @][z]
    <3>1. \A z \in Sems : /\ AAvail[z] = IF cnt[z] > 0 THEN cnt[z] ELSE 0
                          /\ AAvail'[z] = IF cnt'[z] > 0 THEN cnt'[z] ELSE 0
      BY DEF AAvail, Avail
    <3>5. cnt'[s1] = cnt[s1] + 1 /\ cnt'[s2] = cnt[s2] - 1 /\ cnt[s1] \in Int /\ cnt[s2] \in Int
      BY <1>1, <2>1, <2>2
    <3>6. /\ AAvail[s1] = IF cnt[s1] > 0 THEN cnt[s1] ELSE 0
          /\ AAvail'[s1] = IF cnt'[s1] > 0 THEN cnt'[s1] ELSE 0
          /\ AAvail[s2] = IF cnt[s2] > 0 THEN cnt[s2] ELSE 0
          /\ AAvail'[s2] = IF cnt'[s2] > 0 THEN cnt'[s2] ELSE 0
      BY <3>1
    <3>2. AAvail'[s1] = IF u = t THEN AAvail[s1] + 1 ELSE AAvail[s1]
      BY <1>8, <3>5, <3>6
    <3>3. AAvail'[s2] = IF AAvail[s2] > 0 THEN AAvail[s2] - 1 ELSE AAvail[s2]
      BY <3>5, <3>6
    <3>4. \A z \in Sems \ {s1, s2} : AAvail'[z] = AAvail[z]
      BY <2>1, <3>1
    <3>7. PICK A, A2 : A = AAvail /\ A2 = AAvail'
      OBVIOUS
    <3>8. DOMAIN A = Sems /\ A = [z \in DOMAIN A |-> A[z]]
      BY <3>7 DEF AAvail, Avail
    <3>9. \A z \in Sems : A2[z] = [A EXCEPT ![s1] = IF u = t THEN @ + 1 ELSE @,
                                             ![s2] = IF @ > 0 THEN @ - 1 ELSE @][z]
      BY <1>1, <3>2, <3>3, <3>4, <3>7, <3>8
    <3> QED BY <3>7, <3>9
  <2> QED BY <2>3 DEF AAvail, Avail
<1>11. AWaiting' = [AWaiting EXCEPT ![s1] = @ \ {u},
                                    ![s2] = IF AAvail[s2] > 0 THEN @ ELSE @ \union {t}]
  <2>1. PICK W, X, b : W = AWaiting /\ X = Waiting(kk, wt, loop) /\ b = (AAvail[s2] > 0)
    OBVIOUS
  <2>2. X = [W EXCEPT ![s1] = @ \ {u}]
    BY <1>8, <2>1
  <2>3. AWaiting' = [X EXCEPT ![s2] = IF b THEN @ ELSE @ \union {t}]
    BY <1>9, <2>1
  <2>4. AWaiting' = [W EXCEPT ![s1] = @ \ {u}, ![s2] = IF b THEN @ ELSE @ \union {t}]
    BY <1>1, <2>2, <2>3
  <2> QED BY <2>1, <2>4
<1>12. Abstract!PutAndWait(t, s1, s2)
  BY <1>1, <1>3, <1>6, <1>8, <1>9, <1>10, <1>11, PutAndWaitIs
<1> QED BY <1>3, <1>12 DEF Simulated, Abstract!SNext

\* The timeout callback: the thread leaves without a unit, or nothing happens.
LEMMA TimeoutSim ==
    ASSUME IInv, OrderInv, UnitsInv, NEW c \in Cores, sch_wakeup(c)
    PROVE  Simulated
<1>1. call' = call /\ loop = NoLoop /\ loop' = loop
  BY DEF sch_wakeup
<1>2. CASE Kept(k, k') /\ UNCHANGED <<cnt, wtsem>>
  BY <1>1, <1>2, KeptSim
<1>3. CASE \E t \in Threads, s \in Sems :
              /\ k.state[t] = "WTSEM" /\ wtsem[t] = s /\ Signalled(k, k', t, "TIMEOUT")
              /\ cnt' = [cnt EXCEPT ![s] = @ + 1] /\ wtsem' = [wtsem EXCEPT ![t] = NoSem]
              /\ cnt[s] < 0
  <2>1. PICK t \in Threads, s \in Sems :
              /\ k.state[t] = "WTSEM" /\ wtsem[t] = s /\ Signalled(k, k', t, "TIMEOUT")
              /\ cnt' = [cnt EXCEPT ![s] = @ + 1] /\ wtsem' = [wtsem EXCEPT ![t] = NoSem]
              /\ cnt[s] < 0
    BY <1>3
  <2>2. /\ cnt \in [Sems -> Int] /\ k \in KernelType /\ wtsem \in [Threads -> Sems \union {NoSem}]
        /\ cnt[s] \in Int
    BY UnitsTypes
  <2>3. call[t] = s /\ ~ Resets(loop, s) /\ cnt[s] + 1 <= 0
    BY <1>1, <2>1, <2>2, NoReset DEF UnitsInv, CallsOK
  <2>4. LeavesWith(Waiting(k, wtsem, loop), Waiting(k', [wtsem EXCEPT ![t] = NoSem], loop),
                   Result(k, call, loop), Result(k', call, loop), t, s, "TIMEOUT")
    BY <2>1, <2>2, <2>3, SignalledAbs
  <2>5. /\ t \in AWaiting[s] /\ AWaiting' = [AWaiting EXCEPT ![s] = @ \ {t}]
        /\ AResult' = [AResult EXCEPT ![t] = "TIMEOUT"]
    BY <1>1, <2>1, <2>4 DEF LeavesWith, AWaiting, AResult
  <2>6. AAvail' = AAvail
    BY <2>1, <2>2, <2>3, AvailMore DEF AAvail
  <2>7. Abstract!TimeOut(t, s)
    BY <2>5, <2>6, TimeOutIs
  <2> QED BY <2>7 DEF Simulated, Abstract!SNext
<1> QED BY <1>2, <1>3, TimeoutEffect

\* A thread that starts is in no call.
LEMMA StartSim ==
    ASSUME IInv, OrderInv, UnitsInv, NEW c \in Cores, NEW t \in UserThreads, chThdStartI(c, t)
    PROVE  Simulated
<1>1. /\ k.state[t] = "WTSTART" /\ t \in Threads /\ UNCHANGED <<cnt, wtsem, call, loop>>
      /\ k.rdymsg \in [Threads -> Messages]
  BY UnitsTypes DEF chThdStartI, UserThreads, KernelType
<1>2. Signalled(k, k', t, "OK")
  BY StartEffect
<1>3. call[t] = NoSem
  BY <1>1 DEF UnitsInv, CallsOK
<1>4. \A u \in Threads : /\ (k'.state[u] = "WTSEM") <=> (k.state[u] = "WTSEM")
                         /\ u # t => k'.rdymsg[u] = k.rdymsg[u]
  BY <1>1, <1>2 DEF Signalled, Woken, Others
<1>5. \A z \in Sems : Waiters(k', wtsem, z) = Waiters(k, wtsem, z)
  BY <1>4 DEF Waiters
<1>6. \A u \in Threads : ResultOf(k', call, loop, u) = ResultOf(k, call, loop, u)
  BY <1>3, <1>4 DEF ResultOf
<1>7. AAvail' = AAvail /\ AWaiting' = AWaiting /\ AResult' = AResult
  BY <1>1, <1>5, <1>6 DEF AAvail, AWaiting, AResult, Waiting, Result
<1> QED BY <1>7, StutterIs DEF Simulated

LEMMA StepSimulated ==
    ASSUME IInv, OrderInv, UnitsInv, [Next]_vars
    PROVE  Simulated
<1>1. ASSUME NEW c \in Cores, NEW s \in Sems, NEW timed \in BOOLEAN, chSemWaitTimeoutS(c, s, timed)
      PROVE  Simulated
  BY <1>1, WaitSim
<1>2. ASSUME NEW c \in Cores, NEW s \in Sems, WaitImmediate(c, s)
      PROVE  Simulated
  BY <1>2, TakeSim DEF WaitImmediate
<1>3. ASSUME NEW c \in Cores, NEW s \in Sems, chSemSignal(c, s) \/ chSemSignalI(c, s)
      PROVE  Simulated
  BY <1>3, SignalCallSim
<1>4. ASSUME NEW c \in Cores, NEW s1 \in Sems, NEW s2 \in Sems, chSemSignalWait(c, s1, s2)
      PROVE  Simulated
  BY <1>4, SignalWaitSim
<1>5. ASSUME NEW c \in Cores, NEW s \in Sems, NEW n \in 0 .. MaxCount, NEW thread \in BOOLEAN,
             chSemResetWithMessageI(c, s, n, thread)
      PROVE  Simulated
  BY <1>5, ResetSim
<1>6. ASSUME NEW c \in Cores, NEW s \in Sems, NEW n \in 0 .. MaxCount, NEW thread \in BOOLEAN,
             chSemAddCounterI(c, s, n, thread)
      PROVE  Simulated
  <2>1. /\ Context(c, thread) /\ loop'.op = "add" /\ loop'.core = c /\ loop'.thread = thread
        /\ UNCHANGED <<cnt, wtsem, call>> /\ loop = NoLoop
    BY <1>6 DEF chSemAddCounterI, Context
  <2>2. Kept(k, k')
    BY <2>1, ContextEffect
  <2>3. \A z : Resets(loop', z) <=> Resets(loop, z)
    BY <2>1, NoReset DEF Resets
  <2> QED BY <2>1, <2>2, <2>3, KeptSim
<1>7. ASSUME NEW c \in Cores, Return(c)
      PROVE  Simulated
  BY <1>7, ReturnSim
<1>8. ASSUME NEW c \in Cores, NEW t \in UserThreads, chThdStartI(c, t)
      PROVE  Simulated
  BY <1>8, StartSim
<1>9. ASSUME NEW c \in Cores, (\E t \in Threads : Expire(c, t)) \/ Notified(c) \/ ExitIsr(c)
      PROVE  Simulated
  <2>1. UNCHANGED <<cnt, wtsem, call, loop>>
    BY <1>9 DEF Expire, Notified, ExitIsr
  <2>2. Kept(k, k')
    BY <1>9, IrqEffect
  <2> QED BY <2>1, <2>2, KeptSim
<1>10. ASSUME NEW c \in Cores, sch_wakeup(c)
       PROVE  Simulated
  BY <1>10, TimeoutSim
<1>11. ASSUME LoopStep
       PROVE  Simulated
  BY <1>11, ResetIterationSim, AddIterationSim, LoopEndSim DEF LoopStep
<1>12. CASE UNCHANGED vars
  <2>1. AAvail' = AAvail /\ AWaiting' = AWaiting /\ AResult' = AResult
    BY <1>12 DEF vars, AAvail, AWaiting, AResult
  <2> QED BY <2>1, StutterIs DEF Simulated
<1>13. ASSUME NEW c \in Cores, SemCall(c)
       PROVE  Simulated
  BY <1>1, <1>2, <1>3, <1>4, <1>5, <1>6, <1>13 DEF SemCall
<1>14. ASSUME NEW c \in Cores, KernelIrq(c)
       PROVE  Simulated
  BY <1>8, <1>9, <1>10, <1>14 DEF KernelIrq
<1> QED BY <1>7, <1>11, <1>12, <1>13, <1>14 DEF Next

LEMMA InitSimulated ==
    ASSUME Init
    PROVE  Abstract!SInit
<1>1. \A s \in Sems : InitCnt[s] \in 0 .. MaxCount /\ InitCnt[s] >= 0
  BY SemAssumption
<1>2. [s \in Sems |-> IF cnt[s] > 0 THEN cnt[s] ELSE 0] \in [Sems -> 0 .. MaxCount]
  BY <1>1, SemAssumption DEF Init
<1>3. \A t \in Threads : k.state[t] # "WTSEM" /\ call[t] = NoSem
  BY DEF Init, KernelInit
<1>4. [s \in Sems |-> IF Resetting(s) THEN {} ELSE {t \in Threads : k.state[t] = "WTSEM" /\ wtsem[t] = s}]
        = [s \in Sems |-> {}]
  BY <1>3
<1>5. [t \in Threads |-> IF call[t] = NoSem THEN "none"
                         ELSE IF k.state[t] # "WTSEM" THEN k.rdymsg[t]
                         ELSE IF Resetting(call[t]) THEN "RESET" ELSE "none"]
        = [t \in Threads |-> "none"]
  BY <1>3
<1> QED BY <1>2, <1>4, <1>5 DEF Abstract!SInit

-----------------------------------------------------------------------------
\* The code of chsem.c over the scheduler implements a counting semaphore:
\* whatever the interleaving of threads, handlers, timeouts and cores, its
\* users see units, waiting threads and results change as SemSpec says.  A
\* reset is atomic for them although the code wakes the threads one by one.
THEOREM Refines == Spec => ImplementsSemSpec
<1>1. Init => Abstract!SInit
  BY InitSimulated
<1>2. IInv /\ (OrderInv /\ UnitsInv) /\ [Next]_vars => [Abstract!SNext]_(Abstract!svars)
  BY StepSimulated DEF Simulated
<1> QED BY <1>1, <1>2, Inductive, InductiveOrderUnits, PTL DEF Spec, ImplementsSemSpec, Abstract!SSpec
=============================================================================
