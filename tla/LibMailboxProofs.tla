-------------------------- MODULE LibMailboxProofs --------------------------
(***************************************************************************)
(* Proofs about LibMailbox, for any number of threads, any width of the    *)
(* counter, any size of the ring and any set of messages and timeouts.     *)
(*                                                                         *)
(* The invariant has a part for the kernel state alone, which every kernel *)
(* operator of NilSched preserves, and a part for the mailbox and its      *)
(* calls:                                                                  *)
(*   Waits     what a ready and a waiting thread's fields are, and the     *)
(*             queue counters                                              *)
(*   FirstOK, Runs   next is the first ready thread and runs out of the    *)
(*             handlers                                                    *)
(*   TimeOK    the stored intervals, the origin, the alarm and the loop of *)
(*             the timer handler                                           *)
(*   CallsOK   who is inside a blocking call, where and with which message *)
(*   LossFree  the messages and free slots against the woken threads       *)
(*   RingOK    the ring's two pointers and its counter                     *)
(* The last part shows that the mailbox implements MailboxSpec.            *)
(***************************************************************************)
EXTENDS LibMailbox, FiniteSetTheorems, SequenceTheorems, WellFoundedInduction, TLAPS

-----------------------------------------------------------------------------
(* Arithmetic of the counter *)

LEMMA ModSmall ==
    ASSUME NEW w \in Nat \ {0}, NEW x \in 0 .. w - 1
    PROVE  x % w = x
  BY SMT

LEMMA ModAbove ==
    ASSUME NEW w \in Nat \ {0}, NEW x \in Int, w <= x, x - w < w
    PROVE  x % w = x - w
  BY SMT

LEMMA ModBelow ==
    ASSUME NEW w \in Nat \ {0}, NEW x \in - w .. - 1
    PROVE  x % w = x + w
  BY SMT

LEMMA Widths ==
    /\ MaxThreads \in Nat \ {0} /\ Width \in Nat \ {0} /\ Width >= 4
    /\ TimeDelta \in Nat /\ TimeDelta >= 2 /\ TimeDelta <= Width - 2
  BY NilAssumption

\* The distance from one time to another, without the modulus.
LEMMA DiffValue ==
    ASSUME NEW a \in Times, NEW b \in Times
    PROVE  /\ chTimeDiffX(a, b) \in Times
           /\ a <= b => chTimeDiffX(a, b) = b - a
           /\ b < a => chTimeDiffX(a, b) = b - a + Width
<1>1. a \in Int /\ b \in Int /\ 0 <= a /\ a < Width /\ 0 <= b /\ b < Width /\ Width \in Nat \ {0}
  BY Widths DEF Times
<1>2. CASE a <= b
  <2>1. b - a \in 0 .. Width - 1
    BY <1>1, <1>2
  <2>2. (b - a) % Width = b - a
    BY <1>1, <2>1, ModSmall
  <2> QED BY <1>1, <1>2, <2>1, <2>2 DEF chTimeDiffX, Times
<1>3. CASE b < a
  <2>1. b - a \in - Width .. - 1
    BY <1>1, <1>3
  <2>2. (b - a) % Width = b - a + Width
    BY <1>1, <2>1, ModBelow
  <2> QED BY <1>1, <1>3, <2>1, <2>2 DEF chTimeDiffX, Times
<1> QED BY <1>1, <1>2, <1>3

LEMMA AddValue ==
    ASSUME NEW a \in Times, NEW i \in Times
    PROVE  /\ chTimeAddX(a, i) \in Times
           /\ a + i < Width => chTimeAddX(a, i) = a + i
           /\ a + i >= Width => chTimeAddX(a, i) = a + i - Width
<1>1. a \in Int /\ i \in Int /\ 0 <= a /\ a < Width /\ 0 <= i /\ i < Width /\ Width \in Nat \ {0}
  BY Widths DEF Times
<1>2. CASE a + i < Width
  <2>1. a + i \in 0 .. Width - 1
    BY <1>1, <1>2
  <2>2. (a + i) % Width = a + i
    BY <1>1, <2>1, ModSmall
  <2> QED BY <1>1, <1>2, <2>1, <2>2 DEF chTimeAddX, Times
<1>3. CASE a + i >= Width
  <2>1. a + i \in Int /\ Width <= a + i /\ (a + i) - Width < Width
    BY <1>1, <1>3, SMT
  <2>2. (a + i) % Width = (a + i) - Width
    BY <1>1, <2>1, ModAbove
  <2> QED BY <1>1, <1>3, <2>1, <2>2 DEF chTimeAddX, Times
<1> QED BY <1>1, <1>2, <1>3

-----------------------------------------------------------------------------
(* The least element of a set of naturals *)

LEMMA Least ==
    ASSUME NEW S \in SUBSET Nat, S # {}
    PROVE  /\ Min(S) \in S
           /\ \A y \in S : Min(S) <= y
<1> DEFINE R == {ss \in Nat \X Nat : ss[1] < ss[2]}
<1>1. IsWellFoundedOn(R, Nat)
  BY NatLessThanWellFounded, Zenon DEF OpToRel
<1>2. PICK x \in S : \A y \in S : ~ (<<y, x>> \in R)
  <2> HIDE DEF R
  <2> QED BY <1>1, WFMin
<1>3. ASSUME NEW y \in S PROVE x <= y
  <2>1. x \in Nat /\ y \in Nat
    OBVIOUS
  <2>2. ~ (y < x)
    BY <1>2, <2>1
  <2> QED BY <2>1, <2>2
<1> QED BY <1>3 DEF Min

\* It is the only one.
LEMMA LeastIs ==
    ASSUME NEW S \in SUBSET Nat, NEW m \in S, \A y \in S : m <= y
    PROVE  Min(S) = m
<1>1. Min(S) \in S /\ Min(S) <= m /\ m <= Min(S)
  BY Least
<1>2. Min(S) \in Nat /\ m \in Nat
  BY <1>1
<1> QED BY <1>1, <1>2

-----------------------------------------------------------------------------
(* The invariant of the kernel state *)

\* A ready thread has no timeout, idle is always ready, the counters are exact.
Waits(k) ==
    /\ k \in NilType
    /\ k.state[Idle] = "READY"
    /\ \A t \in Slots : k.state[t] = "READY" => k.timeout[t] = 0
    /\ \A t \in Slots : k.timeout[t] = 0 => k.left[t] = 0
    /\ QueueCountersExact(k)

\* The running thread is ready, next is the first ready one.
FirstOK(k) ==
    /\ k.state[k.current] = "READY"
    /\ k.state[k.next] = "READY"
    /\ \A t \in Slots : k.state[t] = "READY" => k.next <= t

\* Out of the handlers next is the one that runs.
Runs(k) == k.isr \/ k.current = k.next

\* The ticks since the origin, the ticks to the alarm, and both.
Ago(k) == chTimeDiffX(k.lasttime, k.clock)
Ahead(k) == chTimeDiffX(k.clock, k.alarm)
Span(k) == chTimeDiffX(k.lasttime, k.alarm)

\* The alarm: it is not behind the clock, and its interrupt is pending when the
\* two meet.  The timer handler works at the instant of the alarm.
AlarmOK(k) ==
    /\ k.pending => k.started /\ k.scan = NoScan
    /\ k.started /\ k.scan = NoScan => Ago(k) <= Span(k) /\ (k.pending <=> k.clock = k.alarm)
    /\ k.scan # NoScan => k.isr /\ k.started /\ k.clock = k.alarm

\* The interval of a wait outside of the handler's loop, of one that the loop
\* has not reached and of one that it has passed.
IntervalOK(k, t) ==
    /\ k.started
    /\ k.scan = NoScan =>
          /\ k.timeout[t] = Ago(k) + k.left[t]
          /\ k.left[t] = 0 => k.pending
          /\ k.pending \/ Ahead(k) \in 1 .. k.left[t]
    /\ k.scan # NoScan /\ k.scan <= t => k.timeout[t] = Ago(k) + k.left[t]
    /\ k.scan # NoScan /\ t < k.scan =>
          /\ k.timeout[t] = k.left[t]
          /\ k.nextalarm \in 1 .. k.left[t]

TimeOK(k) ==
    /\ AlarmOK(k)
    /\ \A t \in Slots : k.timeout[t] > 0 => IntervalOK(k, t)

KernelInv(k) == Waits(k) /\ FirstOK(k) /\ Runs(k) /\ TimeOK(k)

\* KernelInv is what KernelOK and TimeoutsExact ask for.
LEMMA SlotsNat ==
    /\ Slots \subseteq Nat /\ UserSlots \subseteq Slots /\ Idle \in Slots /\ Idle \notin UserSlots
    /\ \A t \in Slots : t \in UserSlots \/ t = Idle
    /\ \A t \in Slots : t \in Nat /\ t <= Idle /\ t <= t /\ ~ (t < t)
    /\ NoScan \notin Slots
  BY Widths DEF Slots, UserSlots, Idle, NoScan

LEMMA NextIsMin ==
    ASSUME NEW k, Waits(k), FirstOK(k), Runs(k)
    PROVE  NextExact(k)
<1> DEFINE S == {t \in Slots : k.state[t] = "READY"}
<1>1. k.next \in Slots
  BY DEF Waits, NilType
<1>2. S \in SUBSET Nat /\ k.next \in S /\ \A y \in S : k.next <= y
  BY <1>1, SlotsNat DEF FirstOK
<1>3. Min(S) = k.next
  <2> HIDE DEF S
  <2> QED BY <1>2, LeastIs
<1> QED BY <1>3 DEF NextExact, Runs

LEMMA WaitingFinite ==
    ASSUME NEW k, NEW q
    PROVE  /\ Waiting(k, q) \subseteq UserSlots
           /\ IsFiniteSet(UserSlots) /\ Cardinality(UserSlots) = MaxThreads
           /\ IsFiniteSet(Waiting(k, q)) /\ Cardinality(Waiting(k, q)) \in 0 .. MaxThreads
<1>1. Waiting(k, q) \subseteq UserSlots
  BY DEF Waiting
<1>2. IsFiniteSet(UserSlots) /\ Cardinality(UserSlots) = MaxThreads
  <2>1. MaxThreads - 1 \in Int /\ ~ (0 > MaxThreads - 1) /\ MaxThreads - 1 - 0 + 1 = MaxThreads
    BY Widths
  <2> QED BY <2>1, FS_Interval DEF UserSlots
<1>3. IsFiniteSet(Waiting(k, q)) /\ Cardinality(Waiting(k, q)) <= Cardinality(UserSlots)
  BY <1>1, <1>2, FS_Subset
<1>4. Cardinality(Waiting(k, q)) \in Nat
  BY <1>3, FS_CardinalityType
<1> QED BY <1>1, <1>2, <1>3, <1>4, Widths

-----------------------------------------------------------------------------
(* Wakeups *)

\* r is k with the threads of S made ready with msg.
Woke(k, r, S, msg) ==
    /\ S \subseteq UserSlots
    /\ r \in NilType
    /\ r.current = k.current /\ r.isr = k.isr
    /\ r.clock = k.clock /\ r.alarm = k.alarm /\ r.started = k.started /\ r.pending = k.pending
    /\ r.lasttime = k.lasttime /\ r.scan = k.scan /\ r.nextalarm = k.nextalarm
    /\ \A t \in S : /\ r.state[t] = "READY" /\ r.msg[t] = msg
                    /\ r.timeout[t] = 0 /\ r.left[t] = 0
    /\ \A t \in Slots \ S : /\ r.state[t] = k.state[t] /\ r.msg[t] = k.msg[t]
                            /\ r.wtobj[t] = k.wtobj[t]
                            /\ r.timeout[t] = k.timeout[t] /\ r.left[t] = k.left[t]
    /\ r.next \in S \union {k.next}
    /\ \A t \in S \union {k.next} : r.next <= t

Wakeups == {"OK", "TIMEOUT", "RESET"}

LEMMA ReadyWakes ==
    ASSUME NEW k \in NilType, NEW S \in SUBSET UserSlots, NEW msg \in Wakeups
    PROVE  /\ Woke(k, chSchReadyI(k, S, msg), S, msg)
           /\ chSchReadyI(k, S, msg).qcnt = k.qcnt
<1> DEFINE r == chSchReadyI(k, S, msg)
<1>1. k.next \in Slots /\ S \union {k.next} \in SUBSET Nat /\ S \union {k.next} # {}
  BY SlotsNat DEF NilType
<1>2. PICK m : m = Min(S \union {k.next})
  OBVIOUS
<1>3. m \in S \union {k.next} /\ (\A y \in S \union {k.next} : m <= y) /\ m \in Slots
  BY <1>1, <1>2, Least, SlotsNat
<1>4. r = [k EXCEPT !.msg = [t \in Slots |-> IF t \in S THEN msg ELSE k.msg[t]],
                    !.wtobj = [t \in Slots |-> IF t \in S THEN NoQueue ELSE k.wtobj[t]],
                    !.state = [t \in Slots |-> IF t \in S THEN "READY" ELSE k.state[t]],
                    !.timeout = [t \in Slots |-> IF t \in S THEN 0 ELSE k.timeout[t]],
                    !.left = [t \in Slots |-> IF t \in S THEN 0 ELSE k.left[t]],
                    !.next = m]
  BY <1>2 DEF chSchReadyI, NilType
<1> HIDE DEF r
<1>5. r \in NilType
  <2>1. /\ [t \in Slots |-> IF t \in S THEN msg ELSE k.msg[t]] \in [Slots -> Wakeups]
        /\ [t \in Slots |-> IF t \in S THEN NoQueue ELSE k.wtobj[t]] \in [Slots -> Queues \union {NoQueue}]
        /\ [t \in Slots |-> IF t \in S THEN "READY" ELSE k.state[t]] \in [Slots -> {"READY", "SLEEPING", "WTQUEUE"}]
    BY DEF NilType, Wakeups
  <2>2. 0 \in Times
    BY Widths DEF Times
  <2>3. /\ [t \in Slots |-> IF t \in S THEN 0 ELSE k.timeout[t]] \in [Slots -> Times]
        /\ [t \in Slots |-> IF t \in S THEN 0 ELSE k.left[t]] \in [Slots -> Times]
    BY <2>2 DEF NilType
  <2> QED BY <1>3, <1>4, <2>1, <2>3 DEF NilType, Wakeups
<1>6. /\ r.current = k.current /\ r.isr = k.isr
      /\ r.clock = k.clock /\ r.alarm = k.alarm /\ r.started = k.started /\ r.pending = k.pending
      /\ r.lasttime = k.lasttime /\ r.scan = k.scan /\ r.nextalarm = k.nextalarm /\ r.qcnt = k.qcnt
      /\ r.next = m
  BY <1>4 DEF NilType
<1>7. \A t \in S : /\ r.state[t] = "READY" /\ r.msg[t] = msg
                   /\ r.timeout[t] = 0 /\ r.left[t] = 0
  BY <1>4, SlotsNat DEF NilType
<1>8. \A t \in Slots \ S : /\ r.state[t] = k.state[t] /\ r.msg[t] = k.msg[t]
                           /\ r.wtobj[t] = k.wtobj[t]
                           /\ r.timeout[t] = k.timeout[t] /\ r.left[t] = k.left[t]
  BY <1>4 DEF NilType
<1>9. Woke(k, r, S, msg) /\ r.qcnt = k.qcnt
  BY <1>3, <1>5, <1>6, <1>7, <1>8 DEF Woke
<1> QED BY <1>9 DEF r

\* A wakeup disturbs no other wait and no timer.
LEMMA WakeTime ==
    ASSUME NEW k \in NilType, TimeOK(k), NEW r, NEW S, NEW msg, Woke(k, r, S, msg)
    PROVE  TimeOK(r)
<1>1. AlarmOK(r)
  BY DEF TimeOK, Woke, AlarmOK, Ago, Span
<1>2. ASSUME NEW t \in Slots, r.timeout[t] > 0
      PROVE  IntervalOK(r, t)
  <2>1. t \notin S
    BY <1>2 DEF Woke
  <2>2. r.timeout[t] = k.timeout[t] /\ r.left[t] = k.left[t]
    BY <2>1 DEF Woke
  <2>3. IntervalOK(k, t)
    BY <1>2, <2>2 DEF TimeOK
  <2> QED BY <2>2, <2>3 DEF Woke, IntervalOK, Ago, Ahead
<1> QED BY <1>1, <1>2 DEF TimeOK

LEMMA WakeFirst ==
    ASSUME NEW k \in NilType, FirstOK(k), NEW r, NEW S, NEW msg, Woke(k, r, S, msg)
    PROVE  FirstOK(r)
<1>1. k.current \in Slots /\ k.next \in Slots /\ r.next \in Slots /\ S \subseteq Slots
  BY SlotsNat DEF NilType, Woke
<1>2. r.state[r.current] = "READY" /\ r.state[r.next] = "READY"
  BY <1>1 DEF Woke, FirstOK
<1>3. ASSUME NEW t \in Slots, r.state[t] = "READY"
      PROVE  r.next <= t
  <2>1. CASE t \in S
    BY <2>1 DEF Woke
  <2>2. CASE t \notin S
    <3>1. k.next <= t /\ r.next <= k.next
      BY <1>3, <2>2 DEF Woke, FirstOK
    <3>2. k.next \in Nat /\ r.next \in Nat /\ t \in Nat
      BY <1>1, SlotsNat
    <3> QED BY <3>1, <3>2
  <2> QED BY <2>1, <2>2
<1> QED BY <1>2, <1>3 DEF FirstOK

LEMMA WakeWaits ==
    ASSUME NEW k, Waits(k), NEW r, NEW S, NEW msg, Woke(k, r, S, msg),
           \A q \in Queues : r.qcnt[q] = k.qcnt[q] + Cardinality(Waiting(k, q) \intersect S)
    PROVE  Waits(r)
<1>1. r \in NilType /\ k \in NilType /\ S \subseteq UserSlots
  BY DEF Waits, Woke
<1>2. r.state[Idle] = "READY"
  BY <1>1, SlotsNat DEF Waits, Woke
<1>3. \A t \in Slots : r.state[t] = "READY" => r.timeout[t] = 0
  BY DEF Waits, Woke
<1>4. \A t \in Slots : r.timeout[t] = 0 => r.left[t] = 0
  BY DEF Waits, Woke
<1>5. ASSUME NEW q \in Queues
      PROVE  r.qcnt[q] = - Cardinality(Waiting(r, q))
  <2>1. Waiting(r, q) = Waiting(k, q) \ S
    BY SlotsNat DEF Waiting, Woke
  <2>2. IsFiniteSet(Waiting(k, q)) /\ Cardinality(Waiting(k, q)) \in Nat
    BY WaitingFinite
  <2>3. /\ Cardinality(Waiting(k, q) \ S) = Cardinality(Waiting(k, q)) - Cardinality(Waiting(k, q) \intersect S)
        /\ Cardinality(Waiting(k, q) \intersect S) \in Nat
    BY <2>2, FS_Difference, FS_Intersection, FS_CardinalityType
  <2>4. k.qcnt[q] = - Cardinality(Waiting(k, q))
    BY DEF Waits, QueueCountersExact
  <2> QED BY <2>1, <2>2, <2>3, <2>4
<1> QED BY <1>1, <1>2, <1>3, <1>4, <1>5 DEF Waits, QueueCountersExact

\* What is left in a queue fits its counter.
LEMMA CounterAfter ==
    ASSUME NEW k, Waits(k), NEW q \in Queues, NEW S
    PROVE  /\ k.qcnt[q] + Cardinality(Waiting(k, q) \intersect S) \in - MaxThreads .. 0
           /\ Cardinality(Waiting(k, q) \intersect S) \in Nat
<1>1. IsFiniteSet(Waiting(k, q)) /\ Cardinality(Waiting(k, q)) \in 0 .. MaxThreads
  BY WaitingFinite
<1>2. /\ Cardinality(Waiting(k, q) \intersect S) \in Nat
      /\ Cardinality(Waiting(k, q) \intersect S) <= Cardinality(Waiting(k, q))
  BY <1>1, FS_Intersection, FS_CardinalityType
<1>3. k.qcnt[q] = - Cardinality(Waiting(k, q))
  BY DEF Waits, QueueCountersExact
<1> QED BY <1>1, <1>2, <1>3, Widths

\* Only the counters differ.
LEMMA WokeFrom ==
    ASSUME NEW k \in NilType, NEW c \in [Queues -> - MaxThreads .. 0], NEW r, NEW S, NEW msg,
           Woke([k EXCEPT !.qcnt = c], r, S, msg)
    PROVE  Woke(k, r, S, msg)
<1>1. PICK j : j = [k EXCEPT !.qcnt = c]
  OBVIOUS
<1>2. /\ j.current = k.current /\ j.isr = k.isr
      /\ j.clock = k.clock /\ j.alarm = k.alarm /\ j.started = k.started /\ j.pending = k.pending
      /\ j.lasttime = k.lasttime /\ j.scan = k.scan /\ j.nextalarm = k.nextalarm
      /\ j.next = k.next /\ j.state = k.state /\ j.msg = k.msg /\ j.wtobj = k.wtobj
      /\ j.timeout = k.timeout /\ j.left = k.left
  BY <1>1 DEF NilType
<1>3. Woke(j, r, S, msg)
  BY <1>1
<1> QED BY <1>2, <1>3 DEF Woke

LEMMA TimeoutWakes ==
    ASSUME NEW k, Waits(k), NEW S \in SUBSET UserSlots
    PROVE  /\ Woke(k, nil_ready_timeout(k, S), S, "TIMEOUT")
           /\ Waits(nil_ready_timeout(k, S))
<1> DEFINE c == [q \in Queues |-> k.qcnt[q] + Cardinality(Waiting(k, q) \intersect S)]
           j == [k EXCEPT !.qcnt = c]
           r == nil_ready_timeout(k, S)
<1>1. k \in NilType
  BY DEF Waits
<1>2. c \in [Queues -> - MaxThreads .. 0]
  BY CounterAfter
<1>3. j \in NilType /\ j.qcnt = c
  <2> HIDE DEF c
  <2> QED BY <1>1, <1>2 DEF NilType
<1>4. r = chSchReadyI(j, S, "TIMEOUT")
  BY <1>1 DEF nil_ready_timeout, NilType
<1>5. Woke(j, r, S, "TIMEOUT") /\ r.qcnt = c
  <2> HIDE DEF j, c, r
  <2> QED BY <1>3, <1>4, ReadyWakes DEF Wakeups
<1>6. Woke(k, r, S, "TIMEOUT")
  <2> HIDE DEF c, r
  <2> QED BY <1>1, <1>2, <1>5, WokeFrom
<1>7. \A q \in Queues : r.qcnt[q] = k.qcnt[q] + Cardinality(Waiting(k, q) \intersect S)
  BY <1>5
<1>8. Waits(r)
  <2> HIDE DEF r
  <2> QED BY <1>6, <1>7, WakeWaits
<1> QED BY <1>6, <1>8

LEMMA DequeueNextWakes ==
    ASSUME NEW k, Waits(k), NEW q \in Queues, NEW msg \in Wakeups
    PROVE  \E S \in SUBSET Waiting(k, q) :
              /\ Woke(k, chThdDequeueNextI(k, q, msg), S, msg)
              /\ Waits(chThdDequeueNextI(k, q, msg))
              /\ k.qcnt[q] < 0 => \E t \in UserSlots : S = {t}
              /\ k.qcnt[q] = 0 => S = {}
<1> DEFINE r == chThdDequeueNextI(k, q, msg)
           W == Waiting(k, q)
<1>1. k \in NilType /\ k.qcnt[q] = - Cardinality(W) /\ k.qcnt[q] \in - MaxThreads .. 0
  BY DEF Waits, QueueCountersExact, NilType
<1>2. W \subseteq UserSlots /\ IsFiniteSet(W) /\ Cardinality(W) \in 0 .. MaxThreads
  BY WaitingFinite
<1>3. CASE k.qcnt[q] < 0
  <2>1. W # {}
    BY <1>1, <1>2, <1>3, FS_EmptySet, Widths
  <2>2. PICK t : t = nil_find_thread(k, q)
    OBVIOUS
  <2>3. t \in W /\ t \in UserSlots
    <3>1. W \in SUBSET Nat
      BY <1>2, SlotsNat
    <3> QED BY <1>2, <2>1, <2>2, <3>1, Least DEF nil_find_thread
  <2> DEFINE c == [k.qcnt EXCEPT ![q] = k.qcnt[q] + 1]
             j == [k EXCEPT !.qcnt = c]
  <2>4. c \in [Queues -> - MaxThreads .. 0]
    BY <1>1, <1>3, Widths DEF NilType
  <2>5. j \in NilType /\ j.qcnt = c
    <3> HIDE DEF c
    <3> QED BY <1>1, <2>4 DEF NilType
  <2>6. r = chSchReadyI(j, {t}, msg)
    BY <1>1, <1>3, <2>2 DEF chThdDequeueNextI, NilType
  <2>7. Woke(j, r, {t}, msg) /\ r.qcnt = c
    <3> HIDE DEF j, c, r
    <3> QED BY <2>3, <2>5, <2>6, ReadyWakes
  <2>8. Woke(k, r, {t}, msg)
    <3> HIDE DEF c, r
    <3> QED BY <1>1, <2>4, <2>7, WokeFrom
  <2>9. \A p \in Queues : r.qcnt[p] = k.qcnt[p] + Cardinality(Waiting(k, p) \intersect {t})
    <3> SUFFICES ASSUME NEW p \in Queues
                 PROVE  r.qcnt[p] = k.qcnt[p] + Cardinality(Waiting(k, p) \intersect {t})
      OBVIOUS
    <3>1. Waiting(k, p) \intersect {t} = IF p = q THEN {t} ELSE {}
      BY <2>3 DEF Waiting
    <3>2. Cardinality({t}) = 1 /\ Cardinality({}) = 0
      BY FS_Singleton, FS_EmptySet
    <3>3. k.qcnt \in [Queues -> - MaxThreads .. 0] /\ k.qcnt[p] \in Int
      BY <1>1, Widths DEF NilType
    <3>4. r.qcnt[p] = IF p = q THEN k.qcnt[p] + 1 ELSE k.qcnt[p]
      BY <2>7, <3>3
    <3> QED BY <3>1, <3>2, <3>3, <3>4
  <2>10. Waits(r)
    <3> HIDE DEF r
    <3> QED BY <2>8, <2>9, WakeWaits
  <2> HIDE DEF r, W
  <2> QED BY <1>1, <1>3, <2>3, <2>8, <2>10 DEF r, W
<1>4. CASE ~ (k.qcnt[q] < 0)
  <2>1. r = k /\ k.qcnt[q] = 0
    BY <1>1, <1>4, Widths DEF chThdDequeueNextI
  <2>2. k.next \in Slots /\ k.next <= k.next
    BY <1>1, SlotsNat DEF NilType
  <2>3. Woke(k, r, {}, msg)
    BY <1>1, <2>1, <2>2 DEF Woke
  <2>4. Waits(r)
    BY <2>1
  <2> HIDE DEF r, W
  <2> QED BY <1>4, <2>1, <2>3, <2>4 DEF r
<1> QED BY <1>3, <1>4

LEMMA DequeueAllWakes ==
    ASSUME NEW k, Waits(k), NEW q \in Queues, NEW msg \in Wakeups
    PROVE  /\ Woke(k, chThdDequeueAllI(k, q, msg), Waiting(k, q), msg)
           /\ Waits(chThdDequeueAllI(k, q, msg))
<1> DEFINE W == Waiting(k, q)
           Before(t) == {u \in W : u < t}
           S == {t \in W : Cardinality(Before(t)) < - k.qcnt[q]}
           c == [k.qcnt EXCEPT ![q] = 0]
           j == [k EXCEPT !.qcnt = c]
           m == chSchReadyI(k, W, msg)
           r == chThdDequeueAllI(k, q, msg)
<1>1. k \in NilType /\ k.qcnt[q] = - Cardinality(W) /\ k.qcnt[q] \in - MaxThreads .. 0
  BY DEF Waits, QueueCountersExact, NilType
<1>2. W \subseteq UserSlots /\ IsFiniteSet(W) /\ Cardinality(W) \in 0 .. MaxThreads
  BY WaitingFinite
<1>3. ASSUME NEW t \in W
      PROVE  Cardinality(Before(t)) < - k.qcnt[q]
  <2>1. Before(t) \subseteq W /\ t \notin Before(t) /\ t \in W
    <3>1. t \in Slots
      BY <1>2, SlotsNat
    <3> QED BY <3>1, SlotsNat
  <2>2. Cardinality(Before(t)) <= Cardinality(W) /\ Cardinality(Before(t)) # Cardinality(W)
        /\ IsFiniteSet(Before(t))
    <3> HIDE DEF Before, W
    <3> QED BY <1>2, <2>1, FS_Subset
  <2>3. Cardinality(Before(t)) \in Nat
    BY <2>2, FS_CardinalityType
  <2> HIDE DEF Before, W
  <2> QED BY <1>1, <1>2, <2>2, <2>3
<1>4. S = W
  BY <1>3
<1>5. r = [m EXCEPT !.qcnt[q] = 0]
  <2>1. nil_ready_all(k, q, k.qcnt[q], msg) = m
    BY <1>4 DEF nil_ready_all
  <2> QED BY <2>1 DEF chThdDequeueAllI
<1>6. Woke(k, m, W, msg) /\ m.qcnt = k.qcnt
  <2> HIDE DEF W
  <2> QED BY <1>1, <1>2, ReadyWakes
<1>7. m \in NilType
  BY <1>6 DEF Woke
<1> HIDE DEF m
<1>8. /\ r.current = m.current /\ r.isr = m.isr
      /\ r.clock = m.clock /\ r.alarm = m.alarm /\ r.started = m.started /\ r.pending = m.pending
      /\ r.lasttime = m.lasttime /\ r.scan = m.scan /\ r.nextalarm = m.nextalarm
      /\ r.next = m.next /\ r.state = m.state /\ r.msg = m.msg /\ r.wtobj = m.wtobj
      /\ r.timeout = m.timeout /\ r.left = m.left /\ r.qcnt = c
  <2> HIDE DEF r
  <2> QED BY <1>5, <1>6, <1>7 DEF NilType
<1>9. r \in NilType
  <2>1. c \in [Queues -> - MaxThreads .. 0]
    BY <1>1, Widths DEF NilType
  <2> HIDE DEF r, c
  <2> QED BY <1>5, <1>6, <1>7, <2>1 DEF NilType, c
<1>10. Woke(k, r, W, msg)
  <2> HIDE DEF r, W
  <2> QED BY <1>6, <1>8, <1>9 DEF Woke
<1>11. \A p \in Queues : r.qcnt[p] = k.qcnt[p] + Cardinality(Waiting(k, p) \intersect W)
  <2> SUFFICES ASSUME NEW p \in Queues
               PROVE  r.qcnt[p] = k.qcnt[p] + Cardinality(Waiting(k, p) \intersect W)
    OBVIOUS
  <2>1. Waiting(k, p) \intersect W = IF p = q THEN W ELSE {}
    BY DEF Waiting
  <2>2. Cardinality({}) = 0
    BY FS_EmptySet
  <2>3. k.qcnt \in [Queues -> - MaxThreads .. 0] /\ k.qcnt[p] \in Int
    BY <1>1, Widths DEF NilType
  <2>4. r.qcnt[p] = IF p = q THEN 0 ELSE k.qcnt[p]
    BY <1>8, <2>3
  <2>5. Cardinality(W) \in Int
    BY <1>2, Widths
  <2> HIDE DEF W, r
  <2>6. CASE p = q
    <3>1. Waiting(k, p) \intersect W = W /\ r.qcnt[p] = 0 /\ k.qcnt[p] = - Cardinality(W)
      BY <1>1, <2>1, <2>4, <2>6
    <3>2. Cardinality(Waiting(k, p) \intersect W) = Cardinality(W)
      BY <3>1
    <3> QED BY <2>5, <3>1, <3>2
  <2>7. CASE p # q
    BY <2>1, <2>2, <2>3, <2>4, <2>7
  <2> QED BY <2>6, <2>7
<1>12. Waits(r)
  <2> HIDE DEF r, W
  <2> QED BY <1>10, <1>11, WakeWaits
<1> QED BY <1>10, <1>12

LEMMA WokeTwice ==
    ASSUME NEW k \in NilType, NEW m \in NilType, NEW r, NEW S, NEW T, NEW msg,
           Woke(k, m, S, msg), Woke(m, r, T, msg)
    PROVE  Woke(k, r, S \union T, msg)
<1>1. k.next \in Nat /\ m.next \in Nat /\ r.next \in Nat /\ S \subseteq Nat /\ T \subseteq Nat
  BY SlotsNat DEF NilType, Woke
<1>2. /\ r.next \in (S \union T) \union {k.next}
      /\ \A t \in (S \union T) \union {k.next} : r.next <= t
  BY <1>1 DEF Woke
<1>3. /\ S \union T \subseteq UserSlots
      /\ \A t \in S \union T : /\ r.state[t] = "READY" /\ r.msg[t] = msg
                               /\ r.timeout[t] = 0 /\ r.left[t] = 0
      /\ \A t \in Slots \ (S \union T) : /\ r.state[t] = k.state[t] /\ r.msg[t] = k.msg[t]
                                         /\ r.wtobj[t] = k.wtobj[t]
                                         /\ r.timeout[t] = k.timeout[t] /\ r.left[t] = k.left[t]
  BY SlotsNat DEF Woke
<1> QED BY <1>2, <1>3 DEF Woke

\* A reset empties both queues.
LEMMA WakeAllWakes ==
    ASSUME NEW k, Waits(k)
    PROVE  /\ Woke(k, WakeAll(k), Waiting(k, "qw") \union Waiting(k, "qr"), "RESET")
           /\ Waits(WakeAll(k))
           /\ WakeAll(k).qcnt = [q \in Queues |-> 0]
<1> DEFINE m == chThdDequeueAllI(k, "qw", "RESET")
           r == chThdDequeueAllI(m, "qr", "RESET")
<1>1. WakeAll(k) = r /\ "qw" \in Queues /\ "qr" \in Queues
  BY MailboxAssumption DEF WakeAll
<1>2. Woke(k, m, Waiting(k, "qw"), "RESET") /\ Waits(m)
  BY <1>1, DequeueAllWakes DEF Wakeups
<1> HIDE DEF m
<1>3. Woke(m, r, Waiting(m, "qr"), "RESET") /\ Waits(r)
  BY <1>1, <1>2, DequeueAllWakes DEF Wakeups
<1> HIDE DEF r
<1>4. Waiting(m, "qr") = Waiting(k, "qr")
  <2>1. \A t \in UserSlots : t \in Waiting(k, "qw") =>
           m.state[t] = "READY" /\ k.wtobj[t] # "qr"
    BY <1>2 DEF Woke, Waiting
  <2>2. \A t \in UserSlots : t \notin Waiting(k, "qw") =>
           m.state[t] = k.state[t] /\ m.wtobj[t] = k.wtobj[t]
    BY <1>2, SlotsNat DEF Woke
  <2> QED BY <2>1, <2>2 DEF Waiting
<1>5. Woke(k, r, Waiting(k, "qw") \union Waiting(k, "qr"), "RESET")
  <2>1. k \in NilType /\ m \in NilType
    BY <1>2 DEF Waits
  <2>2. Woke(m, r, Waiting(k, "qr"), "RESET")
    BY <1>3, <1>4
  <2> QED BY <1>2, <2>1, <2>2, WokeTwice
<1>6. ASSUME NEW q \in Queues
      PROVE  r.qcnt[q] = 0
  <2> DEFINE S == Waiting(k, "qw") \union Waiting(k, "qr")
  <2>3. \A t \in UserSlots : t \in S => r.state[t] = "READY"
    BY <1>5 DEF Woke
  <2>4. \A t \in UserSlots : t \notin S => r.state[t] = k.state[t] /\ r.wtobj[t] = k.wtobj[t]
    BY <1>5, SlotsNat DEF Woke
  <2>5. q = "qw" \/ q = "qr"
    BY MailboxAssumption
  <2>1. Waiting(r, q) = {}
    BY <2>3, <2>4, <2>5 DEF Waiting
  <2>2. r.qcnt[q] = - Cardinality({})
    BY <1>3, <2>1 DEF Waits, QueueCountersExact
  <2> QED BY <2>2, FS_EmptySet
<1>7. r.qcnt \in [Queues -> - MaxThreads .. 0]
  BY <1>3 DEF Waits, NilType
<1>8. r.qcnt = [q \in Queues |-> 0]
  BY <1>6, <1>7
<1> QED BY <1>1, <1>3, <1>5, <1>8

-----------------------------------------------------------------------------
(* Putting the running thread to sleep *)

LEMMA DiffChain ==
    ASSUME NEW a \in Times, NEW b \in Times, NEW c \in Times
    PROVE  chTimeDiffX(a, c) = IF chTimeDiffX(a, b) + chTimeDiffX(b, c) < Width
                                 THEN chTimeDiffX(a, b) + chTimeDiffX(b, c)
                                 ELSE (chTimeDiffX(a, b) + chTimeDiffX(b, c)) - Width
<1>1. a \in Int /\ b \in Int /\ c \in Int /\ Width \in Int
      /\ 0 <= a /\ a < Width /\ 0 <= b /\ b < Width /\ 0 <= c /\ c < Width
  BY Widths DEF Times
<1>2. PICK x \in Times : x = chTimeDiffX(a, b)
  BY DiffValue
<1>3. PICK y \in Times : y = chTimeDiffX(b, c)
  BY DiffValue
<1>4. PICK z \in Times : z = chTimeDiffX(a, c)
  BY DiffValue
<1>5. (a <= b => x = b - a) /\ (b < a => x = (b - a) + Width)
  BY <1>2, DiffValue
<1>6. (b <= c => y = c - b) /\ (c < b => y = (c - b) + Width)
  BY <1>3, DiffValue
<1>7. (a <= c => z = c - a) /\ (c < a => z = (c - a) + Width)
  BY <1>4, DiffValue
<1>8. x \in Int /\ y \in Int /\ z \in Int
  BY Widths DEF Times
<1>9. z = IF x + y < Width THEN x + y ELSE (x + y) - Width
  BY <1>1, <1>5, <1>6, <1>7, <1>8
<1> QED BY <1>2, <1>3, <1>4, <1>9

LEMMA DiffZero ==
    ASSUME NEW a \in Times, NEW b \in Times
    PROVE  chTimeDiffX(a, b) \in Int /\ 0 <= chTimeDiffX(a, b) /\ chTimeDiffX(a, b) < Width
           /\ (chTimeDiffX(a, b) = 0 <=> a = b)
<1>1. a \in Int /\ b \in Int /\ Width \in Int
      /\ 0 <= a /\ a < Width /\ 0 <= b /\ b < Width
  BY Widths DEF Times
<1>2. PICK x \in Times : x = chTimeDiffX(a, b)
  BY DiffValue
<1>3. (a <= b => x = b - a) /\ (b < a => x = (b - a) + Width)
  BY <1>2, DiffValue
<1>4. x \in Int /\ 0 <= x /\ x < Width
  BY Widths DEF Times
<1>5. x = 0 <=> a = b
  BY <1>1, <1>3, <1>4
<1> QED BY <1>2, <1>4, <1>5

LEMMA DiffAdd ==
    ASSUME NEW a \in Times, NEW i \in Times
    PROVE  chTimeDiffX(a, chTimeAddX(a, i)) = i
<1>1. a \in Int /\ i \in Int /\ Width \in Int
      /\ 0 <= a /\ a < Width /\ 0 <= i /\ i < Width
  BY Widths DEF Times
<1>2. PICK b \in Times : b = chTimeAddX(a, i)
  BY AddValue
<1>3. (a + i < Width => b = a + i) /\ (a + i >= Width => b = (a + i) - Width)
  BY <1>1, <1>2, AddValue
<1>4. PICK x \in Times : x = chTimeDiffX(a, b)
  BY DiffValue
<1>5. (a <= b => x = b - a) /\ (b < a => x = (b - a) + Width)
  BY <1>4, DiffValue
<1>6. x \in Int /\ b \in Int
  BY Widths DEF Times
<1>7. x = i
  BY <1>1, <1>3, <1>5, <1>6
<1> QED BY <1>2, <1>4, <1>7

\* The three distances of a running alarm.
LEMMA Distances ==
    ASSUME NEW k \in NilType
    PROVE  /\ Ago(k) \in Int /\ 0 <= Ago(k) /\ Ago(k) < Width
           /\ Ahead(k) \in Int /\ 0 <= Ahead(k) /\ Ahead(k) < Width
           /\ Ahead(k) = 0 <=> k.clock = k.alarm
           /\ Ago(k) = 0 <=> k.lasttime = k.clock
           /\ Span(k) = IF Ago(k) + Ahead(k) < Width THEN Ago(k) + Ahead(k)
                                                     ELSE (Ago(k) + Ahead(k)) - Width
<1>1. k.lasttime \in Times /\ k.clock \in Times /\ k.alarm \in Times
  BY DEF NilType
<1> QED BY <1>1, DiffZero, DiffChain DEF Ago, Ahead, Span

LEMMA SpanAhead ==
    ASSUME NEW k \in NilType, AlarmOK(k), k.started, k.scan = NoScan
    PROVE  /\ Ago(k) + Ahead(k) < Width
           /\ Span(k) = Ago(k) + Ahead(k)
           /\ k.pending <=> Ahead(k) = 0
<1>1. PICK e \in Int : e = Ago(k)
  BY Distances
<1>2. PICK d \in Int : d = Ahead(k)
  BY Distances
<1>3. 0 <= e /\ e < Width /\ 0 <= d /\ d < Width /\ Width \in Int
  BY <1>1, <1>2, Distances, Widths
<1>4. PICK z : z = Span(k)
  OBVIOUS
<1>5. z = (IF e + d < Width THEN e + d ELSE (e + d) - Width) /\ e <= z
  BY <1>1, <1>2, <1>4, Distances DEF AlarmOK
<1>6. e + d < Width /\ z = e + d
  BY <1>3, <1>5
<1>7. k.pending <=> Ahead(k) = 0
  BY Distances DEF AlarmOK
<1> QED BY <1>1, <1>2, <1>4, <1>6, <1>7

\* Sleeping is done out of the handlers, by a thread that has no timeout yet.
Sleeper(k) ==
    /\ Waits(k) /\ TimeOK(k)
    /\ ~ k.isr
    /\ k.current \in UserSlots
    /\ k.timeout[k.current] = 0
    /\ k.state[k.current] # "READY"

\* r is k with the alarm set for a further wait of T ticks, the waits of S
\* having been found to be over.
Armed(k, r, S, T) ==
    /\ Waits(r) /\ TimeOK(r)
    /\ r.started /\ r.scan = NoScan /\ ~ r.isr
    /\ r.clock = k.clock /\ r.current = k.current
    /\ Ago(r) + T < Width
    /\ r.pending \/ Ahead(r) \in 1 .. T
    /\ S \subseteq UserSlots
    /\ \A t \in S : /\ k.timeout[t] > 0 /\ k.left[t] = 0
                    /\ r.state[t] = "READY" /\ r.msg[t] = "TIMEOUT"
    /\ \A t \in Slots \ S : /\ r.state[t] = k.state[t] /\ r.msg[t] = k.msg[t]
                            /\ r.wtobj[t] = k.wtobj[t]
                            /\ r.timeout[t] > 0 => k.timeout[t] > 0

LEMMA SameWaits ==
    ASSUME NEW k, Waits(k), NEW r \in NilType,
           r.state = k.state, r.wtobj = k.wtobj, r.qcnt = k.qcnt,
           r.timeout = k.timeout, r.left = k.left
    PROVE  Waits(r)
<1>1. \A q \in Queues : Waiting(r, q) = Waiting(k, q)
  BY DEF Waiting
<1>2. QueueCountersExact(r)
  BY <1>1 DEF QueueCountersExact, Waits
<1> QED BY <1>2 DEF Waits

LEMMA SleeperScan ==
    ASSUME NEW k, Sleeper(k)
    PROVE  k \in NilType /\ k.scan = NoScan /\ k.current \in Slots
  BY SlotsNat DEF Sleeper, Waits, TimeOK, AlarmOK

\* The first timed wait sets the origin and starts the alarm.
LEMMA ArmStart ==
    ASSUME NEW k, Sleeper(k), ~ k.started, NEW T \in 1 .. Width - 1, NEW b, b = chTimeAddX(k.clock, T)
    PROVE  Armed(k, [k EXCEPT !.lasttime = k.clock, !.alarm = b, !.started = TRUE, !.pending = FALSE], {}, T)
<1> DEFINE r == [k EXCEPT !.lasttime = k.clock, !.alarm = b, !.started = TRUE, !.pending = FALSE]
<1>1. k \in NilType /\ k.scan = NoScan /\ k.clock \in Times
  BY SleeperScan DEF NilType
<1>2. T \in Times /\ T \in Int /\ 0 < T /\ T < Width
  BY Widths DEF Times
<1>3. b \in Times /\ chTimeDiffX(k.clock, b) = T
  BY <1>1, <1>2, AddValue, DiffAdd
<1>4. /\ r \in NilType
      /\ r.lasttime = k.clock /\ r.clock = k.clock /\ r.alarm = b /\ r.started = TRUE /\ r.pending = FALSE
      /\ r.state = k.state /\ r.wtobj = k.wtobj /\ r.qcnt = k.qcnt /\ r.msg = k.msg
      /\ r.timeout = k.timeout /\ r.left = k.left
      /\ r.scan = NoScan /\ r.isr = k.isr /\ r.current = k.current
  BY <1>1, <1>3 DEF NilType
<1> HIDE DEF r
<1>5. Waits(r)
  BY <1>4, SameWaits DEF Sleeper
<1>6. Ago(r) = 0 /\ Ahead(r) = T /\ Span(r) = T
  BY <1>1, <1>3, <1>4, DiffZero DEF Ago, Ahead, Span
<1>7. AlarmOK(r)
  <2>1. r.clock # r.alarm
    BY <1>2, <1>4, <1>6, Distances
  <2> QED BY <1>2, <1>4, <1>6, <2>1 DEF AlarmOK
<1>8. \A t \in Slots : ~ (r.timeout[t] > 0)
  BY <1>4 DEF Sleeper, TimeOK, IntervalOK
<1>9. TimeOK(r)
  BY <1>7, <1>8 DEF TimeOK
<1>10. 0 + T < Width /\ T \in 1 .. T
  BY <1>2
<1>11. ~ r.isr
  BY <1>4 DEF Sleeper
<1>12. Armed(k, r, {}, T)
  BY <1>4, <1>5, <1>6, <1>9, <1>10, <1>11 DEF Armed
<1> QED BY <1>12 DEF r

\* The interval fits relative to the origin: at most the alarm is brought
\* forward.
LEMMA ArmKeep ==
    ASSUME NEW k, Sleeper(k), k.started, NEW T \in 1 .. Width - 1, NEW b, b = chTimeAddX(k.clock, T),
           ~ (chTimeDiffX(k.lasttime, b) < T),
           NEW r, r = IF chTimeIsInRangeX(b, k.lasttime, k.alarm) THEN [k EXCEPT !.alarm = b] ELSE k
    PROVE  Armed(k, r, {}, T)
<1>1. k \in NilType /\ k.scan = NoScan /\ k.clock \in Times /\ k.lasttime \in Times /\ k.alarm \in Times
  BY SleeperScan DEF NilType
<1>2. T \in Times /\ T \in Int /\ 0 < T /\ T < Width /\ Width \in Int
  BY Widths DEF Times
<1>3. b \in Times /\ chTimeDiffX(k.clock, b) = T
  BY <1>1, <1>2, AddValue, DiffAdd
<1>4. PICK e \in Int : e = Ago(k) /\ 0 <= e /\ e < Width
  BY <1>1, Distances
<1>5. PICK d \in Int : d = Ahead(k) /\ 0 <= d /\ d < Width
  BY <1>1, Distances
<1>6. e + d < Width /\ Span(k) = e + d /\ (k.pending <=> d = 0)
  BY <1>1, <1>4, <1>5, SpanAhead DEF Sleeper, TimeOK
<1>7. PICK z : z = chTimeDiffX(k.lasttime, b)
  OBVIOUS
<1>8. z = IF e + T < Width THEN e + T ELSE (e + T) - Width
  BY <1>1, <1>3, <1>4, <1>7, DiffChain DEF Ago
<1>9. e + T < Width /\ z = e + T
  <2>1. ~ (z < T)
    BY <1>7
  <2> QED BY <1>2, <1>4, <1>8, <2>1
<1>10. chTimeIsInRangeX(b, k.lasttime, k.alarm) <=> T < d
  <2>1. chTimeIsInRangeX(b, k.lasttime, k.alarm) <=> z < e + d
    BY <1>6, <1>7 DEF chTimeIsInRangeX, Span
  <2> QED BY <1>2, <1>4, <1>5, <1>9, <2>1
<1>11. ~ k.isr /\ Waits(k) /\ TimeOK(k) /\ AlarmOK(k)
  BY DEF Sleeper, TimeOK
<1>12. CASE T < d
  <2>1. /\ r \in NilType
        /\ r.lasttime = k.lasttime /\ r.clock = k.clock /\ r.alarm = b /\ r.started = TRUE /\ r.pending = k.pending
        /\ r.state = k.state /\ r.wtobj = k.wtobj /\ r.qcnt = k.qcnt /\ r.msg = k.msg
        /\ r.timeout = k.timeout /\ r.left = k.left
        /\ r.scan = NoScan /\ r.isr = k.isr /\ r.current = k.current
    <3>1. r = [k EXCEPT !.alarm = b]
      BY <1>10, <1>12
    <3> QED BY <1>1, <1>3, <3>1 DEF NilType
  <2>2. Waits(r)
    BY <1>11, <2>1, SameWaits
  <2>3. Ago(r) = e /\ Ahead(r) = T /\ Span(r) = e + T
    BY <1>3, <1>4, <1>7, <1>9, <2>1 DEF Ago, Ahead, Span
  <2>4. ~ r.pending
    BY <1>2, <1>5, <1>6, <1>12, <2>1
  <2>5. AlarmOK(r)
    <3>3. r \in NilType /\ Ahead(r) # 0
      BY <1>2, <2>1, <2>3
    <3>1. r.clock # r.alarm
      BY <3>3, Distances
    <3>2. e <= e + T
      BY <1>2, <1>4
    <3> QED BY <2>1, <2>3, <2>4, <3>1, <3>2 DEF AlarmOK
  <2>6. ASSUME NEW t \in Slots, r.timeout[t] > 0
        PROVE  IntervalOK(r, t)
    <3>1. IntervalOK(k, t) /\ k.left[t] \in Times
      BY <1>1, <1>11, <2>1, <2>6 DEF TimeOK, NilType
    <3>4. ~ k.pending
      BY <2>1, <2>4
    <3>2. k.timeout[t] = e + k.left[t] /\ (k.left[t] # 0) /\ d \in 1 .. k.left[t]
      BY <1>1, <1>4, <1>5, <3>1, <3>4, Zenon DEF IntervalOK
    <3>3. T \in 1 .. k.left[t]
      <4>1. k.left[t] \in Int
        BY <3>1, Widths DEF Times
      <4> QED BY <1>2, <1>12, <3>2, <4>1
    <3> QED BY <2>1, <2>3, <3>2, <3>3 DEF IntervalOK
  <2>7. TimeOK(r)
    BY <2>5, <2>6 DEF TimeOK
  <2>8. T \in 1 .. T
    BY <1>2
  <2> QED BY <1>9, <1>11, <2>1, <2>2, <2>3, <2>7, <2>8 DEF Armed
<1>13. CASE ~ (T < d)
  <2>1. r = k
    BY <1>10, <1>13
  <2>2. k.pending \/ Ahead(k) \in 1 .. T
    BY <1>2, <1>5, <1>6, <1>13
  <2> QED BY <1>1, <1>4, <1>9, <1>11, <2>1, <2>2 DEF Armed
<1> QED BY <1>12, <1>13

\* The origin moves: every wait that goes on gets what is left of it.
LEMMA ArmRebase ==
    ASSUME NEW k, Sleeper(k), k.started, NEW T \in 1 .. Width - 1
    PROVE  Armed(k, Rebase(k, T), Overdue(k, Ago(k)), T)
<1>1. /\ k \in NilType /\ k.scan = NoScan /\ k.clock \in Times /\ k.lasttime \in Times
      /\ k.timeout \in [Slots -> Times] /\ k.left \in [Slots -> Times]
  BY SleeperScan DEF NilType
<1>2. T \in Times /\ T \in Int /\ 0 < T /\ T < Width /\ Width \in Int
  BY Widths DEF Times
<1>3. PICK e \in Int : e = Ago(k) /\ 0 <= e /\ e < Width
  BY <1>1, Distances
<1>4. ~ k.isr /\ Waits(k) /\ TimeOK(k) /\ k.current \in Slots /\ k.timeout[k.current] = 0
  BY SleeperScan DEF Sleeper
<1> DEFINE S == Overdue(k, e)
           R == Remaining(k, e)
           m == nil_ready_timeout(k, S)
           N == {T} \union {k.timeout[t] - e : t \in R}
           f == [t \in Slots |-> IF t \in R THEN m.timeout[t] - e ELSE m.timeout[t]]
           r == Rebase(k, T)
<1>5. \A t \in Slots : /\ k.timeout[t] \in Int /\ k.left[t] \in Int
                       /\ 0 <= k.timeout[t] /\ k.timeout[t] < Width
                       /\ 0 <= k.left[t] /\ k.left[t] < Width
  BY <1>1, Widths DEF Times
<1>6. ASSUME NEW t \in Slots, k.timeout[t] > 0
      PROVE  k.timeout[t] = e + k.left[t]
  BY <1>1, <1>3, <1>4, <1>6 DEF TimeOK, IntervalOK
<1>7. \A t \in Slots : k.timeout[t] > 0 => t \in UserSlots
  BY <1>4, <1>5, SlotsNat DEF Waits
<1>8. ASSUME NEW t \in Slots
      PROVE  /\ t \in S => k.timeout[t] > 0 /\ k.left[t] = 0
             /\ t \in R => t \notin S /\ k.timeout[t] - e = k.left[t] /\ 0 < k.left[t]
             /\ t \notin S /\ t \notin R => k.timeout[t] = 0 /\ k.left[t] = 0
  <2>1. CASE t \in S
    <3>1. k.timeout[t] \in 1 .. e
      BY <2>1 DEF Overdue
    <3>2. k.timeout[t] > 0 /\ ~ (k.timeout[t] > e)
      BY <1>3, <1>5, <3>1
    <3>3. t \notin R
      BY <3>2 DEF Remaining
    <3> QED BY <1>3, <1>5, <1>6, <2>1, <3>1, <3>2, <3>3
  <2>2. CASE t \in R
    <3>1. k.timeout[t] > e
      BY <2>2 DEF Remaining
    <3>2. ~ (k.timeout[t] \in 1 .. e) /\ k.timeout[t] > 0
      BY <1>3, <1>5, <3>1
    <3>3. t \notin S
      BY <3>2 DEF Overdue
    <3> QED BY <1>3, <1>5, <1>6, <2>2, <3>1, <3>2, <3>3
  <2>3. CASE t \notin S /\ t \notin R
    <3>1. t \in UserSlots => ~ (k.timeout[t] \in 1 .. e) /\ ~ (k.timeout[t] > e)
      BY <2>3 DEF Overdue, Remaining
    <3>2. k.timeout[t] = 0
      BY <1>3, <1>5, <1>7, <3>1
    <3> QED BY <1>4, <2>3, <3>2 DEF Waits
  <2> QED BY <2>1, <2>2, <2>3
<1>9. S \subseteq UserSlots /\ R \subseteq Slots
  BY SlotsNat DEF Overdue, Remaining
<1> HIDE DEF S, R
<1>10. Woke(k, m, S, "TIMEOUT") /\ Waits(m) /\ m \in NilType
  <2>1. S \in SUBSET UserSlots
    BY <1>9
  <2> QED BY <1>4, <2>1, TimeoutWakes DEF Waits
<1> HIDE DEF m
<1>11. PICK x : x = Min(N)
  OBVIOUS
<1>12. x \in 1 .. T /\ x \in Int /\ \A t \in R : x <= k.left[t]
  <2>1. \A t \in R : k.timeout[t] - e = k.left[t] /\ k.left[t] \in Nat /\ 0 < k.left[t]
    BY <1>5, <1>8, <1>9
  <2>2. N \in SUBSET Nat /\ N # {} /\ T \in N
    BY <1>2, <2>1
  <2>3. \A y \in N : 0 < y
    BY <1>2, <2>1
  <2>4. x \in N /\ \A y \in N : x <= y
    <3> HIDE DEF N
    <3> QED BY <1>11, <2>2, Least
  <2>5. \A t \in R : k.left[t] \in N
    BY <2>1
  <2>6. x \in Nat /\ 0 < x /\ x <= T
    <3> HIDE DEF N
    <3> QED BY <2>2, <2>3, <2>4
  <2>7. \A t \in R : x <= k.left[t]
    BY <2>4, <2>5
  <2>8. x \in 1 .. T /\ x \in Int
    BY <1>2, <2>6
  <2> QED BY <2>7, <2>8
<1> HIDE DEF N
<1>13. x \in Times /\ chTimeAddX(k.clock, x) \in Times /\ chTimeDiffX(k.clock, chTimeAddX(k.clock, x)) = x
  <2>1. x \in Times
    BY <1>2, <1>12 DEF Times
  <2> QED BY <1>1, <2>1, AddValue, DiffAdd
<1>14. PICK b \in Times : b = chTimeAddX(k.clock, x)
  BY <1>13
<1>15. r = [m EXCEPT !.timeout = f, !.lasttime = k.clock, !.alarm = b, !.pending = FALSE]
  BY <1>3, <1>10, <1>11, <1>14 DEF Rebase, N, m, S, R, Ago, NilType
<1>16. ASSUME NEW t \in Slots
       PROVE  /\ f[t] = m.left[t] /\ m.left[t] \in Times
              /\ f[t] > 0 => x <= m.left[t] /\ k.timeout[t] > 0
  <2>1. m.left[t] \in Times
    BY <1>10 DEF NilType
  <2>2. CASE t \in S
    <3>1. t \notin R /\ m.timeout[t] = 0 /\ m.left[t] = 0
      BY <1>8, <1>10, <2>2 DEF Woke
    <3> QED BY <2>1, <3>1
  <2>3. CASE t \notin S
    <3>1. m.timeout[t] = k.timeout[t] /\ m.left[t] = k.left[t]
      BY <1>10, <2>3 DEF Woke
    <3>2. CASE t \in R
      <4>1. k.timeout[t] - e = k.left[t] /\ 0 < k.left[t] /\ x <= k.left[t] /\ k.timeout[t] > 0
        BY <1>3, <1>5, <1>8, <1>12, <3>2
      <4> QED BY <2>1, <3>1, <3>2, <4>1
    <3>3. CASE t \notin R
      <4>1. k.timeout[t] = 0 /\ k.left[t] = 0
        BY <1>8, <2>3, <3>3
      <4> QED BY <2>1, <3>1, <3>3, <4>1
    <3> QED BY <3>2, <3>3
  <2> QED BY <2>2, <2>3
<1>17. f \in [Slots -> Times] /\ f = m.left
  <2>1. m.left \in [Slots -> Times]
    BY <1>10 DEF NilType
  <2> QED BY <1>16, <2>1
<1> HIDE DEF f, r
<1>18. /\ r \in NilType
       /\ r.timeout = m.left /\ r.left = m.left
       /\ r.lasttime = k.clock /\ r.clock = k.clock /\ r.alarm = b /\ r.started = TRUE /\ r.pending = FALSE
       /\ r.state = m.state /\ r.wtobj = m.wtobj /\ r.qcnt = m.qcnt /\ r.msg = m.msg
       /\ r.scan = NoScan /\ r.isr = FALSE /\ r.current = k.current
  <2>1. /\ m.clock = k.clock /\ m.started = TRUE /\ m.scan = NoScan /\ m.isr = FALSE /\ m.current = k.current
    BY <1>1, <1>4, <1>10 DEF Woke, NilType
  <2> QED BY <1>1, <1>10, <1>15, <1>17, <2>1 DEF NilType
<1>19. Waits(r)
  <2>1. \A q \in Queues : Waiting(r, q) = Waiting(m, q)
    BY <1>18 DEF Waiting
  <2>2. QueueCountersExact(r)
    BY <1>10, <1>18, <2>1 DEF QueueCountersExact, Waits
  <2>3. \A t \in Slots : r.state[t] = "READY" => r.timeout[t] = 0
    BY <1>10, <1>18 DEF Waits
  <2> QED BY <1>10, <1>18, <2>2, <2>3 DEF Waits
<1>20. Ago(r) = 0 /\ Ahead(r) = x /\ Span(r) = x
  BY <1>1, <1>13, <1>14, <1>18, DiffZero DEF Ago, Ahead, Span
<1>21. AlarmOK(r)
  <2>1. r \in NilType /\ Ahead(r) # 0 /\ 0 <= x
    BY <1>12, <1>18, <1>20
  <2>2. r.clock # r.alarm
    BY <2>1, Distances
  <2> QED BY <1>18, <1>20, <2>1, <2>2 DEF AlarmOK
<1>22. ASSUME NEW t \in Slots, r.timeout[t] > 0
       PROVE  IntervalOK(r, t)
  <2>1. r.timeout[t] = 0 + r.left[t] /\ x \in 1 .. r.left[t] /\ r.left[t] # 0
    <3>1. r.timeout[t] = f[t] /\ r.left[t] = f[t] /\ f[t] \in Times /\ x <= f[t]
      BY <1>16, <1>17, <1>18, <1>22
    <3>2. f[t] \in Int
      BY <3>1, Widths DEF Times
    <3> QED BY <1>2, <1>12, <3>1, <3>2
  <2> QED BY <1>18, <1>20, <2>1 DEF IntervalOK
<1>23. TimeOK(r)
  BY <1>21, <1>22 DEF TimeOK
<1>24. \A t \in S : /\ k.timeout[t] > 0 /\ k.left[t] = 0
                    /\ r.state[t] = "READY" /\ r.msg[t] = "TIMEOUT"
  BY <1>8, <1>9, <1>10, <1>18, SlotsNat DEF Woke
<1>25. \A t \in Slots \ S : /\ r.state[t] = k.state[t] /\ r.msg[t] = k.msg[t]
                            /\ r.wtobj[t] = k.wtobj[t]
                            /\ r.timeout[t] > 0 => k.timeout[t] > 0
  BY <1>10, <1>16, <1>17, <1>18 DEF Woke
<1>26. Armed(k, r, S, T)
  <2>1. Ago(r) + T < Width /\ Ahead(r) \in 1 .. T
    BY <1>2, <1>12, <1>20
  <2> QED BY <1>9, <1>18, <1>19, <1>23, <1>24, <1>25, <2>1 DEF Armed
<1> QED BY <1>3, <1>26 DEF r, S

\* r is k with the running thread put to sleep in the state it has in k; the
\* waits of S are over, and timed says if the sleeper has a timeout.
Slept(k, r, S, timed) ==
    /\ S \subseteq UserSlots /\ k.current \notin S
    /\ \A t \in S : /\ k.timeout[t] > 0 /\ k.left[t] = 0
                    /\ r.state[t] = "READY" /\ r.msg[t] = "TIMEOUT"
    /\ \A t \in Slots \ S : /\ r.state[t] = k.state[t] /\ r.msg[t] = k.msg[t]
                            /\ r.wtobj[t] = k.wtobj[t]
                            /\ r.timeout[t] > 0 => k.timeout[t] > 0 \/ (timed /\ t = k.current)
    /\ ~ r.isr

\* The wait of the running thread is added.
LEMMA StoreTimeout ==
    ASSUME NEW k, Sleeper(k), NEW m, NEW S, NEW T \in 1 .. Width - 1, Armed(k, m, S, T),
           NEW b, b = chTimeAddX(k.clock, T), NEW r,
           r = [m EXCEPT !.timeout[k.current] = chTimeDiffX(m.lasttime, b), !.left[k.current] = T]
    PROVE  /\ Waits(r) /\ TimeOK(r)
           /\ Slept(k, r, S, TRUE)
<1>1. /\ k \in NilType /\ k.clock \in Times /\ k.current \in Slots /\ k.state[k.current] # "READY"
      /\ k.timeout[k.current] = 0
  BY SleeperScan DEF NilType, Sleeper
<1>2. T \in Times /\ T \in Int /\ 0 < T /\ T < Width /\ Width \in Int
  BY Widths DEF Times
<1>3. m \in NilType /\ m.lasttime \in Times /\ m.clock = k.clock /\ m.current = k.current
      /\ m.started = TRUE /\ m.scan = NoScan /\ ~ m.isr
  BY DEF Armed, Waits, NilType
<1>4. b \in Times /\ chTimeDiffX(k.clock, b) = T
  BY <1>1, <1>2, AddValue, DiffAdd
<1>5. PICK e \in Int : e = Ago(m) /\ 0 <= e /\ e < Width
  BY <1>3, Distances
<1>6. e + T < Width
  BY <1>5 DEF Armed
<1>7. chTimeDiffX(m.lasttime, b) = e + T
  <2>1. chTimeDiffX(m.lasttime, b) = IF e + T < Width THEN e + T ELSE (e + T) - Width
    BY <1>1, <1>3, <1>4, <1>5, DiffChain DEF Ago
  <2> QED BY <1>6, <2>1
<1>8. e + T \in Times /\ e + T > 0
  BY <1>2, <1>5, <1>6 DEF Times
<1> DEFINE f == [m.timeout EXCEPT ![k.current] = e + T]
           g == [m.left EXCEPT ![k.current] = T]
<1>9. /\ r = [m EXCEPT !.timeout = f, !.left = g]
      /\ f \in [Slots -> Times] /\ g \in [Slots -> Times]
  BY <1>1, <1>2, <1>3, <1>7, <1>8 DEF NilType
<1> HIDE DEF f, g
<1>10. /\ r \in NilType
       /\ r.lasttime = m.lasttime /\ r.clock = m.clock /\ r.alarm = m.alarm /\ r.started = TRUE
       /\ r.pending = m.pending
       /\ r.state = m.state /\ r.wtobj = m.wtobj /\ r.qcnt = m.qcnt /\ r.msg = m.msg
       /\ r.scan = NoScan /\ r.isr = m.isr /\ r.current = m.current
       /\ r.timeout = f /\ r.left = g
  BY <1>3, <1>9 DEF NilType
<1>11. /\ r.timeout[k.current] = e + T /\ r.left[k.current] = T
       /\ \A t \in Slots \ {k.current} : r.timeout[t] = m.timeout[t] /\ r.left[t] = m.left[t]
  BY <1>1, <1>3, <1>10 DEF NilType, f, g
<1>12. k.current \notin S /\ m.state[k.current] # "READY"
  <2>1. k.current \notin S
    BY <1>1 DEF Armed
  <2> QED BY <1>1, <2>1 DEF Armed
<1>13. Waits(r)
  <2>1. \A q \in Queues : Waiting(r, q) = Waiting(m, q)
    BY <1>10 DEF Waiting
  <2>2. QueueCountersExact(r)
    BY <1>10, <2>1 DEF QueueCountersExact, Waits, Armed
  <2>3. Waits(m)
    BY DEF Armed
  <2>4. \A t \in Slots : r.state[t] = "READY" => r.timeout[t] = 0
    BY <1>10, <1>11, <1>12, <2>3 DEF Waits
  <2>5. \A t \in Slots : r.timeout[t] = 0 => r.left[t] = 0
    BY <1>8, <1>11, <2>3 DEF Waits
  <2> QED BY <1>10, <2>2, <2>3, <2>4, <2>5 DEF Waits
<1>14. Ago(r) = e /\ Ahead(r) = Ahead(m) /\ Span(r) = Span(m) /\ Ago(m) = e
  BY <1>5, <1>10 DEF Ago, Ahead, Span
<1>15. AlarmOK(r)
  <2>1. AlarmOK(m)
    BY DEF Armed, TimeOK
  <2> QED BY <1>3, <1>10, <1>14, <2>1 DEF AlarmOK
<1>16. ASSUME NEW t \in Slots, r.timeout[t] > 0
       PROVE  IntervalOK(r, t)
  <2>1. CASE t = k.current
    <3>1. r.pending \/ Ahead(r) \in 1 .. T
      BY <1>10, <1>14 DEF Armed
    <3>2. T # 0
      BY <1>2
    <3> QED BY <1>10, <1>11, <1>14, <2>1, <3>1, <3>2 DEF IntervalOK
  <2>2. CASE t # k.current
    <3>1. IntervalOK(m, t) /\ r.timeout[t] = m.timeout[t] /\ r.left[t] = m.left[t]
      BY <1>11, <1>16, <2>2 DEF Armed, TimeOK
    <3> QED BY <1>3, <1>10, <1>14, <3>1 DEF IntervalOK
  <2> QED BY <2>1, <2>2
<1>17. TimeOK(r)
  BY <1>15, <1>16 DEF TimeOK
<1>18. Slept(k, r, S, TRUE)
  <2>1. \A t \in S : /\ k.timeout[t] > 0 /\ k.left[t] = 0
                     /\ r.state[t] = "READY" /\ r.msg[t] = "TIMEOUT"
    BY <1>10 DEF Armed
  <2>2. \A t \in Slots \ S : /\ r.state[t] = k.state[t] /\ r.msg[t] = k.msg[t]
                             /\ r.wtobj[t] = k.wtobj[t]
    BY <1>10 DEF Armed
  <2>3. \A t \in Slots \ S : r.timeout[t] > 0 => k.timeout[t] > 0 \/ t = k.current
    BY <1>11 DEF Armed
  <2> QED BY <1>3, <1>10, <1>12, <2>1, <2>2, <2>3 DEF Slept, Armed
<1> QED BY <1>13, <1>17, <1>18

LEMMA SetTimeoutSleeps ==
    ASSUME NEW k, Sleeper(k), NEW i \in 1 .. Width - 2
    PROVE  /\ Waits(SetTimeout(k, i)) /\ TimeOK(SetTimeout(k, i))
           /\ \E S : Slept(k, SetTimeout(k, i), S, TRUE)
<1> DEFINE T == IF i < TimeDelta THEN TimeDelta ELSE i
           b == chTimeAddX(k.clock, T)
           m == IF ~ k.started
                  THEN [k EXCEPT !.lasttime = k.clock, !.alarm = b, !.started = TRUE, !.pending = FALSE]
                ELSE IF NeedsRebase(k, b, T) THEN Rebase(k, T)
                ELSE IF chTimeIsInRangeX(b, k.lasttime, k.alarm) THEN [k EXCEPT !.alarm = b]
                ELSE k
           r == [m EXCEPT !.timeout[k.current] = chTimeDiffX(m.lasttime, b), !.left[k.current] = T]
<1>1. T \in 1 .. Width - 1
  BY Widths
<1>2. SetTimeout(k, i) = r
  BY DEF SetTimeout
<1> HIDE DEF T
<1>3. \E S : Armed(k, m, S, T)
  <2>1. CASE ~ k.started
    <3>1. m = [k EXCEPT !.lasttime = k.clock, !.alarm = b, !.started = TRUE, !.pending = FALSE]
      BY <2>1
    <3>2. Armed(k, [k EXCEPT !.lasttime = k.clock, !.alarm = b, !.started = TRUE, !.pending = FALSE], {}, T)
      BY <1>1, <2>1, ArmStart
    <3> QED BY <3>1, <3>2
  <2>2. CASE k.started /\ NeedsRebase(k, b, T)
    <3>1. m = Rebase(k, T)
      BY <2>2
    <3>2. Armed(k, Rebase(k, T), Overdue(k, Ago(k)), T)
      BY <1>1, <2>2, ArmRebase
    <3> QED BY <3>1, <3>2
  <2>3. CASE k.started /\ ~ NeedsRebase(k, b, T)
    <3>1. m = IF chTimeIsInRangeX(b, k.lasttime, k.alarm) THEN [k EXCEPT !.alarm = b] ELSE k
      BY <2>3
    <3>2. ~ (chTimeDiffX(k.lasttime, b) < T)
      BY <2>3 DEF NeedsRebase
    <3> HIDE DEF m
    <3>3. PICK c : c = b
      OBVIOUS
    <3> HIDE DEF b
    <3>4. Armed(k, m, {}, T)
      BY <1>1, <2>3, <3>1, <3>2, ArmKeep DEF b
    <3> QED BY <3>4
  <2> QED BY <2>1, <2>2, <2>3
<1>4. PICK S : Armed(k, m, S, T)
  BY <1>3
<1> HIDE DEF m
<1>5. Waits(r) /\ TimeOK(r) /\ Slept(k, r, S, TRUE)
  BY <1>1, <1>4, StoreTimeout
<1> QED BY <1>2, <1>5

\* The scan of the threads array finds the one to run.
LEMMA SwitchRuns ==
    ASSUME NEW k, Waits(k), TimeOK(k), ~ k.isr
    PROVE  /\ KernelInv(SwitchToFirstReady(k))
           /\ SwitchToFirstReady(k).state = k.state /\ SwitchToFirstReady(k).msg = k.msg
           /\ SwitchToFirstReady(k).wtobj = k.wtobj /\ SwitchToFirstReady(k).timeout = k.timeout
           /\ SwitchToFirstReady(k).isr = k.isr
<1> DEFINE Z == {t \in Slots : k.state[t] = "READY"}
           r == SwitchToFirstReady(k)
<1>1. k \in NilType
  BY DEF Waits
<1>2. Z \in SUBSET Nat /\ Z # {} /\ Z \subseteq Slots
  BY SlotsNat DEF Waits
<1>3. PICK x : x = Min(Z)
  OBVIOUS
<1>4. x \in Z /\ \A y \in Z : x <= y
  <2> HIDE DEF Z
  <2> QED BY <1>2, <1>3, Least
<1>5. r = [k EXCEPT !.current = x, !.next = x]
  BY <1>3 DEF SwitchToFirstReady
<1>6. /\ r \in NilType /\ r.current = x /\ r.next = x
      /\ r.lasttime = k.lasttime /\ r.clock = k.clock /\ r.alarm = k.alarm /\ r.started = k.started
      /\ r.pending = k.pending
      /\ r.state = k.state /\ r.wtobj = k.wtobj /\ r.qcnt = k.qcnt /\ r.msg = k.msg
      /\ r.timeout = k.timeout /\ r.left = k.left /\ r.nextalarm = k.nextalarm
      /\ r.scan = k.scan /\ r.isr = k.isr
  <2> HIDE DEF r
  <2> QED BY <1>1, <1>4, <1>5 DEF NilType
<1> HIDE DEF r
<1>7. Waits(r)
  BY <1>6, SameWaits
<1>8. FirstOK(r) /\ Runs(r)
  BY <1>4, <1>6 DEF FirstOK, Runs
<1>9. TimeOK(r)
  BY <1>6 DEF TimeOK, AlarmOK, IntervalOK, Ago, Ahead, Span
<1> QED BY <1>6, <1>7, <1>8, <1>9 DEF KernelInv, r

\* r is k after the running thread went to sleep in state st on w; the waits of
\* S are over, and timed says if the sleeper has a timeout.
WentToSleep(k, r, S, st, w, timed) ==
    /\ S \subseteq UserSlots /\ k.current \notin S
    /\ \A t \in S : /\ k.timeout[t] > 0 /\ k.left[t] = 0
                    /\ r.state[t] = "READY" /\ r.msg[t] = "TIMEOUT"
    /\ \A t \in Slots \ (S \union {k.current}) :
           /\ r.state[t] = k.state[t] /\ r.msg[t] = k.msg[t] /\ r.wtobj[t] = k.wtobj[t]
           /\ r.timeout[t] > 0 => k.timeout[t] > 0
    /\ r.state[k.current] = st /\ r.wtobj[k.current] = w
    /\ r.timeout[k.current] > 0 => timed
    /\ ~ r.isr

LEMMA GoSleep ==
    ASSUME NEW j, Sleeper(j), NEW i \in 0 .. Width - 2
    PROVE  LET r == SwitchToFirstReady(IF i = TIME_INFINITE THEN j ELSE SetTimeout(j, i))
           IN  KernelInv(r) /\ \E S : Slept(j, r, S, i # TIME_INFINITE)
<1> DEFINE m == IF i = TIME_INFINITE THEN j ELSE SetTimeout(j, i)
           r == SwitchToFirstReady(m)
<1>1. Waits(m) /\ TimeOK(m) /\ ~ m.isr /\ \E S : Slept(j, m, S, i # TIME_INFINITE)
  <2>1. CASE i = TIME_INFINITE
    <3>1. m = j
      BY <2>1
    <3>2. Slept(j, j, {}, FALSE)
      BY DEF Slept, Sleeper
    <3> QED BY <2>1, <3>1, <3>2 DEF Sleeper
  <2>2. CASE i # TIME_INFINITE
    <3>1. m = SetTimeout(j, i) /\ i \in 1 .. Width - 2
      BY <2>2, Widths DEF TIME_INFINITE
    <3>2. Waits(m) /\ TimeOK(m) /\ \E S : Slept(j, m, S, TRUE)
      BY <3>1, SetTimeoutSleeps
    <3>3. ~ m.isr
      BY <3>2 DEF Slept
    <3> QED BY <2>2, <3>2, <3>3
  <2> QED BY <2>1, <2>2
<1>2. PICK S : Slept(j, m, S, i # TIME_INFINITE)
  BY <1>1
<1> HIDE DEF m
<1>3. /\ KernelInv(r) /\ r.state = m.state /\ r.msg = m.msg
      /\ r.wtobj = m.wtobj /\ r.timeout = m.timeout /\ r.isr = m.isr
  BY <1>1, SwitchRuns
<1> HIDE DEF r
<1>4. Slept(j, r, S, i # TIME_INFINITE)
  BY <1>2, <1>3 DEF Slept
<1> QED BY <1>3, <1>4 DEF r, m

LEMMA SleepSleeps ==
    ASSUME NEW k, KernelInv(k), ~ k.isr, k.current \in UserSlots, NEW i \in 1 .. Width - 2
    PROVE  LET r == chSchGoSleepTimeoutS(k, "SLEEPING", i)
           IN  /\ KernelInv(r)
               /\ \E S : WentToSleep(k, r, S, "SLEEPING", k.wtobj[k.current], TRUE)
<1> DEFINE st == [k.state EXCEPT ![k.current] = "SLEEPING"]
           j == [k EXCEPT !.state = st]
           r == chSchGoSleepTimeoutS(k, "SLEEPING", i)
<1>1. k \in NilType /\ k.current \in Slots /\ k.current # Idle /\ Waits(k) /\ TimeOK(k)
      /\ k.state[k.current] = "READY" /\ k.timeout[k.current] = 0
  BY SlotsNat DEF KernelInv, Waits, FirstOK
<1>2. st \in [Slots -> {"READY", "SLEEPING", "WTQUEUE"}]
  BY <1>1 DEF NilType
<1>3. /\ st[k.current] = "SLEEPING"
      /\ \A t \in Slots \ {k.current} : st[t] = k.state[t]
  BY <1>1 DEF NilType
<1> HIDE DEF st
<1>4. /\ j \in NilType /\ j.current = k.current
      /\ j.lasttime = k.lasttime /\ j.clock = k.clock /\ j.alarm = k.alarm /\ j.started = k.started
      /\ j.pending = k.pending /\ j.nextalarm = k.nextalarm /\ j.scan = k.scan /\ j.isr = k.isr
      /\ j.state = st /\ j.wtobj = k.wtobj /\ j.qcnt = k.qcnt /\ j.msg = k.msg
      /\ j.timeout = k.timeout /\ j.left = k.left
  BY <1>1, <1>2 DEF NilType
<1>5. r = SwitchToFirstReady(IF i = TIME_INFINITE THEN j ELSE SetTimeout(j, i))
  BY <1>1 DEF chSchGoSleepTimeoutS, st, NilType
<1> HIDE DEF j
<1>6. \A q \in Queues : Waiting(j, q) = Waiting(k, q)
  <2>1. \A t \in UserSlots : j.state[t] = "WTQUEUE" <=> k.state[t] = "WTQUEUE"
    BY <1>1, <1>3, <1>4, SlotsNat
  <2> QED BY <1>4, <2>1 DEF Waiting
<1>7. Waits(j)
  <2>1. QueueCountersExact(j)
    BY <1>1, <1>4, <1>6 DEF Waits, QueueCountersExact
  <2>2. \A t \in Slots : j.state[t] = "READY" => j.timeout[t] = 0
    BY <1>1, <1>3, <1>4 DEF Waits
  <2>3. j.state[Idle] = "READY"
    BY <1>1, <1>3, <1>4, SlotsNat DEF Waits
  <2> QED BY <1>1, <1>4, <2>1, <2>2, <2>3 DEF Waits
<1>8. TimeOK(j)
  BY <1>1, <1>4 DEF TimeOK, AlarmOK, IntervalOK, Ago, Ahead, Span
<1>9. Sleeper(j)
  BY <1>1, <1>3, <1>4, <1>7, <1>8 DEF Sleeper
<1>10. i \in 0 .. Width - 2 /\ i # TIME_INFINITE
  BY Widths DEF TIME_INFINITE
<1>11. KernelInv(r) /\ \E S : Slept(j, r, S, TRUE)
  BY <1>5, <1>9, <1>10, GoSleep
<1>12. PICK S : Slept(j, r, S, TRUE)
  BY <1>11
<1> HIDE DEF r
<1>13. WentToSleep(k, r, S, "SLEEPING", k.wtobj[k.current], TRUE)
  BY <1>1, <1>3, <1>4, <1>12 DEF Slept, WentToSleep
<1> QED BY <1>11, <1>13 DEF r

LEMMA EnqueueSleeps ==
    ASSUME NEW k, KernelInv(k), ~ k.isr, k.current \in UserSlots, NEW q \in Queues, NEW i \in 0 .. Width - 2
    PROVE  LET r == chThdEnqueueTimeoutS(k, q, i)
           IN  /\ KernelInv(r)
               /\ \E S : WentToSleep(k, r, S, "WTQUEUE", q, i # TIME_INFINITE)
<1> DEFINE st == [k.state EXCEPT ![k.current] = "WTQUEUE"]
           wt == [k.wtobj EXCEPT ![k.current] = q]
           c == [k.qcnt EXCEPT ![q] = k.qcnt[q] - 1]
           j == [k EXCEPT !.state = st, !.wtobj = wt, !.qcnt = c]
           r == chThdEnqueueTimeoutS(k, q, i)
<1>1. k \in NilType /\ k.current \in Slots /\ k.current # Idle /\ Waits(k) /\ TimeOK(k)
      /\ k.state[k.current] = "READY" /\ k.timeout[k.current] = 0
  BY SlotsNat DEF KernelInv, Waits, FirstOK
<1>2. st \in [Slots -> {"READY", "SLEEPING", "WTQUEUE"}] /\ wt \in [Slots -> Queues \union {NoQueue}]
  BY <1>1 DEF NilType
<1>3. /\ st[k.current] = "WTQUEUE" /\ wt[k.current] = q
      /\ \A t \in Slots \ {k.current} : st[t] = k.state[t] /\ wt[t] = k.wtobj[t]
  BY <1>1 DEF NilType
<1>4. k.qcnt[q] - 1 \in - MaxThreads .. 0
  <2>1. /\ Waiting(k, q) \subseteq UserSlots /\ IsFiniteSet(UserSlots) /\ Cardinality(UserSlots) = MaxThreads
        /\ Cardinality(Waiting(k, q)) \in 0 .. MaxThreads
    BY WaitingFinite
  <2>2. k.current \notin Waiting(k, q)
    BY <1>1 DEF Waiting
  <2>3. Cardinality(Waiting(k, q)) # MaxThreads
    BY <2>1, <2>2, FS_Subset
  <2>4. k.qcnt[q] = - Cardinality(Waiting(k, q))
    BY <1>1 DEF Waits, QueueCountersExact
  <2> QED BY <2>1, <2>3, <2>4, Widths
<1>5. /\ c \in [Queues -> - MaxThreads .. 0] /\ c[q] = k.qcnt[q] - 1
      /\ \A p \in Queues \ {q} : c[p] = k.qcnt[p]
  BY <1>1, <1>4 DEF NilType
<1>6. r = SwitchToFirstReady(IF i = TIME_INFINITE THEN j ELSE SetTimeout(j, i))
  <2>1. [[k EXCEPT !.qcnt[q] = @ - 1, !.wtobj[k.current] = q] EXCEPT !.state[k.current] = "WTQUEUE"] = j
    BY <1>1 DEF NilType
  <2>2. [k EXCEPT !.qcnt[q] = @ - 1, !.wtobj[k.current] = q].current = k.current
    BY <1>1 DEF NilType
  <2> HIDE DEF j
  <2> QED BY <2>1, <2>2 DEF chThdEnqueueTimeoutS, chSchGoSleepTimeoutS
<1> HIDE DEF st, wt, c
<1>7. /\ j \in NilType /\ j.current = k.current
      /\ j.lasttime = k.lasttime /\ j.clock = k.clock /\ j.alarm = k.alarm /\ j.started = k.started
      /\ j.pending = k.pending /\ j.nextalarm = k.nextalarm /\ j.scan = k.scan /\ j.isr = k.isr
      /\ j.state = st /\ j.wtobj = wt /\ j.qcnt = c /\ j.msg = k.msg
      /\ j.timeout = k.timeout /\ j.left = k.left
  BY <1>1, <1>2, <1>5 DEF NilType
<1> HIDE DEF j
<1>8. ASSUME NEW p \in Queues
      PROVE  j.qcnt[p] = - Cardinality(Waiting(j, p))
  <2>1. k.qcnt[p] = - Cardinality(Waiting(k, p)) /\ IsFiniteSet(Waiting(k, p))
        /\ Cardinality(Waiting(k, p)) \in Int
    BY <1>1, WaitingFinite, Widths DEF Waits, QueueCountersExact
  <2>2. CASE p = q
    <3>1. Waiting(j, p) = Waiting(k, p) \union {k.current}
      BY <1>1, <1>3, <1>7, <2>2, SlotsNat DEF Waiting
    <3>2. k.current \notin Waiting(k, p)
      BY <1>1 DEF Waiting
    <3>3. Cardinality(Waiting(j, p)) = Cardinality(Waiting(k, p)) + 1
      BY <2>1, <3>1, <3>2, FS_AddElement
    <3> QED BY <1>5, <1>7, <2>1, <2>2, <3>3
  <2>3. CASE p # q
    <3>1. Waiting(j, p) = Waiting(k, p)
      BY <1>1, <1>3, <1>7, <2>3, SlotsNat DEF Waiting
    <3> QED BY <1>5, <1>7, <2>1, <2>3, <3>1
  <2> QED BY <2>2, <2>3
<1>9. Waits(j)
  <2>2. \A t \in Slots : j.state[t] = "READY" => j.timeout[t] = 0
    BY <1>1, <1>3, <1>7 DEF Waits
  <2>3. j.state[Idle] = "READY"
    BY <1>1, <1>3, <1>7, SlotsNat DEF Waits
  <2> QED BY <1>1, <1>7, <1>8, <2>2, <2>3 DEF Waits, QueueCountersExact
<1>10. TimeOK(j)
  BY <1>1, <1>7 DEF TimeOK, AlarmOK, IntervalOK, Ago, Ahead, Span
<1>11. Sleeper(j)
  BY <1>1, <1>3, <1>7, <1>9, <1>10 DEF Sleeper
<1>12. KernelInv(r) /\ \E S : Slept(j, r, S, i # TIME_INFINITE)
  BY <1>6, <1>11, GoSleep
<1>13. PICK S : Slept(j, r, S, i # TIME_INFINITE)
  BY <1>12
<1> HIDE DEF r
<1>14. WentToSleep(k, r, S, "WTQUEUE", q, i # TIME_INFINITE)
  BY <1>1, <1>3, <1>7, <1>13 DEF Slept, WentToSleep
<1> QED BY <1>12, <1>14 DEF r

-----------------------------------------------------------------------------
(* Handlers and rescheduling *)

\* No thread has changed its state, its message or its queue.
SameThreads(k, r) ==
    /\ r.state = k.state /\ r.msg = k.msg /\ r.wtobj = k.wtobj /\ r.qcnt = k.qcnt

LEMMA EnterKeeps ==
    ASSUME NEW k, KernelInv(k)
    PROVE  /\ KernelInv(EnterIsr(k)) /\ SameThreads(k, EnterIsr(k))
           /\ EnterIsr(k).isr = TRUE /\ EnterIsr(k).current = k.current
           /\ EnterIsr(k).timeout = k.timeout /\ EnterIsr(k).left = k.left
           /\ EnterIsr(k).scan = k.scan
<1> DEFINE r == EnterIsr(k)
<1>1. k \in NilType
  BY DEF KernelInv, Waits
<1>2. /\ r \in NilType /\ r.current = k.current /\ r.next = k.next
      /\ r.lasttime = k.lasttime /\ r.clock = k.clock /\ r.alarm = k.alarm /\ r.started = k.started
      /\ r.pending = k.pending
      /\ r.state = k.state /\ r.wtobj = k.wtobj /\ r.qcnt = k.qcnt /\ r.msg = k.msg
      /\ r.timeout = k.timeout /\ r.left = k.left /\ r.nextalarm = k.nextalarm
      /\ r.scan = k.scan /\ r.isr = TRUE
  BY <1>1 DEF NilType, EnterIsr
<1> HIDE DEF r
<1>3. Waits(r)
  BY <1>2, SameWaits DEF KernelInv
<1>4. FirstOK(r) /\ Runs(r)
  BY <1>2 DEF FirstOK, Runs, KernelInv
<1>5. TimeOK(r)
  BY <1>2 DEF KernelInv, TimeOK, AlarmOK, IntervalOK, Ago, Ahead, Span
<1> QED BY <1>2, <1>3, <1>4, <1>5 DEF KernelInv, SameThreads, r

LEMMA RescheduleRuns ==
    ASSUME NEW k, Waits(k), FirstOK(k), TimeOK(k)
    PROVE  /\ KernelInv(chSchRescheduleS(k)) /\ SameThreads(k, chSchRescheduleS(k))
           /\ chSchRescheduleS(k).timeout = k.timeout
           /\ chSchRescheduleS(k).isr = k.isr
<1> DEFINE r == chSchRescheduleS(k)
<1>1. k \in NilType
  BY DEF Waits
<1>2. /\ r \in NilType /\ r.current = k.next /\ r.next = k.next
      /\ r.lasttime = k.lasttime /\ r.clock = k.clock /\ r.alarm = k.alarm /\ r.started = k.started
      /\ r.pending = k.pending
      /\ r.state = k.state /\ r.wtobj = k.wtobj /\ r.qcnt = k.qcnt /\ r.msg = k.msg
      /\ r.timeout = k.timeout /\ r.left = k.left /\ r.nextalarm = k.nextalarm
      /\ r.scan = k.scan /\ r.isr = k.isr
  BY <1>1 DEF NilType, chSchRescheduleS, chSchIsRescRequiredI, chSchSelectFirst
<1> HIDE DEF r
<1>3. Waits(r)
  BY <1>2, SameWaits
<1>4. FirstOK(r) /\ Runs(r)
  BY <1>2 DEF FirstOK, Runs
<1>5. TimeOK(r)
  BY <1>2 DEF TimeOK, AlarmOK, IntervalOK, Ago, Ahead, Span
<1> QED BY <1>2, <1>3, <1>4, <1>5 DEF KernelInv, SameThreads, r

LEMMA IsrExitKeeps ==
    ASSUME NEW k, KernelInv(k), IsrExitEnabled(k)
    PROVE  /\ KernelInv(IsrExit(k)) /\ SameThreads(k, IsrExit(k))
           /\ IsrExit(k).timeout = k.timeout /\ IsrExit(k).isr = FALSE
<1> DEFINE j == [k EXCEPT !.isr = FALSE]
<1>1. k \in NilType /\ k.scan = NoScan
  BY DEF KernelInv, Waits, IsrExitEnabled
<1>2. /\ j \in NilType /\ j.current = k.current /\ j.next = k.next
      /\ j.lasttime = k.lasttime /\ j.clock = k.clock /\ j.alarm = k.alarm /\ j.started = k.started
      /\ j.pending = k.pending
      /\ j.state = k.state /\ j.wtobj = k.wtobj /\ j.qcnt = k.qcnt /\ j.msg = k.msg
      /\ j.timeout = k.timeout /\ j.left = k.left /\ j.nextalarm = k.nextalarm
      /\ j.scan = k.scan /\ j.isr = FALSE
  BY <1>1 DEF NilType
<1>3. IsrExit(k) = chSchRescheduleS(j)
  BY DEF IsrExit
<1> HIDE DEF j
<1>4. Waits(j)
  BY <1>2, SameWaits DEF KernelInv
<1>5. FirstOK(j)
  BY <1>2 DEF FirstOK, KernelInv
<1>6. TimeOK(j)
  BY <1>1, <1>2 DEF KernelInv, TimeOK, AlarmOK, IntervalOK, Ago, Ahead, Span
<1>7. /\ KernelInv(chSchRescheduleS(j)) /\ SameThreads(j, chSchRescheduleS(j))
      /\ chSchRescheduleS(j).timeout = j.timeout
      /\ chSchRescheduleS(j).isr = j.isr
  BY <1>4, <1>5, <1>6, RescheduleRuns
<1> QED BY <1>2, <1>3, <1>7 DEF SameThreads

\* A tick brings every deadline one tick nearer.
LEMMA TickKeeps ==
    ASSUME NEW k, KernelInv(k), TickEnabled(k)
    PROVE  /\ KernelInv(ClockTick(k)) /\ SameThreads(k, ClockTick(k))
           /\ ClockTick(k).timeout = k.timeout
           /\ ClockTick(k).isr = k.isr /\ ClockTick(k).current = k.current
<1> DEFINE c == chTimeAddX(k.clock, 1)
           p == k.started /\ c = k.alarm
           lf == [t \in Slots |-> IF k.left[t] > 0 THEN k.left[t] - 1 ELSE 0]
           r == ClockTick(k)
<1>1. /\ k \in NilType /\ k.scan = NoScan /\ k.pending = FALSE
      /\ k.clock \in Times /\ k.lasttime \in Times /\ k.alarm \in Times
      /\ Waits(k) /\ TimeOK(k) /\ AlarmOK(k)
  BY DEF KernelInv, Waits, TickEnabled, NilType, TimeOK
<1>2. c \in Times /\ chTimeDiffX(k.clock, c) = 1
  <2>1. 1 \in Times
    BY Widths DEF Times
  <2> QED BY <1>1, <2>1, AddValue, DiffAdd
<1>3. \A t \in Slots : k.left[t] \in Int /\ 0 <= k.left[t] /\ k.left[t] < Width /\ k.left[t] \in Times
                       /\ k.timeout[t] \in Int /\ 0 <= k.timeout[t] /\ k.timeout[t] < Width
  BY <1>1, Widths DEF NilType, Times
<1>4. lf \in [Slots -> Times] /\ \A t \in Slots : lf[t] = IF k.left[t] > 0 THEN k.left[t] - 1 ELSE 0
  <2>1. \A t \in Slots : (IF k.left[t] > 0 THEN k.left[t] - 1 ELSE 0) \in Times
    BY <1>3, Widths DEF Times
  <2> QED BY <2>1
<1>5. r = [k EXCEPT !.clock = c, !.pending = p, !.left = lf]
  BY <1>1 DEF ClockTick, NilType
<1>6. p \in BOOLEAN
  BY <1>1 DEF NilType
<1> HIDE DEF c, lf, r
<1>7. /\ r \in NilType /\ r.current = k.current /\ r.next = k.next
      /\ r.lasttime = k.lasttime /\ r.clock = c /\ r.alarm = k.alarm /\ r.started = k.started
      /\ r.pending = p
      /\ r.state = k.state /\ r.wtobj = k.wtobj /\ r.qcnt = k.qcnt /\ r.msg = k.msg
      /\ r.timeout = k.timeout /\ r.left = lf /\ r.nextalarm = k.nextalarm
      /\ r.scan = k.scan /\ r.isr = k.isr
  <2> HIDE DEF p
  <2> QED BY <1>1, <1>2, <1>4, <1>5, <1>6 DEF NilType
<1>8. Waits(r)
  <2>1. \A q \in Queues : Waiting(r, q) = Waiting(k, q)
    BY <1>7 DEF Waiting
  <2>2. \A t \in Slots : k.timeout[t] = 0 => lf[t] = 0
    BY <1>1, <1>4 DEF Waits
  <2> QED BY <1>1, <1>7, <2>1, <2>2 DEF Waits, QueueCountersExact
<1>9. FirstOK(r) /\ Runs(r)
  BY <1>7 DEF FirstOK, Runs, KernelInv
<1>10. PICK e \in Int : e = Ago(k) /\ 0 <= e /\ e < Width
  BY <1>1, Distances
<1>11. PICK d \in Int : d = Ahead(k) /\ 0 <= d /\ d < Width
  BY <1>1, Distances
<1>12. PICK a \in Int : a = Ago(r) /\ 0 <= a /\ a < Width
  BY <1>7, Distances
<1>13. PICK g \in Int : g = Ahead(r) /\ 0 <= g /\ g < Width
  BY <1>7, Distances
<1>14. a = (IF e + 1 < Width THEN e + 1 ELSE (e + 1) - Width)
  BY <1>1, <1>2, <1>7, <1>10, <1>12, DiffChain DEF Ago
<1>15. d = (IF 1 + g < Width THEN 1 + g ELSE (1 + g) - Width)
  BY <1>1, <1>2, <1>7, <1>11, <1>13, DiffChain DEF Ahead
<1>16. (p <=> k.started /\ g = 0) /\ Width \in Int
  <2>1. r.clock = r.alarm <=> g = 0
    BY <1>7, <1>13, Distances
  <2> QED BY <1>7, <2>1, Widths
<1>17. ASSUME k.started
       PROVE  /\ e + d < Width /\ 0 < d
              /\ a = e + 1 /\ g = d - 1 /\ Span(r) = e + d
  <2>1. e + d < Width /\ Span(k) = e + d /\ d # 0
    BY <1>1, <1>10, <1>11, <1>17, SpanAhead
  <2>2. Span(r) = Span(k)
    BY <1>7 DEF Span
  <2>3. 0 < d
    BY <1>11, <2>1
  <2>4. a = e + 1
    BY <1>10, <1>11, <1>14, <1>16, <2>1, <2>3
  <2>5. g = d - 1
    BY <1>10, <1>11, <1>13, <1>15, <1>16, <2>1, <2>3
  <2> QED BY <2>1, <2>2, <2>3, <2>4, <2>5
<1>18. AlarmOK(r)
  <2>1. r.started /\ r.scan = NoScan => Ago(r) <= Span(r) /\ (r.pending <=> r.clock = r.alarm)
    <3>1. SUFFICES ASSUME k.started PROVE a <= Span(r) /\ (p <=> r.clock = r.alarm)
      BY <1>7, <1>12
    <3>2. a <= Span(r)
      BY <1>10, <1>11, <1>17, <3>1
    <3> QED BY <1>7, <3>1, <3>2
  <2>2. r.pending => r.started /\ r.scan = NoScan
    BY <1>1, <1>7
  <2> QED BY <1>1, <1>7, <2>1, <2>2 DEF AlarmOK
<1>19. ASSUME NEW t \in Slots, r.timeout[t] > 0
       PROVE  IntervalOK(r, t)
  <2>1. IntervalOK(k, t)
    BY <1>1, <1>7, <1>19 DEF TimeOK
  <2>2. k.started /\ k.timeout[t] = e + k.left[t] /\ d \in 1 .. k.left[t]
    BY <1>1, <1>10, <1>11, <2>1 DEF IntervalOK
  <2>3. /\ lf[t] = k.left[t] - 1 /\ a = e + 1 /\ g = d - 1 /\ lf[t] \in Int /\ k.left[t] \in Int
        /\ k.left[t] > 0 /\ 1 <= d /\ d <= k.left[t]
    BY <1>3, <1>4, <1>11, <1>17, <2>2
  <2>4. k.timeout[t] = a + lf[t]
    BY <1>10, <2>2, <2>3
  <2>5. lf[t] = 0 => g = 0
    BY <1>11, <1>13, <2>3
  <2>6. g = 0 \/ g \in 1 .. lf[t]
    BY <1>11, <1>13, <2>3
  <2>7. r.left[t] = 0 => r.pending
    BY <1>7, <1>16, <2>2, <2>5
  <2>8. r.pending \/ Ahead(r) \in 1 .. r.left[t]
    BY <1>7, <1>13, <1>16, <2>2, <2>6
  <2> QED BY <1>1, <1>7, <1>12, <2>2, <2>4, <2>7, <2>8 DEF IntervalOK
<1>20. TimeOK(r)
  BY <1>18, <1>19 DEF TimeOK
<1> QED BY <1>7, <1>8, <1>9, <1>20 DEF KernelInv, SameThreads, r

\* r is k after the waits of S were found to be over by the timer handler.
Expired(k, r, S) ==
    /\ S \subseteq UserSlots
    /\ \A t \in S : /\ k.timeout[t] > 0 /\ k.left[t] = 0
                    /\ r.state[t] = "READY" /\ r.msg[t] = "TIMEOUT"
    /\ \A t \in Slots \ S : /\ r.state[t] = k.state[t] /\ r.msg[t] = k.msg[t]
                            /\ r.wtobj[t] = k.wtobj[t]
                            /\ r.timeout[t] > 0 => k.timeout[t] > 0
    /\ r.isr = TRUE /\ r.current = k.current

LEMMA HandlerStartKeeps ==
    ASSUME NEW k, KernelInv(k), k.pending
    PROVE  KernelInv(HandlerStart(k)) /\ Expired(k, HandlerStart(k), {})
<1> DEFINE r == HandlerStart(k)
<1>1. k \in NilType /\ TimeOK(k) /\ AlarmOK(k) /\ k.started /\ k.scan = NoScan /\ k.clock = k.alarm
  BY DEF KernelInv, Waits, TimeOK, AlarmOK
<1>2. 0 \in Slots /\ 0 \in Times /\ 0 # NoScan
  BY Widths DEF Slots, Times, NoScan
<1>3. /\ r \in NilType /\ r.current = k.current /\ r.next = k.next
      /\ r.lasttime = k.lasttime /\ r.clock = k.clock /\ r.alarm = k.alarm /\ r.started = k.started
      /\ r.pending = FALSE
      /\ r.state = k.state /\ r.wtobj = k.wtobj /\ r.qcnt = k.qcnt /\ r.msg = k.msg
      /\ r.timeout = k.timeout /\ r.left = k.left /\ r.nextalarm = 0
      /\ r.scan = 0 /\ r.isr = TRUE
  BY <1>1, <1>2 DEF NilType, HandlerStart, EnterIsr
<1> HIDE DEF r
<1>4. Waits(r)
  BY <1>3, SameWaits DEF KernelInv
<1>5. FirstOK(r) /\ Runs(r)
  BY <1>3 DEF FirstOK, Runs, KernelInv
<1>6. AlarmOK(r)
  BY <1>1, <1>2, <1>3 DEF AlarmOK
<1>7. ASSUME NEW t \in Slots, r.timeout[t] > 0
      PROVE  IntervalOK(r, t)
  <2>1. IntervalOK(k, t) /\ Ago(r) = Ago(k)
    BY <1>1, <1>3, <1>7 DEF TimeOK, Ago
  <2>2. ~ (t < 0)
    BY SlotsNat
  <2> QED BY <1>1, <1>2, <1>3, <2>1, <2>2 DEF IntervalOK
<1>8. Expired(k, r, {})
  BY <1>3 DEF Expired
<1> QED BY <1>3, <1>4, <1>5, <1>6, <1>7, <1>8 DEF KernelInv, TimeOK, r

\* What the loop has seen stays the shortest.
LEMMA ShortestIs ==
    ASSUME NEW x \in Times, NEW l \in Times, 0 < l
    PROVE  /\ Shortest(x, l) \in Times
           /\ 0 < Shortest(x, l) /\ Shortest(x, l) <= l
           /\ 0 < x => Shortest(x, l) <= x
<1>1. x \in Int /\ l \in Int /\ 0 <= x /\ x < Width /\ l < Width /\ Width \in Nat \ {0} /\ Width \in Int
  BY Widths DEF Times
<1>2. CASE x = 0
  <2>1. x - 1 \in - Width .. - 1
    BY <1>1, <1>2
  <2>2. (x - 1) % Width = (x - 1) + Width
    BY <1>1, <2>1, ModBelow
  <2>3. l <= (x - 1) % Width
    BY <1>1, <1>2, <2>2
  <2>4. Shortest(x, l) = l
    BY <2>3 DEF Shortest
  <2> QED BY <1>1, <1>2, <2>4
<1>3. CASE 0 < x
  <2>1. x - 1 \in 0 .. Width - 1
    BY <1>1, <1>3
  <2>2. (x - 1) % Width = x - 1
    BY <1>1, <2>1, ModSmall
  <2>3. Shortest(x, l) = IF l <= x - 1 THEN l ELSE x
    BY <2>2 DEF Shortest
  <2>4. CASE l <= x - 1
    BY <1>1, <2>3, <2>4
  <2>5. CASE ~ (l <= x - 1)
    BY <1>1, <1>3, <2>3, <2>5
  <2> QED BY <2>4, <2>5
<1> QED BY <1>1, <1>2, <1>3

LEMMA HandlerStepKeeps ==
    ASSUME NEW k, KernelInv(k), k.scan \in UserSlots
    PROVE  KernelInv(HandlerStep(k)) /\ \E S : Expired(k, HandlerStep(k), S)
<1> DEFINE s == k.scan
           j == [k EXCEPT !.scan = s + 1]
           r == HandlerStep(k)
<1>1. /\ k \in NilType /\ Waits(k) /\ FirstOK(k) /\ TimeOK(k) /\ AlarmOK(k)
      /\ s \in Slots /\ s # NoScan /\ k.isr = TRUE /\ k.started = TRUE /\ k.clock = k.alarm /\ ~ k.pending
  <2>1. s \in Slots /\ s # NoScan
    BY SlotsNat
  <2>2. k \in NilType /\ Waits(k) /\ FirstOK(k) /\ TimeOK(k) /\ AlarmOK(k)
    BY DEF KernelInv, Waits, TimeOK
  <2>3. k.isr /\ k.started /\ k.clock = k.alarm /\ ~ k.pending
    BY <2>1, <2>2 DEF AlarmOK
  <2>4. k.isr \in BOOLEAN /\ k.started \in BOOLEAN
    BY <2>2 DEF NilType
  <2> QED BY <2>1, <2>2, <2>3, <2>4
<1>2. s + 1 \in Slots /\ s + 1 # NoScan /\ s \in Int
  BY Widths DEF UserSlots, Slots, NoScan
<1>3. /\ j \in NilType /\ j.current = k.current /\ j.next = k.next
      /\ j.lasttime = k.lasttime /\ j.clock = k.clock /\ j.alarm = k.alarm /\ j.started = k.started
      /\ j.pending = k.pending
      /\ j.state = k.state /\ j.wtobj = k.wtobj /\ j.qcnt = k.qcnt /\ j.msg = k.msg
      /\ j.timeout = k.timeout /\ j.left = k.left /\ j.nextalarm = k.nextalarm
      /\ j.scan = s + 1 /\ j.isr = TRUE
  BY <1>1, <1>2 DEF NilType
<1>4. PICK e \in Int : e = Ago(k) /\ 0 <= e /\ e < Width
  BY <1>1, Distances
<1>5. chTimeDiffX(k.lasttime, k.alarm) = e
  BY <1>1, <1>4 DEF Ago
<1>6. r = IF k.timeout[s] = 0 THEN j
          ELSE IF k.timeout[s] = e THEN nil_ready_timeout(j, {s})
          ELSE [j EXCEPT !.timeout[s] = (@ - e) % Width,
                         !.nextalarm = Shortest(@, (k.timeout[s] - e) % Width)]
  BY <1>5 DEF HandlerStep
<1> HIDE DEF j, r
<1>7. Waits(j) /\ FirstOK(j)
  BY <1>1, <1>3, SameWaits DEF FirstOK
<1>8. \A t \in Slots : /\ k.timeout[t] \in Int /\ k.left[t] \in Int /\ k.left[t] \in Times
                       /\ 0 <= k.timeout[t] /\ k.timeout[t] < Width
                       /\ 0 <= k.left[t] /\ k.left[t] < Width
                       /\ t \in Int
  BY <1>1, Widths, SlotsNat DEF NilType, Times
<1>9. \A t \in Slots : k.timeout[t] > 0 => IntervalOK(k, t)
  BY <1>1 DEF TimeOK
<1>10. k.timeout[s] > 0 => k.timeout[s] = e + k.left[s]
  <2>1. s <= s
    BY <1>1, SlotsNat
  <2> QED BY <1>1, <1>4, <1>9, <2>1 DEF IntervalOK
<1>11. CASE k.timeout[s] = 0
  <2>1. r = j
    BY <1>6, <1>11
  <2>2. AlarmOK(r)
    BY <1>1, <1>2, <1>3, <2>1 DEF AlarmOK
  <2>3. ASSUME NEW t \in Slots, r.timeout[t] > 0
        PROVE  IntervalOK(r, t)
    <3>1. IntervalOK(k, t) /\ Ago(r) = Ago(k) /\ t # s
      BY <1>3, <1>8, <1>9, <1>11, <2>1, <2>3 DEF Ago
    <3>2. (s + 1 <= t => s <= t) /\ (t < s + 1 => t < s)
      BY <1>2, <1>8, <3>1
    <3> QED BY <1>1, <1>2, <1>3, <2>1, <3>1, <3>2 DEF IntervalOK
  <2>4. Expired(k, r, {})
    BY <1>3, <2>1 DEF Expired
  <2> QED BY <1>3, <1>7, <2>1, <2>2, <2>3, <2>4 DEF KernelInv, TimeOK, Runs, r
<1>12. CASE k.timeout[s] # 0 /\ k.timeout[s] = e
  <2>1. r = nil_ready_timeout(j, {s})
    BY <1>6, <1>12
  <2>2. Woke(j, r, {s}, "TIMEOUT") /\ Waits(r)
    <3>1. {s} \in SUBSET UserSlots
      OBVIOUS
    <3> QED BY <1>7, <2>1, <3>1, TimeoutWakes
  <2>3. FirstOK(r)
    BY <1>3, <1>7, <2>2, WakeFirst
  <2>4. /\ r.scan = s + 1 /\ r.isr = TRUE /\ r.started = TRUE /\ r.pending = k.pending
        /\ r.clock = k.clock /\ r.alarm = k.alarm /\ r.lasttime = k.lasttime
        /\ r.nextalarm = k.nextalarm /\ r.current = k.current
    BY <1>1, <1>3, <2>2 DEF Woke
  <2>5. AlarmOK(r)
    BY <1>1, <1>2, <2>4 DEF AlarmOK
  <2>6. /\ r.timeout[s] = 0
        /\ \A t \in Slots \ {s} : r.timeout[t] = k.timeout[t] /\ r.left[t] = k.left[t]
    BY <1>3, <2>2 DEF Woke
  <2>7. ASSUME NEW t \in Slots, r.timeout[t] > 0
        PROVE  IntervalOK(r, t)
    <3>0. t # s
      BY <2>6, <2>7
    <3>1. IntervalOK(k, t) /\ Ago(r) = Ago(k) /\ r.timeout[t] = k.timeout[t] /\ r.left[t] = k.left[t]
      BY <1>9, <2>4, <2>6, <2>7, <3>0 DEF Ago
    <3>2. (s + 1 <= t => s <= t) /\ (t < s + 1 => t < s)
      BY <1>2, <1>8, <3>0
    <3> QED BY <1>1, <1>2, <2>4, <3>1, <3>2 DEF IntervalOK
  <2>8. k.left[s] = 0 /\ k.timeout[s] > 0
    BY <1>1, <1>8, <1>10, <1>12, <1>4
  <2>9. Expired(k, r, {s})
    BY <1>3, <2>2, <2>4, <2>6, <2>8 DEF Expired, Woke
  <2> QED BY <2>2, <2>3, <2>4, <2>5, <2>7, <2>9 DEF KernelInv, TimeOK, Runs, r
<1>13. CASE k.timeout[s] # 0 /\ k.timeout[s] # e
  <2>1. k.timeout[s] > 0 /\ k.timeout[s] - e = k.left[s] /\ 0 < k.left[s]
    BY <1>1, <1>4, <1>8, <1>10, <1>13
  <2>2. (k.timeout[s] - e) % Width = k.left[s]
    <3>1. k.left[s] \in 0 .. Width - 1 /\ Width \in Nat \ {0}
      BY <1>1, <1>8, Widths
    <3> QED BY <2>1, <3>1, ModSmall
  <2>3. PICK x : x = Shortest(k.nextalarm, k.left[s])
    OBVIOUS
  <2>4. /\ k.nextalarm \in Times /\ x \in Times /\ 0 < x /\ x <= k.left[s]
        /\ 0 < k.nextalarm => x <= k.nextalarm
    BY <1>1, <1>8, <2>1, <2>3, ShortestIs DEF NilType
  <2> DEFINE f == [k.timeout EXCEPT ![s] = k.left[s]]
  <2>5. /\ f \in [Slots -> Times] /\ f[s] = k.left[s]
        /\ \A t \in Slots \ {s} : f[t] = k.timeout[t]
    BY <1>1, <1>8 DEF NilType
  <2>6. r = [j EXCEPT !.timeout = f, !.nextalarm = x]
    <3>1. r = [j EXCEPT !.timeout[s] = (@ - e) % Width,
                        !.nextalarm = Shortest(@, (k.timeout[s] - e) % Width)]
      BY <1>6, <1>13
    <3> QED BY <1>3, <2>2, <2>3, <3>1 DEF NilType
  <2> HIDE DEF f
  <2>7. /\ r \in NilType /\ r.current = k.current /\ r.next = k.next
        /\ r.lasttime = k.lasttime /\ r.clock = k.clock /\ r.alarm = k.alarm /\ r.started = k.started
        /\ r.pending = k.pending
        /\ r.state = k.state /\ r.wtobj = k.wtobj /\ r.qcnt = k.qcnt /\ r.msg = k.msg
        /\ r.timeout = f /\ r.left = k.left /\ r.nextalarm = x
        /\ r.scan = s + 1 /\ r.isr = TRUE
    BY <1>3, <2>4, <2>5, <2>6 DEF NilType
  <2>8. Waits(r)
    <3>1. \A q \in Queues : Waiting(r, q) = Waiting(k, q)
      BY <2>7 DEF Waiting
    <3>2. \A t \in Slots : r.state[t] = "READY" => r.timeout[t] = 0
      BY <1>1, <2>1, <2>5, <2>7 DEF Waits
    <3>3. \A t \in Slots : r.timeout[t] = 0 => r.left[t] = 0
      BY <1>1, <2>5, <2>7 DEF Waits
    <3> QED BY <1>1, <2>7, <3>1, <3>2, <3>3 DEF Waits, QueueCountersExact
  <2>9. FirstOK(r) /\ Runs(r)
    BY <1>1, <2>7 DEF FirstOK, Runs
  <2>10. AlarmOK(r)
    BY <1>1, <1>2, <2>7 DEF AlarmOK
  <2>11. x \in Int /\ k.nextalarm \in Int
    BY <2>4, Widths DEF Times
  <2>12. ASSUME NEW t \in Slots, r.timeout[t] > 0
         PROVE  IntervalOK(r, t)
    <3>1. CASE t = s
      <4>1. ~ (s + 1 <= s) /\ s < s + 1 /\ x \in 1 .. k.left[s]
        BY <1>1, <1>2, <1>8, <2>4, <2>11
      <4> QED BY <1>1, <1>2, <2>5, <2>7, <3>1, <4>1 DEF IntervalOK
    <3>2. CASE t # s
      <4>1. IntervalOK(k, t) /\ Ago(r) = Ago(k) /\ r.timeout[t] = k.timeout[t] /\ r.left[t] = k.left[t]
        BY <1>9, <2>5, <2>7, <2>12, <3>2 DEF Ago
      <4>2. (s + 1 <= t => s <= t) /\ (t < s + 1 => t < s)
        BY <1>2, <1>8, <3>2
      <4>3. k.nextalarm \in 1 .. k.left[t] => x \in 1 .. k.left[t]
        BY <1>8, <2>4, <2>11
      <4> QED BY <1>1, <1>2, <2>7, <4>1, <4>2, <4>3 DEF IntervalOK
    <3> QED BY <3>1, <3>2
  <2>13. Expired(k, r, {})
    <3>1. \A t \in Slots : r.timeout[t] > 0 => k.timeout[t] > 0
      BY <2>1, <2>5, <2>7
    <3> QED BY <2>7, <3>1 DEF Expired
  <2> QED BY <2>8, <2>9, <2>10, <2>12, <2>13 DEF KernelInv, TimeOK, r
<1> QED BY <1>11, <1>12, <1>13 DEF r

LEMMA HandlerEndKeeps ==
    ASSUME NEW k, KernelInv(k), k.scan = MaxThreads
    PROVE  KernelInv(HandlerEnd(k)) /\ Expired(k, HandlerEnd(k), {})
<1> DEFINE r == HandlerEnd(k)
           x == k.nextalarm
           b == IF x > 0 THEN chTimeAddX(k.alarm, x) ELSE k.alarm
<1>1. k.scan # NoScan /\ NoScan \notin Slots
  BY Widths, SlotsNat DEF NoScan
<1>2. /\ k \in NilType /\ Waits(k) /\ FirstOK(k) /\ TimeOK(k) /\ AlarmOK(k)
      /\ k.isr = TRUE /\ k.started = TRUE /\ k.clock = k.alarm /\ ~ k.pending
      /\ k.alarm \in Times /\ x \in Times
  BY <1>1 DEF KernelInv, Waits, TimeOK, AlarmOK, NilType
<1>3. x \in Int /\ 0 <= x /\ x < Width /\ 0 \in Times
  BY <1>2, Widths DEF Times
<1>4. b \in Times /\ (x > 0 => chTimeDiffX(k.alarm, b) = x)
  BY <1>2, AddValue, DiffAdd
<1>5. r = [k EXCEPT !.scan = NoScan, !.nextalarm = 0, !.lasttime = k.alarm,
                    !.alarm = b, !.started = x > 0]
  BY <1>2 DEF HandlerEnd, NilType
<1> HIDE DEF b, r
<1>6. /\ r \in NilType /\ r.current = k.current /\ r.next = k.next
      /\ r.lasttime = k.alarm /\ r.clock = k.clock /\ r.alarm = b /\ r.started = (x > 0)
      /\ r.pending = FALSE
      /\ r.state = k.state /\ r.wtobj = k.wtobj /\ r.qcnt = k.qcnt /\ r.msg = k.msg
      /\ r.timeout = k.timeout /\ r.left = k.left
      /\ r.scan = NoScan /\ r.isr = TRUE
  <2>1. (x > 0) \in BOOLEAN
    BY <1>3
  <2>2. k.pending = FALSE
    BY <1>2 DEF NilType
  <2> QED BY <1>2, <1>3, <1>4, <1>5, <2>1, <2>2 DEF NilType
<1>7. Waits(r)
  BY <1>2, <1>6, SameWaits
<1>8. FirstOK(r) /\ Runs(r)
  BY <1>2, <1>6 DEF FirstOK, Runs
<1>9. Ago(r) = 0 /\ (x > 0 => Ahead(r) = x /\ Span(r) = x)
  BY <1>2, <1>4, <1>6, DiffZero DEF Ago, Ahead, Span
<1>10. AlarmOK(r)
  <2>1. x > 0 => r.clock # r.alarm
    <3>1. x > 0 => Ahead(r) # 0
      BY <1>3, <1>9
    <3> QED BY <1>6, <3>1, Distances
  <2> QED BY <1>3, <1>6, <1>9, <2>1 DEF AlarmOK
<1>11. ASSUME NEW t \in Slots, r.timeout[t] > 0
       PROVE  IntervalOK(r, t)
  <2>1. t \in UserSlots
    <3>1. t # Idle
      BY <1>2, <1>6, <1>11 DEF Waits
    <3> QED BY <3>1, SlotsNat
  <2>2. t < k.scan /\ t \in Int
    BY <2>1, Widths DEF UserSlots
  <2>3. k.timeout[t] = k.left[t] /\ x \in 1 .. k.left[t]
    BY <1>1, <1>2, <1>6, <1>11, <2>2 DEF TimeOK, IntervalOK
  <2>4. k.left[t] \in Int /\ x > 0 /\ k.left[t] # 0
    <3>1. k.left[t] \in Int
      BY <1>2, Widths DEF NilType, Times
    <3> QED BY <1>3, <2>3, <3>1
  <2>5. k.timeout[t] = 0 + k.left[t]
    BY <2>3, <2>4
  <2> QED BY <1>6, <1>9, <2>3, <2>4, <2>5 DEF IntervalOK
<1>12. Expired(k, r, {})
  BY <1>6 DEF Expired
<1> QED BY <1>7, <1>8, <1>10, <1>11, <1>12 DEF KernelInv, TimeOK, r

-----------------------------------------------------------------------------
(* The mailbox and its calls *)

\* r is k with the threads of S woken with msg, and no new timeouts.
Changed(k, r, S, msg) ==
    /\ S \subseteq UserSlots
    /\ \A t \in S : k.state[t] # "READY" /\ r.state[t] = "READY" /\ r.msg[t] = msg
    /\ \A t \in Slots \ S : /\ r.state[t] = k.state[t] /\ r.msg[t] = k.msg[t]
                            /\ r.wtobj[t] = k.wtobj[t]
                            /\ r.timeout[t] > 0 => k.timeout[t] > 0

\* A thread in a queue is inside the call that waits there; a thread inside a
\* call is in that queue or has been woken, by a timeout only if it has one.
CallOK(k, c, t) ==
    /\ k.state[t] = "WTQUEUE" =>
          /\ c[t] # NoCall /\ k.wtobj[t] = OwnQueue(c[t])
          /\ k.timeout[t] > 0 => c[t].timeout # TIME_INFINITE
    /\ c[t] # NoCall =>
          /\ c[t].timeout # TIME_IMMEDIATE
          /\ k.state[t] # "SLEEPING"
          /\ k.state[t] = "READY" /\ k.msg[t] = "TIMEOUT" => c[t].timeout # TIME_INFINITE

CallsOK(k, c) ==
    /\ c \in [Slots -> Calls \union {NoCall}]
    /\ c[Idle] = NoCall
    /\ c[k.current] # NoCall => ~ k.isr
    /\ \A t \in UserSlots : CallOK(k, c, t)

\* The woken threads whose call looks for what the queue q waits for, and how
\* much of it there is.
Awake(k, c, q) == {t \in UserSlots : c[t] # NoCall /\ k.state[t] = "READY"
                                     /\ k.msg[t] = "OK" /\ OwnQueue(c[t]) = q}

Stock(m, q) == IF q = "qr" THEN m.cnt ELSE Size - m.cnt

LossFree(k, c, m) ==
    /\ \A q \in Queues : k.qcnt[q] < 0 => Stock(m, q) <= Cardinality(Awake(k, c, q))
    /\ m.reset => \A q \in Queues : k.qcnt[q] = 0

\* The two pointers are the counter apart.
RingOK(m) ==
    /\ m \in [buffer : [0 .. Size - 1 -> Msgs \union {NoMsg}], rdptr : 0 .. Size - 1,
              wrptr : 0 .. Size - 1, cnt : 0 .. Size, reset : BOOLEAN]
    /\ m.wrptr = IF m.rdptr + m.cnt < Size THEN m.rdptr + m.cnt ELSE (m.rdptr + m.cnt) - Size

Inv == KernelInv(n) /\ CallsOK(n, call) /\ LossFree(n, call, mb) /\ RingOK(mb)

LEMMA QueueNames ==
    /\ Queues = {"qw", "qr"} /\ "qw" # "qr" /\ Size \in Nat \ {0}
    /\ \A x : OwnQueue(x) \in Queues /\ PeerQueue(x) \in Queues /\ OwnQueue(x) # PeerQueue(x)
    /\ \A x : \A q \in Queues : q = OwnQueue(x) \/ q = PeerQueue(x)
  BY MailboxAssumption DEF OwnQueue, PeerQueue

LEMMA AwakeFinite ==
    ASSUME NEW k, NEW c, NEW q
    PROVE  IsFiniteSet(Awake(k, c, q)) /\ Cardinality(Awake(k, c, q)) \in Nat
<1>1. Awake(k, c, q) \subseteq UserSlots
  BY DEF Awake
<1>2. IsFiniteSet(UserSlots)
  BY WaitingFinite
<1>3. IsFiniteSet(Awake(k, c, q))
  BY <1>1, <1>2, FS_Subset
<1> QED BY <1>3, FS_CardinalityType

\* A queue that nobody joined has not become longer.
LEMMA FewerWaiting ==
    ASSUME NEW k, Waits(k), NEW r, Waits(r), NEW q \in Queues, Waiting(r, q) \subseteq Waiting(k, q)
    PROVE  k.qcnt[q] <= r.qcnt[q] /\ r.qcnt[q] <= 0 /\ k.qcnt[q] \in Int /\ r.qcnt[q] \in Int
<1>1. k.qcnt[q] = - Cardinality(Waiting(k, q)) /\ r.qcnt[q] = - Cardinality(Waiting(r, q))
  BY DEF Waits, QueueCountersExact
<1>2. IsFiniteSet(Waiting(k, q)) /\ Cardinality(Waiting(k, q)) \in 0 .. MaxThreads
      /\ Cardinality(Waiting(r, q)) \in 0 .. MaxThreads
  BY WaitingFinite
<1>3. Cardinality(Waiting(r, q)) <= Cardinality(Waiting(k, q))
  BY <1>2, FS_Subset
<1> QED BY <1>1, <1>2, <1>3, Widths

LEMMA WaitingChanged ==
    ASSUME NEW k, NEW r, NEW S, NEW msg, Changed(k, r, S, msg), NEW q
    PROVE  Waiting(r, q) \subseteq Waiting(k, q)
  BY SlotsNat DEF Changed, Waiting

LEMMA CallsWake ==
    ASSUME NEW k \in NilType, NEW c, CallsOK(k, c), NEW r, NEW S, NEW msg, Changed(k, r, S, msg),
           msg = "TIMEOUT" => \A t \in S : k.timeout[t] > 0,
           c[r.current] # NoCall => ~ r.isr
    PROVE  CallsOK(r, c)
<1>1. ASSUME NEW t \in UserSlots
      PROVE  CallOK(r, c, t)
  <2>1. CallOK(k, c, t)
    BY DEF CallsOK
  <2>2. CASE t \in S
    <3>1. k.state[t] # "READY" /\ r.state[t] = "READY" /\ r.msg[t] = msg
      BY <2>2 DEF Changed
    <3>2. c[t] # NoCall => k.state[t] = "WTQUEUE"
      BY <2>1, <3>1, SlotsNat DEF CallOK, NilType
    <3>3. c[t] # NoCall /\ k.state[t] = "WTQUEUE" /\ msg = "TIMEOUT" => c[t].timeout # TIME_INFINITE
      BY <2>1, <2>2 DEF CallOK
    <3> QED BY <2>1, <3>1, <3>2, <3>3 DEF CallOK
  <2>3. CASE t \notin S
    <3>1. /\ r.state[t] = k.state[t] /\ r.msg[t] = k.msg[t]
          /\ r.wtobj[t] = k.wtobj[t]
          /\ r.timeout[t] > 0 => k.timeout[t] > 0
      BY <2>3, SlotsNat DEF Changed
    <3> QED BY <2>1, <3>1 DEF CallOK
  <2> QED BY <2>2, <2>3
<1> QED BY <1>1 DEF CallsOK

Assigned(c, d, t, x) == d = [c EXCEPT ![t] = x]

LEMMA CallsDone ==
    ASSUME NEW k \in NilType, NEW c, CallsOK(k, c), NEW t \in Slots, k.state[t] = "READY",
           NEW d, Assigned(c, d, t, NoCall)
    PROVE  /\ CallsOK(k, d)
           /\ d[t] = NoCall
           /\ \A u \in Slots \ {t} : d[u] = c[u]
<1>1. /\ c \in [Slots -> Calls \union {NoCall}]
      /\ d \in [Slots -> Calls \union {NoCall}]
      /\ d[t] = NoCall
      /\ \A u \in Slots \ {t} : d[u] = c[u]
  BY DEF CallsOK, Assigned
<1>2. d[Idle] = NoCall /\ (d[k.current] # NoCall => ~ k.isr)
  <2>1. k.current \in Slots /\ Idle \in Slots
    BY SlotsNat DEF NilType
  <2> QED BY <1>1, <2>1 DEF CallsOK
<1>3. ASSUME NEW u \in UserSlots
      PROVE  CallOK(k, d, u)
  <2>1. CallOK(k, c, u) /\ u \in Slots
    BY SlotsNat DEF CallsOK
  <2>2. CASE u = t
    BY <1>1, <2>2 DEF CallOK
  <2>3. CASE u # t
    <3>1. d[u] = c[u]
      BY <1>1, <2>1, <2>3
    <3> QED BY <2>1, <3>1 DEF CallOK
  <2> QED BY <2>2, <2>3
<1> QED BY <1>1, <1>2, <1>3 DEF CallsOK

\* The running thread blocks in its call.
LEMMA CallsBlock ==
    ASSUME NEW k, Waits(k), NEW c, CallsOK(k, c), k.current \in UserSlots, NEW x \in Calls,
           x.timeout # TIME_IMMEDIATE,
           NEW r \in NilType, NEW S, WentToSleep(k, r, S, "WTQUEUE", OwnQueue(x), x.timeout # TIME_INFINITE),
           NEW d, Assigned(c, d, k.current, x)
    PROVE  /\ CallsOK(r, d)
           /\ d[k.current] = x
           /\ \A u \in Slots \ {k.current} : d[u] = c[u]
<1>0. k.current \in Slots /\ k \in NilType
  BY SlotsNat DEF Waits
<1>1. /\ d \in [Slots -> Calls \union {NoCall}]
      /\ d[k.current] = x
      /\ \A u \in Slots \ {k.current} : d[u] = c[u]
      /\ x # NoCall
  BY <1>0, NoCallAssumption DEF CallsOK, Assigned
<1>2. d[Idle] = NoCall /\ ~ r.isr
  BY <1>1, SlotsNat DEF CallsOK, WentToSleep
<1>3. ASSUME NEW u \in UserSlots
      PROVE  CallOK(r, d, u)
  <2>1. CallOK(k, c, u) /\ u \in Slots
    BY SlotsNat DEF CallsOK
  <2>2. CASE u = k.current
    <3>1. /\ r.state[u] = "WTQUEUE" /\ r.wtobj[u] = OwnQueue(x) /\ d[u] = x
          /\ r.timeout[u] > 0 => x.timeout # TIME_INFINITE
      BY <1>1, <2>2 DEF WentToSleep
    <3> QED BY <1>1, <3>1 DEF CallOK
  <2>3. CASE u # k.current /\ u \in S
    <3>1. r.state[u] = "READY" /\ r.msg[u] = "TIMEOUT" /\ d[u] = c[u] /\ k.timeout[u] > 0
      BY <1>1, <2>1, <2>3 DEF WentToSleep
    <3>2. k.state[u] # "READY" /\ k.state[u] \in {"READY", "SLEEPING", "WTQUEUE"}
      BY <1>0, <2>1, <3>1 DEF Waits, NilType
    <3> QED BY <2>1, <3>1, <3>2 DEF CallOK
  <2>4. CASE u # k.current /\ u \notin S
    <3>1. /\ r.state[u] = k.state[u] /\ r.msg[u] = k.msg[u] /\ r.wtobj[u] = k.wtobj[u]
          /\ r.timeout[u] > 0 => k.timeout[u] > 0
          /\ d[u] = c[u]
      BY <1>1, <2>1, <2>4 DEF WentToSleep
    <3> QED BY <2>1, <3>1 DEF CallOK
  <2> QED BY <2>2, <2>3, <2>4
<1> QED BY <1>1, <1>2, <1>3 DEF CallsOK

\* The running thread, outside of any call, sleeps.
LEMMA CallsNap ==
    ASSUME NEW k, Waits(k), NEW c, CallsOK(k, c), k.current \in UserSlots, c[k.current] = NoCall,
           NEW r \in NilType, NEW S, NEW w, WentToSleep(k, r, S, "SLEEPING", w, TRUE)
    PROVE  CallsOK(r, c)
<1>0. k.current \in Slots /\ k \in NilType
  BY SlotsNat DEF Waits
<1>2. ~ r.isr
  BY DEF WentToSleep
<1>3. ASSUME NEW u \in UserSlots
      PROVE  CallOK(r, c, u)
  <2>1. CallOK(k, c, u) /\ u \in Slots
    BY SlotsNat DEF CallsOK
  <2>2. CASE u = k.current
    <3>1. r.state[u] = "SLEEPING" /\ c[u] = NoCall
      BY <2>2 DEF WentToSleep
    <3> QED BY <3>1 DEF CallOK
  <2>3. CASE u # k.current /\ u \in S
    <3>1. r.state[u] = "READY" /\ r.msg[u] = "TIMEOUT" /\ k.timeout[u] > 0
      BY <2>1, <2>3 DEF WentToSleep
    <3>2. k.state[u] # "READY" /\ k.state[u] \in {"READY", "SLEEPING", "WTQUEUE"}
      BY <1>0, <2>1, <3>1 DEF Waits, NilType
    <3> QED BY <2>1, <3>1, <3>2 DEF CallOK
  <2>4. CASE u # k.current /\ u \notin S
    <3>1. /\ r.state[u] = k.state[u] /\ r.msg[u] = k.msg[u] /\ r.wtobj[u] = k.wtobj[u]
          /\ r.timeout[u] > 0 => k.timeout[u] > 0
      BY <2>1, <2>4 DEF WentToSleep
    <3> QED BY <2>1, <3>1 DEF CallOK
  <2> QED BY <2>2, <2>3, <2>4
<1> QED BY <1>2, <1>3 DEF CallsOK

-----------------------------------------------------------------------------
(* Wakeups and what they were for *)

\* No queue is joined and no claim goes away: nothing is lost.
LEMMA LossKept ==
    ASSUME NEW k, Waits(k), NEW c, NEW m, LossFree(k, c, m), NEW r, Waits(r), NEW d, NEW s,
           \A q \in Queues : Waiting(r, q) \subseteq Waiting(k, q) /\ Awake(r, d, q) = Awake(k, c, q),
           s.cnt = m.cnt, s.reset => m.reset
    PROVE  LossFree(r, d, s)
<1>1. \A q \in Queues : Stock(s, q) = Stock(m, q)
  BY DEF Stock
<1>2. ASSUME NEW q \in Queues
      PROVE  k.qcnt[q] <= r.qcnt[q] /\ r.qcnt[q] <= 0 /\ k.qcnt[q] \in Int /\ r.qcnt[q] \in Int
  BY FewerWaiting
<1>3. \A q \in Queues : r.qcnt[q] < 0 => k.qcnt[q] < 0
  BY <1>2
<1>4. \A q \in Queues : k.qcnt[q] = 0 => r.qcnt[q] = 0
  BY <1>2
<1> QED BY <1>1, <1>3, <1>4 DEF LossFree

\* Wakeups that are not for the mailbox change no claim.
LEMMA AwakeQuiet ==
    ASSUME NEW k, NEW c, NEW r, NEW S, NEW msg, Changed(k, r, S, msg), msg # "OK", NEW q
    PROVE  Awake(r, c, q) = Awake(k, c, q)
<1>1. \A t \in UserSlots : t \in S => r.msg[t] # "OK" /\ k.state[t] # "READY"
  BY DEF Changed
<1>2. \A t \in UserSlots : t \notin S => r.state[t] = k.state[t] /\ r.msg[t] = k.msg[t]
  BY SlotsNat DEF Changed
<1> QED BY <1>1, <1>2 DEF Awake

\* The thread woken for the mailbox has the claim.
LEMMA AwakeOne ==
    ASSUME NEW k, NEW c, CallsOK(k, c), NEW p \in Queues, NEW t \in Waiting(k, p),
           NEW r, Changed(k, r, {t}, "OK")
    PROVE  /\ Awake(r, c, p) = Awake(k, c, p) \union {t} /\ t \notin Awake(k, c, p)
           /\ \A q \in Queues \ {p} : Awake(r, c, q) = Awake(k, c, q)
<1>1. t \in UserSlots /\ k.state[t] = "WTQUEUE" /\ k.wtobj[t] = p
  BY DEF Waiting
<1>2. c[t] # NoCall /\ OwnQueue(c[t]) = p
  BY <1>1 DEF CallsOK, CallOK
<1>3. r.state[t] = "READY" /\ r.msg[t] = "OK"
  BY DEF Changed
<1>4. \A u \in UserSlots : u # t => r.state[u] = k.state[u] /\ r.msg[u] = k.msg[u]
  BY SlotsNat DEF Changed
<1>5. Awake(r, c, p) = Awake(k, c, p) \union {t}
  BY <1>1, <1>2, <1>3, <1>4 DEF Awake
<1>6. t \notin Awake(k, c, p)
  BY <1>1 DEF Awake
<1>7. \A q \in Queues \ {p} : Awake(r, c, q) = Awake(k, c, q)
  BY <1>1, <1>2, <1>3, <1>4 DEF Awake
<1> QED BY <1>5, <1>6, <1>7

\* One call is served: one more for the other side, which is told, and one
\* less for the own side, of which at most one was on its way.
LEMMA LossServed ==
    ASSUME NEW k, Waits(k), NEW c, CallsOK(k, c), NEW m, LossFree(k, c, m), m.cnt \in 0 .. Size,
           NEW p \in Queues, NEW o \in Queues, o # p,
           NEW d, CallsOK(k, d),
           Awake(k, d, p) = Awake(k, c, p),
           Cardinality(Awake(k, c, o)) <= Cardinality(Awake(k, d, o)) + 1,
           NEW r, Waits(r), NEW S \in SUBSET Waiting(k, p), Changed(k, r, S, "OK"),
           k.qcnt[p] < 0 => \E t \in UserSlots : S = {t},
           k.qcnt[p] = 0 => S = {},
           NEW s, ~ s.reset, s.cnt \in 0 .. Size, Stock(s, p) = Stock(m, p) + 1, Stock(s, o) = Stock(m, o) - 1
    PROVE  LossFree(r, d, s)
<1>1. \A q \in Queues : q = p \/ q = o
  BY MailboxAssumption
<1>2. \A q \in Queues : k.qcnt[q] <= r.qcnt[q] /\ r.qcnt[q] <= 0 /\ k.qcnt[q] \in Int /\ r.qcnt[q] \in Int
  BY WaitingChanged, FewerWaiting
<1>3. \A q \in Queues : Stock(m, q) \in Int /\ Stock(s, q) \in Int
  BY MailboxAssumption DEF Stock
<1>4. \A q \in Queues : /\ IsFiniteSet(Awake(k, c, q)) /\ Cardinality(Awake(k, c, q)) \in Nat
                        /\ IsFiniteSet(Awake(k, d, q)) /\ Cardinality(Awake(k, d, q)) \in Nat
                        /\ IsFiniteSet(Awake(r, d, q)) /\ Cardinality(Awake(r, d, q)) \in Nat
  BY AwakeFinite
<1>5. CASE k.qcnt[p] < 0
  <2>1. PICK t \in UserSlots : S = {t}
    BY <1>5
  <2>2. t \in Waiting(k, p) /\ Changed(k, r, {t}, "OK")
    BY <2>1
  <2>3. /\ Awake(r, d, p) = Awake(k, d, p) \union {t} /\ t \notin Awake(k, d, p)
        /\ \A q \in Queues \ {p} : Awake(r, d, q) = Awake(k, d, q)
    BY <2>2, AwakeOne
  <2>4. Cardinality(Awake(r, d, p)) = Cardinality(Awake(k, c, p)) + 1
    BY <1>4, <2>3, FS_AddElement
  <2>5. Stock(s, p) <= Cardinality(Awake(r, d, p))
    <3>1. Stock(m, p) <= Cardinality(Awake(k, c, p))
      BY <1>5 DEF LossFree
    <3> QED BY <1>3, <1>4, <2>4, <3>1
  <2>6. r.qcnt[o] < 0 => Stock(s, o) <= Cardinality(Awake(r, d, o))
    <3>1. SUFFICES ASSUME r.qcnt[o] < 0 PROVE Stock(s, o) <= Cardinality(Awake(r, d, o))
      OBVIOUS
    <3>2. k.qcnt[o] < 0
      BY <1>2, <3>1
    <3>3. Stock(m, o) <= Cardinality(Awake(k, c, o)) /\ Awake(r, d, o) = Awake(k, d, o)
      BY <2>3, <3>2 DEF LossFree
    <3> QED BY <1>3, <1>4, <3>3
  <2> QED BY <1>1, <2>5, <2>6 DEF LossFree
<1>6. CASE ~ (k.qcnt[p] < 0)
  <2>1. k.qcnt[p] = 0 /\ r.qcnt[p] = 0
    BY <1>2, <1>6
  <2>2. S = {}
    BY <2>1
  <2>3. Awake(r, d, o) = Awake(k, d, o)
    <3>1. \A u \in UserSlots : r.state[u] = k.state[u] /\ r.msg[u] = k.msg[u]
      BY <2>2, SlotsNat DEF Changed
    <3> QED BY <3>1 DEF Awake
  <2>4. r.qcnt[o] < 0 => Stock(s, o) <= Cardinality(Awake(r, d, o))
    <3>1. SUFFICES ASSUME r.qcnt[o] < 0 PROVE Stock(s, o) <= Cardinality(Awake(r, d, o))
      OBVIOUS
    <3>2. k.qcnt[o] < 0
      BY <1>2, <3>1
    <3>3. Stock(m, o) <= Cardinality(Awake(k, c, o))
      BY <3>2 DEF LossFree
    <3> QED BY <1>3, <1>4, <2>3, <3>3
  <2>5. ~ (r.qcnt[p] < 0)
    BY <2>1
  <2> QED BY <1>1, <2>4, <2>5 DEF LossFree
<1> QED BY <1>5, <1>6

-----------------------------------------------------------------------------
(* What the steps of threads and handlers do to the kernel state *)

LEMMA WokeChanged ==
    ASSUME NEW k, NEW r, NEW S, NEW msg, Woke(k, r, S, msg), \A t \in S : k.state[t] # "READY"
    PROVE  Changed(k, r, S, msg)
  BY DEF Woke, Changed

LEMMA ChangedThen ==
    ASSUME NEW k, NEW m, NEW r, NEW S, NEW msg, Changed(k, m, S, msg),
           SameThreads(m, r), r.timeout = m.timeout
    PROVE  Changed(k, r, S, msg)
  BY DEF Changed, SameThreads

LEMMA ThenChanged ==
    ASSUME NEW k, NEW m, NEW r, NEW S, NEW msg, Changed(m, r, S, msg),
           SameThreads(k, m), m.timeout = k.timeout
    PROVE  Changed(k, r, S, msg)
  BY DEF Changed, SameThreads

LEMMA NothingChanged ==
    ASSUME NEW k, NEW r, SameThreads(k, r), r.timeout = k.timeout, NEW msg
    PROVE  Changed(k, r, {}, msg)
  BY DEF Changed, SameThreads

\* One thread of the queue p, if there is one, has been told.
Told(k, r, S, p) ==
    /\ S \in SUBSET Waiting(k, p)
    /\ Changed(k, r, S, "OK")
    /\ k.qcnt[p] < 0 => \E t \in UserSlots : S = {t}
    /\ k.qcnt[p] = 0 => S = {}

LEMMA TellOne ==
    ASSUME NEW k, KernelInv(k), NEW p \in Queues, NEW r, r = chThdDequeueNextI(k, p, "OK")
    PROVE  /\ Waits(r) /\ FirstOK(r) /\ TimeOK(r) /\ r.isr = k.isr /\ r.current = k.current
           /\ \E S : Told(k, r, S, p)
<1>1. k \in NilType /\ Waits(k) /\ FirstOK(k) /\ TimeOK(k)
  BY DEF KernelInv, Waits
<1>2. PICK S \in SUBSET Waiting(k, p) :
          /\ Woke(k, r, S, "OK")
          /\ Waits(r)
          /\ k.qcnt[p] < 0 => \E t \in UserSlots : S = {t}
          /\ k.qcnt[p] = 0 => S = {}
  BY <1>1, DequeueNextWakes DEF Wakeups
<1>3. FirstOK(r) /\ TimeOK(r) /\ r.isr = k.isr /\ r.current = k.current
  BY <1>1, <1>2, WakeFirst, WakeTime DEF Woke
<1>4. \A t \in S : k.state[t] # "READY"
  BY <1>2 DEF Waiting
<1>5. Changed(k, r, S, "OK")
  BY <1>2, <1>4, WokeChanged
<1>6. Told(k, r, S, p)
  BY <1>2, <1>5 DEF Told
<1> QED BY <1>2, <1>3, <1>6

LEMMA TellByThread ==
    ASSUME NEW k, KernelInv(k), NEW p \in Queues,
           NEW r, r = chSchRescheduleS(chThdDequeueNextI(k, p, "OK"))
    PROVE  KernelInv(r) /\ r.isr = k.isr /\ \E S : Told(k, r, S, p)
<1>1. PICK m : m = chThdDequeueNextI(k, p, "OK")
  OBVIOUS
<1>2. /\ Waits(m) /\ FirstOK(m) /\ TimeOK(m) /\ m.isr = k.isr /\ m.current = k.current
      /\ \E S : Told(k, m, S, p)
  BY <1>1, TellOne
<1>3. PICK S : Told(k, m, S, p)
  BY <1>2
<1>4. r = chSchRescheduleS(m)
  BY <1>1
<1>5. KernelInv(r) /\ SameThreads(m, r) /\ r.timeout = m.timeout /\ r.isr = m.isr
  BY <1>2, <1>4, RescheduleRuns
<1>6. Changed(k, m, S, "OK")
  BY <1>3 DEF Told
<1>7. Changed(k, r, S, "OK")
  BY <1>5, <1>6, ChangedThen
<1>8. Told(k, r, S, p)
  BY <1>3, <1>7 DEF Told
<1> QED BY <1>2, <1>5, <1>8

LEMMA TellByHandler ==
    ASSUME NEW k, KernelInv(k), NEW p \in Queues,
           NEW r, r = chThdDequeueNextI(EnterIsr(k), p, "OK")
    PROVE  KernelInv(r) /\ r.isr = TRUE /\ r.current = k.current /\ \E S : Told(k, r, S, p)
<1>1. PICK m : m = EnterIsr(k)
  OBVIOUS
<1>2. /\ KernelInv(m) /\ SameThreads(k, m) /\ m.isr = TRUE /\ m.current = k.current
      /\ m.timeout = k.timeout
  BY <1>1, EnterKeeps
<1>3. r = chThdDequeueNextI(m, p, "OK")
  BY <1>1
<1>4. /\ Waits(r) /\ FirstOK(r) /\ TimeOK(r) /\ r.isr = m.isr /\ r.current = m.current
      /\ \E S : Told(m, r, S, p)
  BY <1>2, <1>3, TellOne
<1>5. PICK S : Told(m, r, S, p)
  BY <1>4
<1>6. Changed(k, r, S, "OK")
  <2>1. Changed(m, r, S, "OK")
    BY <1>5 DEF Told
  <2> QED BY <1>2, <2>1, ThenChanged
<1>7. Waiting(m, p) = Waiting(k, p) /\ m.qcnt[p] = k.qcnt[p]
  BY <1>2 DEF SameThreads, Waiting
<1>8. Told(k, r, S, p)
  BY <1>5, <1>6, <1>7 DEF Told
<1>9. KernelInv(r)
  BY <1>2, <1>4 DEF KernelInv, Runs
<1> QED BY <1>2, <1>4, <1>8, <1>9

\* Everybody has been told of the reset.
AllTold(k, r) ==
    /\ Changed(k, r, Waiting(k, "qw") \union Waiting(k, "qr"), "RESET")
    /\ \A q \in Queues : r.qcnt[q] = 0

LEMMA TellAll ==
    ASSUME NEW k, KernelInv(k), NEW r, r = WakeAll(k)
    PROVE  /\ Waits(r) /\ FirstOK(r) /\ TimeOK(r) /\ r.isr = k.isr /\ r.current = k.current
           /\ AllTold(k, r)
<1>1. k \in NilType /\ Waits(k) /\ FirstOK(k) /\ TimeOK(k)
  BY DEF KernelInv, Waits
<1> DEFINE S == Waiting(k, "qw") \union Waiting(k, "qr")
<1>2. Woke(k, r, S, "RESET") /\ Waits(r) /\ r.qcnt = [q \in Queues |-> 0]
  BY <1>1, WakeAllWakes
<1>3. \A t \in S : k.state[t] # "READY"
  BY DEF Waiting
<1> HIDE DEF S
<1>4. FirstOK(r) /\ TimeOK(r) /\ r.isr = k.isr /\ r.current = k.current
  BY <1>1, <1>2, WakeFirst, WakeTime DEF Woke
<1>5. Changed(k, r, S, "RESET")
  BY <1>2, <1>3, WokeChanged
<1>6. AllTold(k, r)
  BY <1>2, <1>5 DEF AllTold, S
<1> QED BY <1>2, <1>4, <1>6

LEMMA TellAllByThread ==
    ASSUME NEW k, KernelInv(k), NEW r, r = chSchRescheduleS(WakeAll(k))
    PROVE  KernelInv(r) /\ r.isr = k.isr /\ AllTold(k, r)
<1>1. PICK m : m = WakeAll(k)
  OBVIOUS
<1>2. /\ Waits(m) /\ FirstOK(m) /\ TimeOK(m) /\ m.isr = k.isr /\ m.current = k.current
      /\ AllTold(k, m)
  BY <1>1, TellAll
<1>3. r = chSchRescheduleS(m)
  BY <1>1
<1>4. KernelInv(r) /\ SameThreads(m, r) /\ r.timeout = m.timeout /\ r.isr = m.isr
  BY <1>2, <1>3, RescheduleRuns
<1> DEFINE S == Waiting(k, "qw") \union Waiting(k, "qr")
<1>5. Changed(k, m, S, "RESET")
  BY <1>2 DEF AllTold
<1>6. Changed(k, r, S, "RESET")
  <2> HIDE DEF S
  <2> QED BY <1>4, <1>5, ChangedThen
<1>7. AllTold(k, r)
  BY <1>2, <1>4, <1>6 DEF AllTold, SameThreads
<1> QED BY <1>2, <1>4, <1>7

LEMMA TellAllByHandler ==
    ASSUME NEW k, KernelInv(k), NEW r, r = WakeAll(EnterIsr(k))
    PROVE  KernelInv(r) /\ r.isr = TRUE /\ r.current = k.current /\ AllTold(k, r)
<1>1. PICK m : m = EnterIsr(k)
  OBVIOUS
<1>2. /\ KernelInv(m) /\ SameThreads(k, m) /\ m.isr = TRUE /\ m.current = k.current
      /\ m.timeout = k.timeout
  BY <1>1, EnterKeeps
<1>3. r = WakeAll(m)
  BY <1>1
<1>4. /\ Waits(r) /\ FirstOK(r) /\ TimeOK(r) /\ r.isr = m.isr /\ r.current = m.current
      /\ AllTold(m, r)
  BY <1>2, <1>3, TellAll
<1> DEFINE S == Waiting(k, "qw") \union Waiting(k, "qr")
<1>5. Waiting(m, "qw") \union Waiting(m, "qr") = S
  BY <1>2 DEF SameThreads, Waiting
<1>6. Changed(m, r, S, "RESET")
  BY <1>4, <1>5 DEF AllTold
<1>7. Changed(k, r, S, "RESET")
  <2> HIDE DEF S
  <2> QED BY <1>2, <1>6, ThenChanged
<1>8. AllTold(k, r)
  BY <1>4, <1>7 DEF AllTold
<1>9. KernelInv(r)
  BY <1>2, <1>4 DEF KernelInv, Runs
<1> QED BY <1>2, <1>4, <1>8, <1>9

\* The timer handler ends waits at their deadline.
LEMMA ExpiredChanged ==
    ASSUME NEW k, Waits(k), NEW r, NEW S, Expired(k, r, S)
    PROVE  /\ Changed(k, r, S, "TIMEOUT")
           /\ \A t \in S : k.timeout[t] > 0 /\ k.left[t] = 0
<1>1. \A t \in S : k.timeout[t] > 0 /\ k.left[t] = 0 /\ t \in Slots
  BY SlotsNat DEF Expired
<1>2. \A t \in S : k.state[t] # "READY"
  BY <1>1 DEF Waits
<1> QED BY <1>1, <1>2 DEF Expired, Changed

LEMMA HandlerChanges ==
    ASSUME NEW k, KernelInv(k), NEW r,
           \/ k.pending /\ r = HandlerStart(k)
           \/ k.scan \in UserSlots /\ r = HandlerStep(k)
           \/ k.scan = MaxThreads /\ r = HandlerEnd(k)
    PROVE  /\ KernelInv(r) /\ r.isr = TRUE /\ r.current = k.current
           /\ \E S : Changed(k, r, S, "TIMEOUT") /\ \A t \in S : k.timeout[t] > 0 /\ k.left[t] = 0
<1>1. KernelInv(r) /\ \E S : Expired(k, r, S)
  BY HandlerStartKeeps, HandlerStepKeeps, HandlerEndKeeps
<1>2. PICK S : Expired(k, r, S)
  BY <1>1
<1>3. Waits(k)
  BY DEF KernelInv
<1>4. Changed(k, r, S, "TIMEOUT") /\ \A t \in S : k.timeout[t] > 0 /\ k.left[t] = 0
  BY <1>2, <1>3, ExpiredChanged
<1>5. r.isr = TRUE /\ r.current = k.current
  BY <1>2 DEF Expired
<1> QED BY <1>1, <1>4, <1>5

-----------------------------------------------------------------------------
(* The ring *)

LEMMA SizeNat ==
    Size \in Nat \ {0} /\ Size \in Int /\ 0 < Size
  BY MailboxAssumption

LEMMA SuccRange ==
    ASSUME NEW ptr \in 0 .. Size - 1
    PROVE  Succ(ptr) \in 0 .. Size - 1 /\ Succ(ptr) = IF ptr + 1 = Size THEN 0 ELSE ptr + 1
  BY SizeNat DEF Succ

LEMMA CallFields ==
    ASSUME NEW x \in Calls
    PROVE  /\ x.op \in {"post", "ahead", "fetch"}
           /\ x.op # "fetch" => x.msg \in Msgs
           /\ x.timeout \in Timeouts
  BY DEF Calls

LEMMA WriteRing ==
    ASSUME NEW m, RingOK(m), m.cnt < Size, NEW x \in Msgs
    PROVE  RingOK(Write(m, x)) /\ Write(m, x).cnt = m.cnt + 1 /\ Write(m, x).reset = m.reset
<1> DEFINE r == Write(m, x)
           b == [m.buffer EXCEPT ![m.wrptr] = x]
<1>1. /\ m.buffer \in [0 .. Size - 1 -> Msgs \union {NoMsg}] /\ m.rdptr \in 0 .. Size - 1
      /\ m.wrptr \in 0 .. Size - 1 /\ m.cnt \in 0 .. Size /\ m.reset \in BOOLEAN
  BY DEF RingOK
<1>2. r = [m EXCEPT !.buffer = b, !.wrptr = Succ(m.wrptr), !.cnt = m.cnt + 1]
  BY DEF RingOK, Write
<1>3. b \in [0 .. Size - 1 -> Msgs \union {NoMsg}]
  BY <1>1
<1>4. Succ(m.wrptr) \in 0 .. Size - 1 /\ m.cnt + 1 \in 0 .. Size
  <2>1. m.cnt \in Int /\ 0 <= m.cnt /\ m.cnt <= Size
    BY <1>1, SizeNat
  <2>2. m.cnt + 1 \in 0 .. Size
    BY <2>1, SizeNat
  <2> QED BY <1>1, <2>2, SuccRange
<1> HIDE DEF r, b
<1>5. /\ r \in [buffer : [0 .. Size - 1 -> Msgs \union {NoMsg}], rdptr : 0 .. Size - 1,
                wrptr : 0 .. Size - 1, cnt : 0 .. Size, reset : BOOLEAN]
      /\ r.rdptr = m.rdptr /\ r.wrptr = Succ(m.wrptr) /\ r.cnt = m.cnt + 1 /\ r.reset = m.reset
  BY <1>2, <1>3, <1>4 DEF RingOK
<1>6. m.wrptr = IF m.rdptr + m.cnt < Size THEN m.rdptr + m.cnt ELSE (m.rdptr + m.cnt) - Size
  BY DEF RingOK
<1>7. r.wrptr = IF r.rdptr + r.cnt < Size THEN r.rdptr + r.cnt ELSE (r.rdptr + r.cnt) - Size
  <2>1. Succ(m.wrptr) = IF m.wrptr + 1 = Size THEN 0 ELSE m.wrptr + 1
    BY <1>1, SuccRange
  <2> QED BY <1>1, <1>5, <1>6, <2>1, SizeNat
<1> QED BY <1>5, <1>7 DEF RingOK, r

LEMMA WriteAheadRing ==
    ASSUME NEW m, RingOK(m), m.cnt < Size, NEW x \in Msgs
    PROVE  /\ RingOK(WriteAhead(m, x)) /\ WriteAhead(m, x).cnt = m.cnt + 1
           /\ WriteAhead(m, x).reset = m.reset
<1> DEFINE p == IF m.rdptr = 0 THEN Size - 1 ELSE m.rdptr - 1
           r == WriteAhead(m, x)
           b == [m.buffer EXCEPT ![p] = x]
<1>1. /\ m.buffer \in [0 .. Size - 1 -> Msgs \union {NoMsg}] /\ m.rdptr \in 0 .. Size - 1
      /\ m.wrptr \in 0 .. Size - 1 /\ m.cnt \in 0 .. Size /\ m.reset \in BOOLEAN
  BY DEF RingOK
<1>2. r = [m EXCEPT !.rdptr = p, !.buffer = b, !.cnt = m.cnt + 1]
  BY DEF RingOK, WriteAhead
<1>3. b \in [0 .. Size - 1 -> Msgs \union {NoMsg}]
  BY <1>1
<1>4. p \in 0 .. Size - 1 /\ m.cnt + 1 \in 0 .. Size
  BY <1>1, SizeNat
<1> HIDE DEF r, b, p
<1>5. /\ r \in [buffer : [0 .. Size - 1 -> Msgs \union {NoMsg}], rdptr : 0 .. Size - 1,
                wrptr : 0 .. Size - 1, cnt : 0 .. Size, reset : BOOLEAN]
      /\ r.rdptr = p /\ r.wrptr = m.wrptr /\ r.cnt = m.cnt + 1 /\ r.reset = m.reset
  BY <1>2, <1>3, <1>4 DEF RingOK
<1>6. m.wrptr = IF m.rdptr + m.cnt < Size THEN m.rdptr + m.cnt ELSE (m.rdptr + m.cnt) - Size
  BY DEF RingOK
<1>7. r.wrptr = IF r.rdptr + r.cnt < Size THEN r.rdptr + r.cnt ELSE (r.rdptr + r.cnt) - Size
  <2>1. m.rdptr \in Int /\ 0 <= m.rdptr /\ m.rdptr < Size /\ m.cnt \in Int /\ 0 <= m.cnt /\ m.cnt < Size
    BY <1>1, SizeNat
  <2>2. CASE m.rdptr = 0
    <3>1. p = Size - 1
      BY <2>2 DEF p
    <3>2. ~ (p + (m.cnt + 1) < Size) /\ (p + (m.cnt + 1)) - Size = m.cnt
      BY <2>1, <3>1, SizeNat
    <3>3. m.wrptr = m.cnt
      BY <1>6, <2>1, <2>2, SizeNat
    <3> QED BY <1>5, <3>2, <3>3
  <2>3. CASE m.rdptr # 0
    <3>1. p = m.rdptr - 1
      BY <2>3 DEF p
    <3>2. p + (m.cnt + 1) = m.rdptr + m.cnt
      BY <2>1, <3>1
    <3> QED BY <1>5, <1>6, <3>2
  <2> QED BY <2>2, <2>3
<1> QED BY <1>5, <1>7 DEF RingOK, r

LEMMA ReadRing ==
    ASSUME NEW m, RingOK(m), m.cnt > 0
    PROVE  RingOK(Read(m)) /\ Read(m).cnt = m.cnt - 1 /\ Read(m).reset = m.reset
<1> DEFINE r == Read(m)
<1>1. /\ m.buffer \in [0 .. Size - 1 -> Msgs \union {NoMsg}] /\ m.rdptr \in 0 .. Size - 1
      /\ m.wrptr \in 0 .. Size - 1 /\ m.cnt \in 0 .. Size /\ m.reset \in BOOLEAN
  BY DEF RingOK
<1>2. r = [m EXCEPT !.rdptr = Succ(m.rdptr), !.cnt = m.cnt - 1]
  BY DEF RingOK, Read
<1>4. Succ(m.rdptr) \in 0 .. Size - 1 /\ m.cnt - 1 \in 0 .. Size
  <2>1. m.cnt \in Int /\ 0 <= m.cnt /\ m.cnt <= Size
    BY <1>1, SizeNat
  <2>2. m.cnt - 1 \in 0 .. Size
    BY <2>1, SizeNat
  <2> QED BY <1>1, <2>2, SuccRange
<1> HIDE DEF r
<1>5. /\ r \in [buffer : [0 .. Size - 1 -> Msgs \union {NoMsg}], rdptr : 0 .. Size - 1,
                wrptr : 0 .. Size - 1, cnt : 0 .. Size, reset : BOOLEAN]
      /\ r.rdptr = Succ(m.rdptr) /\ r.wrptr = m.wrptr /\ r.cnt = m.cnt - 1 /\ r.reset = m.reset
  BY <1>2, <1>4 DEF RingOK
<1>6. m.wrptr = IF m.rdptr + m.cnt < Size THEN m.rdptr + m.cnt ELSE (m.rdptr + m.cnt) - Size
  BY DEF RingOK
<1>7. r.wrptr = IF r.rdptr + r.cnt < Size THEN r.rdptr + r.cnt ELSE (r.rdptr + r.cnt) - Size
  <2>1. Succ(m.rdptr) = IF m.rdptr + 1 = Size THEN 0 ELSE m.rdptr + 1
    BY <1>1, SuccRange
  <2>2. m.rdptr \in Int /\ 0 <= m.rdptr /\ m.rdptr < Size /\ m.cnt \in Int /\ 0 < m.cnt /\ m.cnt <= Size
    BY <1>1, SizeNat
  <2>3. CASE m.rdptr + 1 = Size
    <3>1. r.rdptr = 0 /\ r.cnt = m.cnt - 1
      BY <1>5, <2>1, <2>3
    <3>2. m.wrptr = m.cnt - 1
      BY <1>6, <2>2, <2>3, SizeNat
    <3>3. 0 + (m.cnt - 1) < Size /\ 0 + (m.cnt - 1) = m.cnt - 1
      BY <2>2, SizeNat
    <3> QED BY <1>5, <3>1, <3>2, <3>3
  <2>4. CASE m.rdptr + 1 # Size
    <3>1. r.rdptr = m.rdptr + 1 /\ r.cnt = m.cnt - 1
      BY <1>5, <2>1, <2>4
    <3>2. (m.rdptr + 1) + (m.cnt - 1) = m.rdptr + m.cnt
      BY <2>2
    <3> QED BY <1>5, <1>6, <3>1, <3>2
  <2> QED BY <2>3, <2>4
<1> QED BY <1>5, <1>7 DEF RingOK, r

\* A served call moves one unit from the stock of its own queue to the other.
LEMMA ServedRing ==
    ASSUME RingOK(mb), NEW x \in Calls, Serviceable(x), NEW s, s = Served(x)
    PROVE  /\ RingOK(s) /\ s.cnt \in 0 .. Size /\ s.reset = mb.reset
           /\ Stock(s, PeerQueue(x)) = Stock(mb, PeerQueue(x)) + 1
           /\ Stock(s, OwnQueue(x)) = Stock(mb, OwnQueue(x)) - 1
<1>1. mb.cnt \in 0 .. Size /\ Size \in Nat \ {0}
  BY SizeNat DEF RingOK
<1>2. x.op \in {"post", "ahead", "fetch"} /\ (x.op # "fetch" => x.msg \in Msgs)
  BY CallFields
<1>3. CASE x.op = "fetch"
  <2>1. s = Read(mb) /\ mb.cnt > 0
    BY <1>3 DEF Served, Serviceable, chMBGetUsedCountI
  <2>2. RingOK(s) /\ s.cnt = mb.cnt - 1 /\ s.reset = mb.reset
    BY <2>1, ReadRing
  <2> QED BY <1>1, <1>3, <2>1, <2>2 DEF Stock, PeerQueue, OwnQueue
<1>4. CASE x.op # "fetch"
  <2>1. mb.cnt < Size
    BY <1>1, <1>4 DEF Serviceable, chMBGetFreeCountI
  <2>2. s = Write(mb, x.msg) \/ s = WriteAhead(mb, x.msg)
    BY <1>2, <1>4 DEF Served
  <2>3. RingOK(s) /\ s.cnt = mb.cnt + 1 /\ s.reset = mb.reset
    BY <1>2, <1>4, <2>1, <2>2, WriteRing, WriteAheadRing
  <2> QED BY <1>1, <1>4, <2>1, <2>3 DEF Stock, PeerQueue, OwnQueue
<1> QED BY <1>3, <1>4

\* A unit has gone from the stock of the queue o to the one of the queue p, and
\* the claim of at most one thread of o with it.
Moved(m, s, p, o) ==
    /\ m.cnt \in 0 .. Size /\ s.cnt \in 0 .. Size /\ ~ s.reset
    /\ Stock(s, p) = Stock(m, p) + 1 /\ Stock(s, o) = Stock(m, o) - 1

Freed(k, c, d, p, o) ==
    /\ Awake(k, d, p) = Awake(k, c, p)
    /\ Cardinality(Awake(k, c, o)) <= Cardinality(Awake(k, d, o)) + 1

LEMMA LossTold ==
    ASSUME NEW k, Waits(k), NEW c, CallsOK(k, c), NEW m, LossFree(k, c, m),
           NEW p \in Queues, NEW o \in Queues, o # p, NEW d, CallsOK(k, d), Freed(k, c, d, p, o),
           NEW r, Waits(r), NEW S, Told(k, r, S, p), NEW s, Moved(m, s, p, o)
    PROVE  LossFree(r, d, s)
<1>1. /\ S \in SUBSET Waiting(k, p) /\ Changed(k, r, S, "OK")
      /\ k.qcnt[p] < 0 => \E t \in UserSlots : S = {t}
      /\ k.qcnt[p] = 0 => S = {}
  BY DEF Told
<1>2. /\ Awake(k, d, p) = Awake(k, c, p)
      /\ Cardinality(Awake(k, c, o)) <= Cardinality(Awake(k, d, o)) + 1
  BY DEF Freed
<1>3. /\ m.cnt \in 0 .. Size /\ s.cnt \in 0 .. Size /\ ~ s.reset
      /\ Stock(s, p) = Stock(m, p) + 1 /\ Stock(s, o) = Stock(m, o) - 1
  BY DEF Moved
<1> QED BY <1>1, <1>2, <1>3, LossServed

-----------------------------------------------------------------------------
(* The steps *)

StateInv(k, c, m) == KernelInv(k) /\ CallsOK(k, c) /\ LossFree(k, c, m) /\ RingOK(m)

\* No wait is ended by a timeout before its deadline.
Punctual(k, r) ==
    \A t \in UserSlots :
        (k.state[t] # "READY" /\ r.state[t] = "READY" /\ r.msg[t] = "TIMEOUT") => k.left[t] = 0

LEMMA PunctualChange ==
    ASSUME NEW k, NEW r, NEW S, NEW msg, Changed(k, r, S, msg),
           msg = "TIMEOUT" => \A t \in S : k.left[t] = 0
    PROVE  Punctual(k, r)
<1> SUFFICES ASSUME NEW t \in UserSlots, k.state[t] # "READY", r.state[t] = "READY", r.msg[t] = "TIMEOUT"
             PROVE  k.left[t] = 0
  BY DEF Punctual
<1>1. t \in S
  BY SlotsNat DEF Changed
<1>2. msg = "TIMEOUT"
  BY <1>1 DEF Changed
<1> QED BY <1>1, <1>2

LEMMA PunctualSleep ==
    ASSUME NEW k, NEW r, NEW S, NEW st, NEW w, NEW timed, WentToSleep(k, r, S, st, w, timed), st # "READY"
    PROVE  Punctual(k, r)
<1> SUFFICES ASSUME NEW t \in UserSlots, k.state[t] # "READY", r.state[t] = "READY", r.msg[t] = "TIMEOUT"
             PROVE  k.left[t] = 0
  BY DEF Punctual
<1>1. t \in S
  BY SlotsNat DEF WentToSleep
<1> QED BY <1>1 DEF WentToSleep

\* The call of a ready thread ends: its claim goes with it.
LEMMA AwakeDone ==
    ASSUME NEW k, NEW c, NEW d, NEW t \in Slots, d[t] = NoCall, \A u \in Slots \ {t} : d[u] = c[u]
    PROVE  \A q \in Queues :
               /\ Awake(k, d, q) = Awake(k, c, q) \ {t}
               /\ Cardinality(Awake(k, c, q)) <= Cardinality(Awake(k, d, q)) + 1
<1>1. ASSUME NEW q \in Queues
      PROVE  Awake(k, d, q) = Awake(k, c, q) \ {t}
  BY SlotsNat DEF Awake
<1>2. ASSUME NEW q \in Queues
      PROVE  Cardinality(Awake(k, c, q)) <= Cardinality(Awake(k, d, q)) + 1
  <2>1. IsFiniteSet(Awake(k, c, q)) /\ Cardinality(Awake(k, c, q)) \in Nat
    BY AwakeFinite
  <2>2. Cardinality(Awake(k, c, q) \ {t}) =
            IF t \in Awake(k, c, q) THEN Cardinality(Awake(k, c, q)) - 1 ELSE Cardinality(Awake(k, c, q))
    BY <2>1, FS_RemoveElement
  <2> QED BY <1>1, <2>1, <2>2
<1> QED BY <1>1, <1>2

\* A call of the running thread is served.
LEMMA ServeStep ==
    ASSUME StateInv(n, call, mb), NEW x \in Calls, ~ n.isr,
           call[n.current] = NoCall \/ call[n.current] = x,
           ~ mb.reset, Serviceable(x),
           NEW s, s = Served(x),
           NEW r, r = chSchRescheduleS(chThdDequeueNextI(n, PeerQueue(x), "OK")),
           NEW d, Assigned(call, d, n.current, NoCall)
    PROVE  StateInv(r, d, s) /\ Punctual(n, r) /\ \E S : Changed(n, r, S, "OK")
<1>1. /\ KernelInv(n) /\ CallsOK(n, call) /\ LossFree(n, call, mb) /\ RingOK(mb)
      /\ Waits(n) /\ n \in NilType /\ n.current \in Slots /\ n.state[n.current] = "READY"
  BY DEF StateInv, KernelInv, Waits, FirstOK, NilType
<1>2. PICK p \in Queues : p = PeerQueue(x)
  BY QueueNames
<1>3. PICK o \in Queues : o = OwnQueue(x)
  BY QueueNames
<1>4. o # p
  BY <1>2, <1>3, QueueNames
<1>5. KernelInv(r) /\ r.isr = n.isr /\ \E S : Told(n, r, S, p)
  BY <1>1, <1>2, TellByThread
<1>6. PICK S : Told(n, r, S, p)
  BY <1>5
<1>7. /\ S \in SUBSET Waiting(n, p) /\ Changed(n, r, S, "OK")
      /\ n.qcnt[p] < 0 => \E t \in UserSlots : S = {t}
      /\ n.qcnt[p] = 0 => S = {}
  BY <1>6 DEF Told
<1>8. /\ CallsOK(n, d) /\ d[n.current] = NoCall
      /\ \A u \in Slots \ {n.current} : d[u] = call[u]
  BY <1>1, CallsDone
<1>9. /\ \A q \in Queues : Awake(n, d, q) = Awake(n, call, q) \ {n.current}
      /\ Cardinality(Awake(n, call, o)) <= Cardinality(Awake(n, d, o)) + 1
  BY <1>1, <1>8, AwakeDone
<1>10. Awake(n, d, p) = Awake(n, call, p)
  <2>1. n.current \notin Awake(n, call, p)
    BY <1>2, <1>3, <1>4 DEF Awake
  <2> QED BY <1>9, <2>1
<1>11. /\ RingOK(s) /\ s.cnt \in 0 .. Size /\ s.reset = mb.reset /\ mb.cnt \in 0 .. Size
       /\ Stock(s, p) = Stock(mb, p) + 1 /\ Stock(s, o) = Stock(mb, o) - 1
  BY <1>1, <1>2, <1>3, ServedRing DEF RingOK
<1>12. LossFree(r, d, s)
  <2>1. Waits(r)
    BY <1>5 DEF KernelInv
  <2>2. Freed(n, call, d, p, o)
    BY <1>9, <1>10 DEF Freed
  <2>3. Moved(mb, s, p, o)
    BY <1>11 DEF Moved
  <2> QED BY <1>1, <1>4, <1>6, <1>8, <2>1, <2>2, <2>3, LossTold
<1>13. CallsOK(r, d)
  BY <1>1, <1>5, <1>7, <1>8, CallsWake
<1>14. Punctual(n, r)
  BY <1>7, PunctualChange
<1> QED BY <1>5, <1>7, <1>11, <1>12, <1>13, <1>14 DEF StateInv

\* A handler's call is served.
LEMMA CallIStep ==
    ASSUME StateInv(n, call, mb), NEW x \in Calls, call[n.current] = NoCall,
           ~ mb.reset, Serviceable(x),
           NEW s, s = Served(x),
           NEW r, r = chThdDequeueNextI(EnterIsr(n), PeerQueue(x), "OK")
    PROVE  StateInv(r, call, s) /\ Punctual(n, r) /\ \E S : Changed(n, r, S, "OK")
<1>1. /\ KernelInv(n) /\ CallsOK(n, call) /\ LossFree(n, call, mb) /\ RingOK(mb)
      /\ Waits(n) /\ n \in NilType
  BY DEF StateInv, KernelInv, Waits
<1>2. PICK p \in Queues : p = PeerQueue(x)
  BY QueueNames
<1>3. PICK o \in Queues : o = OwnQueue(x)
  BY QueueNames
<1>4. o # p
  BY <1>2, <1>3, QueueNames
<1>5. KernelInv(r) /\ r.isr = TRUE /\ r.current = n.current /\ \E S : Told(n, r, S, p)
  BY <1>1, <1>2, TellByHandler
<1>6. PICK S : Told(n, r, S, p)
  BY <1>5
<1>7. /\ S \in SUBSET Waiting(n, p) /\ Changed(n, r, S, "OK")
      /\ n.qcnt[p] < 0 => \E t \in UserSlots : S = {t}
      /\ n.qcnt[p] = 0 => S = {}
  BY <1>6 DEF Told
<1>9. Cardinality(Awake(n, call, o)) <= Cardinality(Awake(n, call, o)) + 1
  BY AwakeFinite
<1>11. /\ RingOK(s) /\ s.cnt \in 0 .. Size /\ s.reset = mb.reset /\ mb.cnt \in 0 .. Size
       /\ Stock(s, p) = Stock(mb, p) + 1 /\ Stock(s, o) = Stock(mb, o) - 1
  BY <1>1, <1>2, <1>3, ServedRing DEF RingOK
<1>12. LossFree(r, call, s)
  <2>1. Waits(r)
    BY <1>5 DEF KernelInv
  <2>2. Freed(n, call, call, p, o)
    BY <1>9 DEF Freed
  <2>3. Moved(mb, s, p, o)
    BY <1>11 DEF Moved
  <2> QED BY <1>1, <1>4, <1>6, <2>1, <2>2, <2>3, LossTold
<1>13. CallsOK(r, call)
  BY <1>1, <1>5, <1>7, CallsWake
<1>14. Punctual(n, r)
  BY <1>7, PunctualChange
<1> QED BY <1>5, <1>7, <1>11, <1>12, <1>13, <1>14 DEF StateInv

\* The running thread's call returns without having done anything: the
\* mailbox is in reset, or the thread was not woken for the mailbox, or it was
\* not inside a call before.
LEMMA ReturnStep ==
    ASSUME StateInv(n, call, mb),
           mb.reset \/ n.msg[n.current] # "OK" \/ call[n.current] = NoCall,
           NEW d, Assigned(call, d, n.current, NoCall)
    PROVE  StateInv(n, d, mb) /\ Punctual(n, n)
<1>1. /\ KernelInv(n) /\ CallsOK(n, call) /\ LossFree(n, call, mb) /\ RingOK(mb)
      /\ Waits(n) /\ n \in NilType /\ n.current \in Slots /\ n.state[n.current] = "READY"
  BY DEF StateInv, KernelInv, Waits, FirstOK, NilType
<1>2. /\ CallsOK(n, d) /\ d[n.current] = NoCall
      /\ \A u \in Slots \ {n.current} : d[u] = call[u]
  BY <1>1, CallsDone
<1>3. LossFree(n, d, mb)
  <2>1. CASE mb.reset
    <3>1. \A q \in Queues : n.qcnt[q] = 0
      BY <1>1, <2>1 DEF LossFree
    <3>2. \A q \in Queues : ~ (n.qcnt[q] < 0)
      BY <3>1
    <3> QED BY <3>1, <3>2 DEF LossFree
  <2>2. CASE ~ mb.reset
    <3>1. \A q \in Queues : Awake(n, d, q) = Awake(n, call, q) \ {n.current}
      BY <1>1, <1>2, AwakeDone
    <3>2. \A q \in Queues : n.current \notin Awake(n, call, q)
      BY <2>2 DEF Awake
    <3>3. \A q \in Queues : Awake(n, d, q) = Awake(n, call, q)
      BY <3>1, <3>2
    <3> QED BY <1>1, <3>3 DEF LossFree
  <2> QED BY <2>1, <2>2
<1> QED BY <1>1, <1>2, <1>3 DEF StateInv, Punctual

\* The call of the running thread blocks.
LEMMA BlockStep ==
    ASSUME StateInv(n, call, mb), NEW x \in Calls, ~ n.isr, n.current # Idle,
           call[n.current] = NoCall \/ call[n.current] = x,
           ~ mb.reset, ~ Serviceable(x), x.timeout # TIME_IMMEDIATE,
           NEW r, r = chThdEnqueueTimeoutS(n, OwnQueue(x), x.timeout),
           NEW d, Assigned(call, d, n.current, x)
    PROVE  /\ StateInv(r, d, mb) /\ Punctual(n, r)
           /\ \E S : WentToSleep(n, r, S, "WTQUEUE", OwnQueue(x), x.timeout # TIME_INFINITE)
           /\ d[n.current] = x /\ \A u \in Slots \ {n.current} : d[u] = call[u]
<1>1. /\ KernelInv(n) /\ CallsOK(n, call) /\ LossFree(n, call, mb) /\ RingOK(mb)
      /\ Waits(n) /\ n \in NilType /\ n.current \in Slots /\ n.state[n.current] = "READY"
      /\ n.current \in UserSlots
  BY SlotsNat DEF StateInv, KernelInv, Waits, FirstOK, NilType
<1>2. PICK p \in Queues : p = OwnQueue(x)
  BY QueueNames
<1>3. x.timeout \in 0 .. Width - 2
  <2>1. x.timeout \in 0 .. Width - 1 /\ x.timeout # Width - 1
    BY CallFields, MailboxAssumption DEF Times, TIME_IMMEDIATE
  <2> QED BY <2>1, Widths
<1>4. /\ KernelInv(r)
      /\ \E S : WentToSleep(n, r, S, "WTQUEUE", p, x.timeout # TIME_INFINITE)
  BY <1>1, <1>2, <1>3, EnqueueSleeps
<1>5. PICK S : WentToSleep(n, r, S, "WTQUEUE", p, x.timeout # TIME_INFINITE)
  BY <1>4
<1>6. r \in NilType /\ Waits(r)
  BY <1>4 DEF KernelInv, Waits
<1>7. /\ CallsOK(r, d) /\ d[n.current] = x
      /\ \A u \in Slots \ {n.current} : d[u] = call[u]
  BY <1>1, <1>2, <1>5, <1>6, CallsBlock
<1>8. Stock(mb, p) = 0
  <2>1. mb.cnt \in 0 .. Size
    BY <1>1 DEF RingOK
  <2> QED BY <1>2, <2>1, SizeNat DEF Stock, OwnQueue, Serviceable, chMBGetUsedCountI, chMBGetFreeCountI
<1>9. ASSUME NEW q \in Queues, r.qcnt[q] < 0
      PROVE  Stock(mb, q) <= Cardinality(Awake(r, d, q))
  <2>1. CASE q = p
    <3>1. Cardinality(Awake(r, d, q)) \in Nat
      BY AwakeFinite
    <3> QED BY <1>8, <2>1, <3>1
  <2>2. CASE q # p
    <3>1. \A u \in UserSlots : u # n.current /\ u \notin S =>
             r.state[u] = n.state[u] /\ r.msg[u] = n.msg[u] /\ r.wtobj[u] = n.wtobj[u] /\ d[u] = call[u]
      BY <1>5, <1>7, SlotsNat DEF WentToSleep
    <3>2. \A u \in S : r.state[u] = "READY" /\ r.msg[u] = "TIMEOUT" /\ n.state[u] # "READY"
      BY <1>1, <1>5, SlotsNat DEF WentToSleep, Waits
    <3>3. r.state[n.current] = "WTQUEUE" /\ r.wtobj[n.current] = p
      BY <1>5 DEF WentToSleep
    <3>4. Waiting(r, q) \subseteq Waiting(n, q)
      BY <2>2, <3>1, <3>2, <3>3 DEF Waiting
    <3>5. Awake(r, d, q) = Awake(n, call, q)
      <4>1. n.current \notin Awake(n, call, q) /\ n.current \notin Awake(r, d, q)
        BY <1>2, <2>2, <3>3 DEF Awake
      <4>2. \A u \in UserSlots : u # n.current => (u \in Awake(r, d, q) <=> u \in Awake(n, call, q))
        BY <3>1, <3>2 DEF Awake
      <4>3. Awake(r, d, q) \subseteq UserSlots /\ Awake(n, call, q) \subseteq UserSlots
        BY DEF Awake
      <4>4. \A u : u \in Awake(r, d, q) <=> u \in Awake(n, call, q)
        BY <4>1, <4>2, <4>3
      <4> QED BY <4>4
    <3>6. n.qcnt[q] <= r.qcnt[q] /\ n.qcnt[q] \in Int /\ r.qcnt[q] \in Int
      BY <1>1, <1>6, <3>4, FewerWaiting
    <3>7. n.qcnt[q] < 0
      BY <1>9, <3>6
    <3> QED BY <1>1, <3>5, <3>7 DEF LossFree
  <2> QED BY <2>1, <2>2
<1>10. LossFree(r, d, mb)
  BY <1>9 DEF LossFree
<1>11. Punctual(n, r)
  BY <1>5, PunctualSleep
<1> QED BY <1>1, <1>2, <1>4, <1>5, <1>7, <1>10, <1>11 DEF StateInv

\* A reset: nobody waits afterwards, and the ring is empty.
LEMMA ResetStep ==
    ASSUME StateInv(n, call, mb),
           NEW r, KernelInv(r), AllTold(n, r), call[r.current] # NoCall => ~ r.isr,
           NEW s, s = ResetMailbox
    PROVE  StateInv(r, call, s) /\ Punctual(n, r)
<1>1. KernelInv(n) /\ CallsOK(n, call) /\ RingOK(mb) /\ n \in NilType
  BY DEF StateInv, KernelInv, Waits
<1>2. PICK S : S = Waiting(n, "qw") \union Waiting(n, "qr")
  OBVIOUS
<1>3. Changed(n, r, S, "RESET") /\ \A q \in Queues : r.qcnt[q] = 0
  BY <1>2 DEF AllTold
<1>4. CallsOK(r, call)
  <2>1. "RESET" # "TIMEOUT"
    OBVIOUS
  <2> QED BY <1>1, <1>3, <2>1, CallsWake
<1>5. Punctual(n, r)
  BY <1>3, PunctualChange
<1>6. LossFree(r, call, s)
  <2>1. \A q \in Queues : ~ (r.qcnt[q] < 0)
    BY <1>3
  <2> QED BY <1>3, <2>1 DEF LossFree
<1>7. RingOK(s)
  <2>1. 0 \in 0 .. Size - 1 /\ 0 \in 0 .. Size /\ 0 + 0 < Size /\ 0 + 0 = 0
    BY SizeNat
  <2>2. s \in [buffer : [0 .. Size - 1 -> Msgs \union {NoMsg}], rdptr : 0 .. Size - 1,
               wrptr : 0 .. Size - 1, cnt : 0 .. Size, reset : BOOLEAN]
    BY <1>1, <2>1 DEF RingOK, ResetMailbox
  <2>3. s.wrptr = 0 /\ s.rdptr = 0 /\ s.cnt = 0
    BY <1>1 DEF RingOK, ResetMailbox
  <2> QED BY <2>1, <2>2, <2>3 DEF RingOK
<1> QED BY <1>4, <1>5, <1>6, <1>7 DEF StateInv

\* chMBResumeX(): nobody waits while the mailbox is in reset.
LEMMA ResumeStep ==
    ASSUME StateInv(n, call, mb), mb.reset, NEW s, s = [mb EXCEPT !.reset = FALSE]
    PROVE  StateInv(n, call, s) /\ Punctual(n, n)
<1>1. KernelInv(n) /\ CallsOK(n, call) /\ LossFree(n, call, mb) /\ RingOK(mb)
  BY DEF StateInv
<1>2. LossFree(n, call, s)
  <2>1. \A q \in Queues : n.qcnt[q] = 0
    BY <1>1 DEF LossFree
  <2>2. \A q \in Queues : ~ (n.qcnt[q] < 0)
    BY <2>1
  <2> QED BY <2>1, <2>2 DEF LossFree
<1>3. RingOK(s)
  BY <1>1 DEF RingOK
<1> QED BY <1>1, <1>2, <1>3 DEF StateInv, Punctual

\* The running thread sleeps.
LEMMA NapStep ==
    ASSUME StateInv(n, call, mb), ~ n.isr, n.current # Idle, call[n.current] = NoCall,
           NEW i \in Naps, NEW r, r = chSchGoSleepTimeoutS(n, "SLEEPING", i)
    PROVE  /\ StateInv(r, call, mb) /\ Punctual(n, r)
           /\ \E S, w : WentToSleep(n, r, S, "SLEEPING", w, TRUE)
<1>1. /\ KernelInv(n) /\ CallsOK(n, call) /\ LossFree(n, call, mb) /\ RingOK(mb)
      /\ Waits(n) /\ n.current \in UserSlots
  BY SlotsNat DEF StateInv, KernelInv, Waits, NilType
<1>2. i \in 1 .. Width - 2
  BY MailboxAssumption DEF TIME_MAX_INTERVAL
<1>3. PICK w : w = n.wtobj[n.current]
  OBVIOUS
<1>4. KernelInv(r) /\ \E S : WentToSleep(n, r, S, "SLEEPING", w, TRUE)
  BY <1>1, <1>2, <1>3, SleepSleeps
<1>5. PICK S : WentToSleep(n, r, S, "SLEEPING", w, TRUE)
  BY <1>4
<1>6. r \in NilType /\ Waits(r)
  BY <1>4 DEF KernelInv, Waits
<1>7. CallsOK(r, call)
  BY <1>1, <1>5, <1>6, CallsNap
<1>8. Punctual(n, r)
  BY <1>5, PunctualSleep
<1>9. ASSUME NEW q \in Queues
      PROVE  Waiting(r, q) \subseteq Waiting(n, q) /\ Awake(r, call, q) = Awake(n, call, q)
  <2>1. \A u \in UserSlots : u # n.current /\ u \notin S =>
           r.state[u] = n.state[u] /\ r.msg[u] = n.msg[u] /\ r.wtobj[u] = n.wtobj[u]
    BY <1>5, SlotsNat DEF WentToSleep
  <2>2. \A u \in S : r.state[u] = "READY" /\ r.msg[u] = "TIMEOUT" /\ n.state[u] # "READY"
    BY <1>1, <1>5, SlotsNat DEF WentToSleep, Waits
  <2>3. r.state[n.current] = "SLEEPING"
    BY <1>5 DEF WentToSleep
  <2>4. Waiting(r, q) \subseteq Waiting(n, q)
    BY <2>1, <2>2, <2>3 DEF Waiting
  <2>5. \A u \in UserSlots : u \in Awake(r, call, q) <=> u \in Awake(n, call, q)
    BY <2>1, <2>2, <2>3 DEF Awake
  <2>6. Awake(r, call, q) \subseteq UserSlots /\ Awake(n, call, q) \subseteq UserSlots
    BY DEF Awake
  <2>7. \A u : u \in Awake(r, call, q) <=> u \in Awake(n, call, q)
    BY <2>5, <2>6
  <2>8. Awake(r, call, q) = Awake(n, call, q)
    BY <2>7
  <2> QED BY <2>4, <2>8
<1>10. LossFree(r, call, mb)
  BY <1>1, <1>6, <1>9, LossKept
<1> QED BY <1>1, <1>4, <1>5, <1>7, <1>8, <1>10 DEF StateInv

\* What the kernel does by itself: waits that are over end, nothing else.
LEMMA KernelStep ==
    ASSUME StateInv(n, call, mb),
           NEW r, KernelInv(r), call[r.current] # NoCall => ~ r.isr,
           NEW S, Changed(n, r, S, "TIMEOUT"), \A t \in S : n.timeout[t] > 0 /\ n.left[t] = 0
    PROVE  StateInv(r, call, mb) /\ Punctual(n, r)
<1>1. /\ KernelInv(n) /\ CallsOK(n, call) /\ LossFree(n, call, mb) /\ RingOK(mb)
      /\ Waits(n) /\ n \in NilType /\ Waits(r)
  BY DEF StateInv, KernelInv, Waits
<1>2. CallsOK(r, call)
  BY <1>1, CallsWake
<1>3. Punctual(n, r)
  BY PunctualChange
<1>4. \A q \in Queues : Waiting(r, q) \subseteq Waiting(n, q)
  BY WaitingChanged
<1>5. \A q \in Queues : Awake(r, call, q) = Awake(n, call, q)
  <2>1. "TIMEOUT" # "OK"
    OBVIOUS
  <2> QED BY <2>1, AwakeQuiet
<1>6. LossFree(r, call, mb)
  BY <1>1, <1>4, <1>5, LossKept
<1> QED BY <1>1, <1>2, <1>3, <1>6 DEF StateInv

\* What the interrupts of the kernel do.
LEMMA InterruptChanges ==
    ASSUME StateInv(n, call, mb), Tick \/ TimerHandler \/ ExitIsr
    PROVE  /\ KernelInv(n') /\ (call[n'.current] # NoCall => ~ n'.isr)
           /\ \E S : Changed(n, n', S, "TIMEOUT") /\ \A t \in S : n.timeout[t] > 0 /\ n.left[t] = 0
<1> PICK r : r = n'
  OBVIOUS
<1>1. KernelInv(n)
  BY DEF StateInv
<1>2. CASE Tick
  <2>1. TickEnabled(n) /\ r = ClockTick(n) /\ call[n.current] = NoCall
    BY <1>2 DEF Tick, Unlocked, Resuming
  <2>2. KernelInv(r) /\ SameThreads(n, r) /\ r.timeout = n.timeout /\ r.current = n.current
    BY <1>1, <2>1, TickKeeps
  <2>3. Changed(n, r, {}, "TIMEOUT")
    BY <2>2, NothingChanged
  <2> QED BY <2>1, <2>2, <2>3
<1>3. CASE ExitIsr
  <2>1. IsrExitEnabled(n) /\ r = IsrExit(n)
    BY <1>3 DEF ExitIsr
  <2>2. KernelInv(r) /\ SameThreads(n, r) /\ r.timeout = n.timeout /\ r.isr = FALSE
    BY <1>1, <2>1, IsrExitKeeps
  <2>3. Changed(n, r, {}, "TIMEOUT")
    BY <2>2, NothingChanged
  <2> QED BY <2>2, <2>3
<1>4. CASE TimerHandler
  <2>1. /\ \/ n.pending /\ r = HandlerStart(n)
           \/ n.scan \in UserSlots /\ r = HandlerStep(n)
           \/ n.scan = MaxThreads /\ r = HandlerEnd(n)
        /\ call[n.current] = NoCall
    BY <1>4 DEF TimerHandler, Unlocked, Resuming
  <2>2. /\ KernelInv(r) /\ r.current = n.current
        /\ \E S : Changed(n, r, S, "TIMEOUT") /\ \A t \in S : n.timeout[t] > 0 /\ n.left[t] = 0
    BY <1>1, <2>1, HandlerChanges
  <2> QED BY <2>1, <2>2
<1> QED BY <1>2, <1>3, <1>4

\* One iteration of the loop of a call, fresh or retried.
LEMMA IterationStep ==
    ASSUME StateInv(n, call, mb), NEW x \in Calls, ~ n.isr, n.current # Idle, Iteration(x),
           call[n.current] = NoCall \/ (call[n.current] = x /\ x.timeout # TIME_IMMEDIATE)
    PROVE  StateInv(n', call', mb') /\ Punctual(n, n')
<1> PICK r : r = n'
  OBVIOUS
<1> PICK d : d = call'
  OBVIOUS
<1> PICK s : s = mb'
  OBVIOUS
<1>1. CASE mb.reset /\ call' = [call EXCEPT ![n.current] = NoCall] /\ UNCHANGED <<n, mb>>
  <2>1. Assigned(call, d, n.current, NoCall) /\ r = n /\ s = mb
    BY <1>1 DEF Assigned
  <2>2. StateInv(n, d, mb) /\ Punctual(n, n)
    BY <1>1, <2>1, ReturnStep
  <2> QED BY <2>1, <2>2
<1>2. CASE /\ ~ mb.reset /\ Serviceable(x) /\ mb' = Served(x)
           /\ n' = chSchRescheduleS(chThdDequeueNextI(n, PeerQueue(x), "OK"))
           /\ call' = [call EXCEPT ![n.current] = NoCall]
  <2>1. /\ Assigned(call, d, n.current, NoCall) /\ s = Served(x)
        /\ r = chSchRescheduleS(chThdDequeueNextI(n, PeerQueue(x), "OK"))
    BY <1>2 DEF Assigned
  <2>2. StateInv(r, d, s) /\ Punctual(n, r)
    BY <1>2, <2>1, ServeStep
  <2> QED BY <2>2
<1>3. CASE /\ ~ mb.reset /\ ~ Serviceable(x) /\ x.timeout = TIME_IMMEDIATE
           /\ call' = [call EXCEPT ![n.current] = NoCall] /\ UNCHANGED <<n, mb>>
  <2>1. Assigned(call, d, n.current, NoCall) /\ r = n /\ s = mb /\ call[n.current] = NoCall
    BY <1>3 DEF Assigned
  <2>2. StateInv(n, d, mb) /\ Punctual(n, n)
    BY <2>1, ReturnStep
  <2> QED BY <2>1, <2>2
<1>4. CASE /\ ~ mb.reset /\ ~ Serviceable(x) /\ x.timeout # TIME_IMMEDIATE
           /\ n' = chThdEnqueueTimeoutS(n, OwnQueue(x), x.timeout)
           /\ call' = [call EXCEPT ![n.current] = x] /\ UNCHANGED mb
  <2>1. /\ Assigned(call, d, n.current, x) /\ s = mb
        /\ r = chThdEnqueueTimeoutS(n, OwnQueue(x), x.timeout)
    BY <1>4 DEF Assigned
  <2>2. StateInv(r, d, mb) /\ Punctual(n, r)
    BY <1>4, <2>1, BlockStep
  <2> QED BY <2>1, <2>2
<1> QED BY <1>1, <1>2, <1>3, <1>4 DEF Iteration, Refused

\* The thread that runs and is inside of a call.
LEMMA ResumingThread ==
    ASSUME StateInv(n, call, mb), Resuming
    PROVE  /\ call[n.current] \in Calls /\ n.current \in UserSlots /\ n.current # Idle /\ ~ n.isr
           /\ call[n.current].timeout # TIME_IMMEDIATE /\ n.state[n.current] = "READY"
           /\ n.msg[n.current] = "TIMEOUT" => call[n.current].timeout # TIME_INFINITE
<1>1. /\ CallsOK(n, call) /\ n.current \in Slots /\ n.state[n.current] = "READY"
  BY DEF StateInv, KernelInv, Waits, FirstOK, NilType
<1>2. n.current \in UserSlots /\ n.current # Idle /\ ~ n.isr /\ call[n.current] \in Calls
  BY <1>1, SlotsNat DEF CallsOK, Resuming
<1>3. CallOK(n, call, n.current)
  BY <1>1, <1>2 DEF CallsOK
<1> QED BY <1>1, <1>2, <1>3 DEF CallOK, Resuming

\* Every step keeps the invariant, and ends no wait early.
LEMMA StepKeeps ==
    ASSUME Inv, Next
    PROVE  StateInv(n', call', mb') /\ Punctual(n, n')
<1>0. StateInv(n, call, mb)
  BY DEF Inv, StateInv
<1> PICK r : r = n'
  OBVIOUS
<1> PICK d : d = call'
  OBVIOUS
<1> PICK s : s = mb'
  OBVIOUS
<1>1. ASSUME NEW x \in Calls, StartCall(x)
      PROVE  StateInv(n', call', mb') /\ Punctual(n, n')
  <2>1. ~ n.isr /\ n.current # Idle /\ call[n.current] = NoCall /\ Iteration(x)
    BY <1>1 DEF StartCall, Caller, Unlocked, Resuming
  <2> QED BY <1>0, <2>1, IterationStep
<1>2. CASE Retry
  <2>1. Resuming /\ Iteration(call[n.current])
    BY <1>2 DEF Retry
  <2>2. /\ call[n.current] \in Calls /\ n.current # Idle /\ ~ n.isr
        /\ call[n.current].timeout # TIME_IMMEDIATE
    BY <1>0, <2>1, ResumingThread
  <2>3. PICK x \in Calls : x = call[n.current]
    BY <2>2
  <2>4. Iteration(x) /\ x.timeout # TIME_IMMEDIATE
    BY <2>1, <2>2, <2>3
  <2> QED BY <1>0, <2>2, <2>3, <2>4, IterationStep
<1>3. CASE ReturnFailure
  <2>1. Assigned(call, d, n.current, NoCall) /\ r = n /\ s = mb /\ n.msg[n.current] # "OK"
    BY <1>3 DEF ReturnFailure, Assigned
  <2>2. StateInv(n, d, mb) /\ Punctual(n, n)
    BY <1>0, <2>1, ReturnStep
  <2> QED BY <2>1, <2>2
<1>4. ASSUME NEW x \in Calls, CallI(x)
      PROVE  StateInv(n', call', mb') /\ Punctual(n, n')
  <2>1. /\ call[n.current] = NoCall /\ ~ mb.reset /\ Serviceable(x) /\ s = Served(x) /\ d = call
        /\ r = chThdDequeueNextI(EnterIsr(n), PeerQueue(x), "OK")
    BY <1>4 DEF CallI, Unlocked, Resuming, Refused
  <2>2. StateInv(r, call, s) /\ Punctual(n, r)
    BY <1>0, <2>1, CallIStep
  <2> QED BY <2>1, <2>2
<1>5. CASE chMBResetI
  <2>1. call[n.current] = NoCall /\ s = ResetMailbox /\ d = call /\ r = WakeAll(EnterIsr(n))
    BY <1>5 DEF chMBResetI, Unlocked, Resuming
  <2>2. KernelInv(n)
    BY <1>0 DEF StateInv
  <2>3. KernelInv(r) /\ r.current = n.current /\ AllTold(n, r)
    BY <2>1, <2>2, TellAllByHandler
  <2>4. StateInv(r, call, s) /\ Punctual(n, r)
    BY <1>0, <2>1, <2>3, ResetStep
  <2> QED BY <2>1, <2>4
<1>6. CASE chMBReset
  <2>1. ~ n.isr /\ s = ResetMailbox /\ d = call /\ r = chSchRescheduleS(WakeAll(n))
    BY <1>6 DEF chMBReset, Caller
  <2>2. KernelInv(n)
    BY <1>0 DEF StateInv
  <2>3. KernelInv(r) /\ r.isr = n.isr /\ AllTold(n, r)
    BY <2>1, <2>2, TellAllByThread
  <2>4. StateInv(r, call, s) /\ Punctual(n, r)
    BY <1>0, <2>1, <2>3, ResetStep
  <2> QED BY <2>1, <2>4
<1>7. CASE chMBResumeX
  <2>1. mb.reset /\ s = [mb EXCEPT !.reset = FALSE] /\ r = n /\ d = call
    BY <1>7 DEF chMBResumeX
  <2>2. StateInv(n, call, s) /\ Punctual(n, n)
    BY <1>0, <2>1, ResumeStep
  <2> QED BY <2>1, <2>2
<1>8. ASSUME NEW i \in Naps, chThdSleepS(i)
      PROVE  StateInv(n', call', mb') /\ Punctual(n, n')
  <2>1. /\ ~ n.isr /\ n.current # Idle /\ call[n.current] = NoCall /\ s = mb /\ d = call
        /\ r = chSchGoSleepTimeoutS(n, "SLEEPING", i)
    BY <1>8 DEF chThdSleepS, Caller, Unlocked, Resuming
  <2>2. StateInv(r, call, mb) /\ Punctual(n, r)
    BY <1>0, <2>1, NapStep
  <2> QED BY <2>1, <2>2
<1>9. CASE Tick \/ TimerHandler \/ ExitIsr
  <2>1. s = mb /\ d = call
    BY <1>9 DEF Tick, TimerHandler, ExitIsr
  <2>2. /\ KernelInv(r) /\ (call[r.current] # NoCall => ~ r.isr)
        /\ \E S : Changed(n, r, S, "TIMEOUT") /\ \A t \in S : n.timeout[t] > 0 /\ n.left[t] = 0
    BY <1>0, <1>9, InterruptChanges
  <2>3. PICK S : Changed(n, r, S, "TIMEOUT") /\ \A t \in S : n.timeout[t] > 0 /\ n.left[t] = 0
    BY <2>2
  <2>4. StateInv(r, call, mb) /\ Punctual(n, r)
    BY <1>0, <2>2, <2>3, KernelStep
  <2> QED BY <2>1, <2>4
<1> QED BY <1>1, <1>2, <1>3, <1>4, <1>5, <1>6, <1>7, <1>8, <1>9 DEF Next

LEMMA InitInv ==
    ASSUME Init
    PROVE  StateInv(n, call, mb)
<1>1. /\ 0 \in Slots /\ 0 \in Times /\ Idle \in Slots /\ NoScan \in Slots \union {NoScan}
      /\ 0 \in - MaxThreads .. 0
  BY Widths, SlotsNat DEF Slots, Times
<1>2. n \in NilType
  BY <1>1 DEF Init, NilInit, NilType
<1>3. /\ n.current = 0 /\ n.next = 0 /\ n.isr = FALSE /\ n.started = FALSE /\ n.pending = FALSE
      /\ n.scan = NoScan
      /\ \A t \in Slots : n.state[t] = "READY" /\ n.timeout[t] = 0 /\ n.left[t] = 0 /\ n.msg[t] = "OK"
      /\ \A q \in Queues : n.qcnt[q] = 0
  BY DEF Init, NilInit
<1>4. Waits(n)
  <2>1. ASSUME NEW q \in Queues
        PROVE  n.qcnt[q] = - Cardinality(Waiting(n, q))
    <3>1. Waiting(n, q) = {}
      BY <1>3, SlotsNat DEF Waiting
    <3>2. Cardinality(Waiting(n, q)) = 0
      BY <3>1, FS_EmptySet
    <3> QED BY <1>3, <3>2
  <2> QED BY <1>1, <1>2, <1>3, <2>1 DEF Waits, QueueCountersExact
<1>5. FirstOK(n) /\ Runs(n)
  BY <1>1, <1>3, SlotsNat DEF FirstOK, Runs
<1>6. TimeOK(n)
  BY <1>3 DEF TimeOK, AlarmOK
<1>7. CallsOK(n, call)
  <2>1. \A t \in Slots : call[t] = NoCall
    BY DEF Init
  <2>2. call \in [Slots -> Calls \union {NoCall}]
    BY DEF Init
  <2>3. ASSUME NEW t \in UserSlots
        PROVE  CallOK(n, call, t)
    <3>1. t \in Slots
      BY SlotsNat
    <3> QED BY <1>3, <2>1, <3>1 DEF CallOK
  <2> QED BY <1>1, <1>3, <2>1, <2>2, <2>3 DEF CallsOK
<1>8. LossFree(n, call, mb)
  <2>1. \A q \in Queues : ~ (n.qcnt[q] < 0)
    BY <1>3
  <2> QED BY <1>3, <2>1 DEF LossFree
<1>9. RingOK(mb)
  <2>1. 0 \in 0 .. Size - 1 /\ 0 \in 0 .. Size /\ 0 + 0 < Size /\ 0 + 0 = 0
    BY SizeNat
  <2> QED BY <2>1 DEF RingOK, Init
<1> QED BY <1>4, <1>5, <1>6, <1>7, <1>8, <1>9 DEF StateInv, KernelInv

\* Inv is inductive.
LEMMA Inductive == Spec => []Inv
<1>1. Init => Inv
  BY InitInv DEF Inv, StateInv
<1>2. Inv /\ [Next]_vars => Inv'
  <2> SUFFICES ASSUME Inv, [Next]_vars
               PROVE  Inv'
    OBVIOUS
  <2>1. CASE Next
    <3>1. StateInv(n', call', mb')
      BY <2>1, StepKeeps
    <3> QED BY <3>1 DEF Inv, StateInv
  <2>2. CASE UNCHANGED vars
    BY <2>2 DEF Inv, vars
  <2> QED BY <2>1, <2>2
<1> QED BY <1>1, <1>2, PTL DEF Spec

-----------------------------------------------------------------------------
(* The theorems *)

\* The fields of the kernel, of the mailbox and of the blocked calls keep their
\* types: pointers stay inside of the buffer, counters of queues inside of the
\* number of threads, times inside of the width of the counter.
THEOREM MailboxTypeCorrect == Spec => []TypeOK
<1>1. Inv => TypeOK
  BY DEF Inv, KernelInv, Waits, CallsOK, RingOK, TypeOK
<1> QED BY <1>1, Inductive, PTL

\* For every number of threads: next is the first ready thread and runs out of
\* the handlers, and a queue's counter is the number of the threads that wait
\* on it, so that nil_find_thread() and nil_ready_all() find what they scan for.
THEOREM KernelSound == Spec => []KernelOK
<1>1. Inv => KernelOK
  <2> SUFFICES ASSUME Inv
               PROVE  KernelOK
    OBVIOUS
  <2>1. Waits(n) /\ FirstOK(n) /\ Runs(n)
    BY DEF Inv, KernelInv
  <2>2. NextExact(n)
    BY <2>1, NextIsMin
  <2> QED BY <2>1, <2>2 DEF KernelOK, Waits
<1> QED BY <1>1, Inductive, PTL

\* For every size of the ring and number of threads: while threads are queued,
\* each message, or free slot, has a woken thread coming for it.
THEOREM NoWakeupIsLost == Spec => []NoLostWakeup
<1>1. Inv => NoLostWakeup
  <2> SUFFICES ASSUME Inv
               PROVE  NoLostWakeup
    OBVIOUS
  <2>1. LossFree(n, call, mb) /\ CallsOK(n, call) /\ n \in NilType
    BY DEF Inv, KernelInv, Waits
  <2>2. \A t \in UserSlots : call[t] # NoCall => call[t].op \in {"post", "ahead", "fetch"}
    BY <2>1, SlotsNat, CallFields DEF CallsOK
  <2>3. Woken({"fetch"}) = Awake(n, call, "qr")
    BY <2>2 DEF Woken, Awake, OwnQueue
  <2>4. Woken({"post", "ahead"}) = Awake(n, call, "qw")
    BY <2>2 DEF Woken, Awake, OwnQueue
  <2>5. "qr" \in Queues /\ "qw" \in Queues
    BY QueueNames
  <2>6. n.qcnt["qr"] < 0 => mb.cnt <= Cardinality(Woken({"fetch"}))
    <3>1. n.qcnt["qr"] < 0 => Stock(mb, "qr") <= Cardinality(Awake(n, call, "qr"))
      BY <2>1, <2>5 DEF LossFree
    <3>2. Stock(mb, "qr") = mb.cnt
      BY DEF Stock
    <3> QED BY <2>3, <3>1, <3>2
  <2>7. n.qcnt["qw"] < 0 => Size - mb.cnt <= Cardinality(Woken({"post", "ahead"}))
    <3>1. n.qcnt["qw"] < 0 => Stock(mb, "qw") <= Cardinality(Awake(n, call, "qw"))
      BY <2>1, <2>5 DEF LossFree
    <3>2. Stock(mb, "qw") = Size - mb.cnt
      BY DEF Stock
    <3> QED BY <2>4, <3>1, <3>2
  <2>8. mb.reset => n.qcnt = [q \in Queues |-> 0]
    <3>1. n.qcnt \in [Queues -> - MaxThreads .. 0]
      BY <2>1 DEF NilType
    <3>2. mb.reset => \A q \in Queues : n.qcnt[q] = 0
      BY <2>1 DEF LossFree
    <3> QED BY <3>1, <3>2
  <2> QED BY <2>6, <2>7, <2>8 DEF NoLostWakeup
<1> QED BY <1>1, Inductive, PTL

\* For every width of the counter and number of threads: between interrupts the
\* stored intervals end at the deadlines, the alarm is not behind any of them,
\* and the interrupt of a deadline is pending when it comes.
THEOREM TimeoutsAlwaysExact == Spec => []TimeoutsExact
<1>1. Inv => TimeoutsExact
  <2> SUFFICES ASSUME Inv
               PROVE  TimeoutsExact
    OBVIOUS
  <2>1. Waits(n) /\ TimeOK(n)
    BY DEF Inv, KernelInv
  <2>2. ASSUME NEW t \in UserSlots, n.timeout[t] > 0, n.scan = NoScan
        PROVE  /\ n.timeout[t] = chTimeDiffX(n.lasttime, n.clock) + n.left[t]
               /\ n.started
               /\ n.left[t] = 0 => n.pending
               /\ n.pending \/ chTimeDiffX(n.clock, n.alarm) \in 1 .. n.left[t]
    <3>1. IntervalOK(n, t)
      BY <2>1, <2>2, SlotsNat DEF TimeOK
    <3> QED BY <2>2, <3>1 DEF IntervalOK, Ago, Ahead
  <2>3. \A t \in UserSlots : n.timeout[t] = 0 => n.left[t] = 0
    BY <2>1, SlotsNat DEF Waits
  <2> QED BY <2>2, <2>3 DEF TimeoutsExact
<1> QED BY <1>1, Inductive, PTL

\* No step ends a wait with MSG_TIMEOUT before its deadline: not the handler of
\* the timer, not the moving of the origin, not another handler in between.
THEOREM TimeoutsNeverEarly == Spec => NeverEarly
<1>1. Inv /\ [Next]_vars =>
        [\A t \in UserSlots :
            (n.state[t] # "READY" /\ n'.state[t] = "READY" /\ n'.msg[t] = "TIMEOUT")
                => n.left[t] = 0]_vars
  <2> SUFFICES ASSUME Inv, Next
               PROVE  \A t \in UserSlots :
                        (n.state[t] # "READY" /\ n'.state[t] = "READY" /\ n'.msg[t] = "TIMEOUT")
                            => n.left[t] = 0
    OBVIOUS
  <2>1. Punctual(n, n')
    BY StepKeeps
  <2> QED BY <2>1 DEF Punctual
<1> QED BY <1>1, Inductive, PTL DEF Spec, NeverEarly

-----------------------------------------------------------------------------
(* The refinement.  The abstract variables as functions of the state. *)

\* The message at position i.
At(m, i) == m.buffer[(m.rdptr + i - 1) % Size]

Contents(m) == [i \in 1 .. m.cnt |-> At(m, i)]

View(x) == [take |-> x.op = "fetch", timed |-> x.timeout # TIME_INFINITE]

Blocked(c) == [t \in UserSlots |-> IF c[t] = NoCall THEN NoCall ELSE View(c[t])]

Shaken(k, c) == {t \in UserSlots : c[t] # NoCall /\ k.state[t] = "READY" /\ k.msg[t] = "RESET"}

\* The slot of a position: the read pointer ahead, around the end of the ring.
LEMMA SlotOf ==
    ASSUME NEW a \in 0 .. Size - 1, NEW i \in 1 .. Size
    PROVE  /\ (a + i - 1) % Size = IF a + (i - 1) < Size THEN a + (i - 1) ELSE (a + (i - 1)) - Size
           /\ (a + i - 1) % Size \in 0 .. Size - 1
<1>1. Size \in Nat \ {0} /\ a \in Int /\ 0 <= a /\ a < Size /\ i \in Int /\ 1 <= i /\ i <= Size
  BY SizeNat
<1>2. a + i - 1 = a + (i - 1) /\ a + (i - 1) \in Int /\ 0 <= a + (i - 1) /\ a + (i - 1) < 2 * Size
  BY <1>1
<1>3. CASE a + (i - 1) < Size
  BY <1>1, <1>2, <1>3, ModSmall
<1>4. CASE ~ (a + (i - 1) < Size)
  <2>1. PICK y \in Int : y = a + (i - 1)
    BY <1>2
  <2>2. Size <= y /\ y - Size < Size
    BY <1>1, <1>2, <1>4, <2>1
  <2>3. y % Size = y - Size
    BY <1>1, <2>2, ModAbove
  <2> QED BY <1>1, <1>2, <1>4, <2>1, <2>2, <2>3
<1> QED BY <1>3, <1>4

LEMMA ContentsSeq ==
    ASSUME NEW m, RingOK(m)
    PROVE  /\ Contents(m) \in Seq(Msgs \union {NoMsg}) /\ Len(Contents(m)) = m.cnt /\ m.cnt \in 0 .. Size
           /\ \A i \in 1 .. m.cnt : Contents(m)[i] = At(m, i)
<1>1. /\ m.buffer \in [0 .. Size - 1 -> Msgs \union {NoMsg}] /\ m.rdptr \in 0 .. Size - 1
      /\ m.cnt \in 0 .. Size
  BY DEF RingOK
<1>2. m.cnt \in Nat /\ m.cnt <= Size
  BY <1>1, SizeNat
<1>3. ASSUME NEW i \in 1 .. m.cnt
      PROVE  At(m, i) \in Msgs \union {NoMsg}
  <2>1. i \in 1 .. Size
    BY <1>2, SizeNat
  <2>2. (m.rdptr + i - 1) % Size \in 0 .. Size - 1
    BY <1>1, <2>1, SlotOf
  <2> QED BY <1>1, <2>2 DEF At
<1>4. Contents(m) \in [1 .. m.cnt -> Msgs \union {NoMsg}]
  BY <1>3 DEF Contents
<1>5. Contents(m) \in Seq(Msgs \union {NoMsg})
  BY <1>2, <1>4, SeqDef
<1>6. DOMAIN Contents(m) = 1 .. m.cnt
  BY <1>4
<1>7. Len(Contents(m)) = m.cnt
  BY <1>2, <1>5, <1>6, LenProperties
<1> QED BY <1>1, <1>5, <1>7 DEF Contents

\* A message at the end.
LEMMA WriteAppends ==
    ASSUME NEW m, RingOK(m), m.cnt < Size, NEW x \in Msgs
    PROVE  Contents(Write(m, x)) = Append(Contents(m), x)
<1>1. /\ m.buffer \in [0 .. Size - 1 -> Msgs \union {NoMsg}] /\ m.rdptr \in 0 .. Size - 1
      /\ m.wrptr \in 0 .. Size - 1 /\ m.cnt \in 0 .. Size
      /\ m.wrptr = IF m.rdptr + m.cnt < Size THEN m.rdptr + m.cnt ELSE (m.rdptr + m.cnt) - Size
  BY DEF RingOK
<1>2. PICK r : r = Write(m, x)
  OBVIOUS
<1>3. RingOK(r) /\ r.cnt = m.cnt + 1
  BY <1>2, WriteRing
<1>4. /\ r.rdptr = m.rdptr /\ r.buffer[m.wrptr] = x
      /\ \A j \in 0 .. Size - 1 : j # m.wrptr => r.buffer[j] = m.buffer[j]
  BY <1>1, <1>2 DEF RingOK, Write
<1>5. m.cnt \in Int /\ 0 <= m.cnt /\ m.cnt < Size /\ m.rdptr \in Int /\ 0 <= m.rdptr /\ m.rdptr < Size
  BY <1>1, SizeNat
<1>6. ASSUME NEW i \in 1 .. m.cnt
      PROVE  At(r, i) = At(m, i)
  <2>1. i \in Int /\ 1 <= i /\ i <= m.cnt /\ i \in 1 .. Size
    BY <1>5, SizeNat
  <2>2. PICK j \in 0 .. Size - 1 :
          /\ j = (m.rdptr + i - 1) % Size
          /\ j = IF m.rdptr + (i - 1) < Size THEN m.rdptr + (i - 1) ELSE (m.rdptr + (i - 1)) - Size
    BY <1>1, <2>1, SlotOf
  <2>3. j # m.wrptr
    <3>1. m.wrptr = IF m.rdptr + m.cnt < Size THEN m.rdptr + m.cnt ELSE (m.rdptr + m.cnt) - Size
      BY <1>1
    <3>2. j = IF m.rdptr + (i - 1) < Size THEN m.rdptr + (i - 1) ELSE (m.rdptr + (i - 1)) - Size
      BY <2>2
    <3>3. CASE m.rdptr + m.cnt < Size
      <4>1. m.rdptr + (i - 1) < Size /\ m.rdptr + (i - 1) < m.rdptr + m.cnt
        BY <1>5, <2>1, <3>3, SizeNat
      <4>2. j = m.rdptr + (i - 1) /\ m.wrptr = m.rdptr + m.cnt
        BY <3>1, <3>2, <3>3, <4>1
      <4> QED BY <1>5, <2>1, <4>1, <4>2
    <3>4. CASE ~ (m.rdptr + m.cnt < Size)
      <4>1. m.wrptr = (m.rdptr + m.cnt) - Size
        BY <3>1, <3>4
      <4>2. CASE m.rdptr + (i - 1) < Size
        <5>1. j = m.rdptr + (i - 1)
          BY <3>2, <4>2
        <5> QED BY <1>5, <2>1, <4>1, <5>1, SizeNat
      <4>3. CASE ~ (m.rdptr + (i - 1) < Size)
        <5>1. j = (m.rdptr + (i - 1)) - Size
          BY <3>2, <4>3
        <5> QED BY <1>5, <2>1, <4>1, <5>1, SizeNat
      <4> QED BY <4>2, <4>3
    <3> QED BY <3>3, <3>4
  <2>4. r.buffer[j] = m.buffer[j]
    BY <1>4, <2>3
  <2> QED BY <1>4, <2>2, <2>4 DEF At
<1>7. At(r, m.cnt + 1) = x
  <2>1. m.cnt + 1 \in 1 .. Size /\ (m.cnt + 1) - 1 = m.cnt
    BY <1>5, SizeNat
  <2>2. (m.rdptr + (m.cnt + 1) - 1) % Size =
            IF m.rdptr + ((m.cnt + 1) - 1) < Size THEN m.rdptr + ((m.cnt + 1) - 1)
            ELSE (m.rdptr + ((m.cnt + 1) - 1)) - Size
    BY <1>1, <2>1, SlotOf
  <2>3. (m.rdptr + (m.cnt + 1) - 1) % Size = m.wrptr
    BY <1>1, <2>1, <2>2
  <2> QED BY <1>4, <2>3 DEF At
<1>8. PICK a : a = Contents(m)
  OBVIOUS
<1>9. PICK b : b = Contents(r)
  OBVIOUS
<1>10. /\ a \in Seq(Msgs \union {NoMsg}) /\ Len(a) = m.cnt /\ \A i \in 1 .. m.cnt : a[i] = At(m, i)
  BY <1>8, ContentsSeq
<1>11. /\ b \in Seq(Msgs \union {NoMsg}) /\ Len(b) = m.cnt + 1
       /\ \A i \in 1 .. m.cnt + 1 : b[i] = At(r, i)
  BY <1>3, <1>9, ContentsSeq
<1>12. PICK c : c = Append(a, x)
  OBVIOUS
<1>13. /\ c \in Seq(Msgs \union {NoMsg}) /\ Len(c) = m.cnt + 1
       /\ \A i \in 1 .. m.cnt : c[i] = a[i]
       /\ c[m.cnt + 1] = x
  BY <1>10, <1>12, AppendProperties
<1>14. ASSUME NEW i \in 1 .. m.cnt + 1
       PROVE  b[i] = c[i]
  <2>1. i \in 1 .. m.cnt \/ i = m.cnt + 1
    BY <1>5
  <2> QED BY <1>6, <1>7, <1>10, <1>11, <1>13, <2>1
<1>15. b = c
  BY <1>11, <1>13, <1>14, SeqEqual
<1> QED BY <1>2, <1>8, <1>9, <1>12, <1>15

\* A message at the beginning.
LEMMA WriteAheadPrepends ==
    ASSUME NEW m, RingOK(m), m.cnt < Size, NEW x \in Msgs
    PROVE  Contents(WriteAhead(m, x)) = <<x>> \o Contents(m)
<1>1. /\ m.buffer \in [0 .. Size - 1 -> Msgs \union {NoMsg}] /\ m.rdptr \in 0 .. Size - 1
      /\ m.cnt \in 0 .. Size
  BY DEF RingOK
<1>2. PICK r : r = WriteAhead(m, x)
  OBVIOUS
<1>3. RingOK(r) /\ r.cnt = m.cnt + 1
  BY <1>2, WriteAheadRing
<1>4. m.cnt \in Int /\ 0 <= m.cnt /\ m.cnt < Size /\ m.rdptr \in Int /\ 0 <= m.rdptr /\ m.rdptr < Size
  BY <1>1, SizeNat
<1>5. PICK p \in 0 .. Size - 1 : p = IF m.rdptr = 0 THEN Size - 1 ELSE m.rdptr - 1
  BY <1>4, SizeNat
<1>6. /\ r.rdptr = p /\ r.buffer[p] = x
      /\ \A j \in 0 .. Size - 1 : j # p => r.buffer[j] = m.buffer[j]
  BY <1>1, <1>2, <1>5 DEF RingOK, WriteAhead
<1>7. ASSUME NEW i \in 1 .. m.cnt
      PROVE  At(r, i + 1) = At(m, i)
  <2>1. i \in Int /\ 1 <= i /\ i <= m.cnt /\ i \in 1 .. Size /\ i + 1 \in 1 .. Size /\ (i + 1) - 1 = i
    BY <1>4, SizeNat
  <2>2. PICK j \in 0 .. Size - 1 :
          /\ j = (m.rdptr + i - 1) % Size
          /\ j = IF m.rdptr + (i - 1) < Size THEN m.rdptr + (i - 1) ELSE (m.rdptr + (i - 1)) - Size
    BY <1>1, <2>1, SlotOf
  <2>3. (p + (i + 1) - 1) % Size =
            IF p + ((i + 1) - 1) < Size THEN p + ((i + 1) - 1) ELSE (p + ((i + 1) - 1)) - Size
    BY <2>1, SlotOf
  <2>4. (p + (i + 1) - 1) % Size = j
    BY <1>4, <1>5, <2>1, <2>2, <2>3, SizeNat
  <2>5. j # p
    BY <1>4, <1>5, <2>1, <2>2, SizeNat
  <2>6. r.buffer[j] = m.buffer[j]
    BY <1>6, <2>5
  <2> QED BY <1>6, <2>2, <2>4, <2>6 DEF At
<1>8. At(r, 1) = x
  <2>1. 1 \in 1 .. Size /\ p + (1 - 1) = p /\ p < Size
    BY SizeNat
  <2>2. (p + 1 - 1) % Size = IF p + (1 - 1) < Size THEN p + (1 - 1) ELSE (p + (1 - 1)) - Size
    BY <2>1, SlotOf
  <2>3. (p + 1 - 1) % Size = p
    BY <2>1, <2>2
  <2> QED BY <1>6, <2>3 DEF At
<1>9. PICK a : a = Contents(m)
  OBVIOUS
<1>10. PICK b : b = Contents(r)
  OBVIOUS
<1>11. /\ a \in Seq(Msgs \union {NoMsg}) /\ Len(a) = m.cnt /\ \A i \in 1 .. m.cnt : a[i] = At(m, i)
  BY <1>9, ContentsSeq
<1>12. /\ b \in Seq(Msgs \union {NoMsg}) /\ Len(b) = m.cnt + 1
       /\ \A i \in 1 .. m.cnt + 1 : b[i] = At(r, i)
  BY <1>3, <1>10, ContentsSeq
<1>13. <<x>> \in Seq(Msgs \union {NoMsg}) /\ Len(<<x>>) = 1 /\ <<x>>[1] = x
  OBVIOUS
<1>14. PICK c : c = <<x>> \o a
  OBVIOUS
<1>15. /\ c \in Seq(Msgs \union {NoMsg}) /\ Len(c) = 1 + m.cnt
       /\ \A i \in 1 .. 1 + m.cnt : c[i] = IF i <= 1 THEN <<x>>[i] ELSE a[i - 1]
  BY <1>11, <1>13, <1>14, ConcatProperties
<1>16. ASSUME NEW i \in 1 .. m.cnt + 1
       PROVE  b[i] = c[i]
  <2>1. CASE i = 1
    <3>1. c[i] = x
      BY <1>4, <1>13, <1>15, <2>1
    <3> QED BY <1>8, <1>12, <2>1, <3>1
  <2>2. CASE i # 1
    <3>1. PICK h \in 1 .. m.cnt : h = i - 1 /\ h + 1 = i
      BY <1>4, <2>2
    <3>2. c[i] = a[h]
      BY <1>4, <1>15, <2>2, <3>1
    <3>3. b[i] = At(r, h + 1)
      BY <1>12, <3>1
    <3> QED BY <1>7, <1>11, <3>1, <3>2, <3>3
  <2> QED BY <2>1, <2>2
<1>17. Len(b) = Len(c)
  BY <1>4, <1>12, <1>15
<1>18. b = c
  BY <1>12, <1>15, <1>16, <1>17, SeqEqual
<1> QED BY <1>2, <1>9, <1>10, <1>14, <1>18

\* The first message is taken.
LEMMA ReadTakes ==
    ASSUME NEW m, RingOK(m), m.cnt > 0
    PROVE  Contents(m) # <<>> /\ Contents(Read(m)) = Tail(Contents(m))
<1>1. m.buffer \in [0 .. Size - 1 -> Msgs \union {NoMsg}] /\ m.rdptr \in 0 .. Size - 1 /\ m.cnt \in 0 .. Size
  BY DEF RingOK
<1>2. PICK r : r = Read(m)
  OBVIOUS
<1>3. RingOK(r) /\ r.cnt = m.cnt - 1
  BY <1>2, ReadRing
<1>4. m.cnt \in Int /\ 0 < m.cnt /\ m.cnt <= Size /\ m.rdptr \in Int /\ 0 <= m.rdptr /\ m.rdptr < Size
  BY <1>1, SizeNat
<1>5. r.rdptr = Succ(m.rdptr) /\ r.buffer = m.buffer /\ r.rdptr \in 0 .. Size - 1
  BY <1>1, <1>2, SuccRange DEF RingOK, Read
<1>6. r.rdptr = IF m.rdptr + 1 = Size THEN 0 ELSE m.rdptr + 1
  BY <1>1, <1>5, SuccRange
<1>7. ASSUME NEW i \in 1 .. m.cnt - 1
      PROVE  At(r, i) = At(m, i + 1)
  <2>1. i \in Int /\ 1 <= i /\ i < m.cnt /\ i \in 1 .. Size /\ i + 1 \in 1 .. Size /\ (i + 1) - 1 = i
    BY <1>4, SizeNat
  <2>2. (r.rdptr + i - 1) % Size =
            IF r.rdptr + (i - 1) < Size THEN r.rdptr + (i - 1) ELSE (r.rdptr + (i - 1)) - Size
    BY <1>5, <2>1, SlotOf
  <2>3. (m.rdptr + (i + 1) - 1) % Size =
            IF m.rdptr + ((i + 1) - 1) < Size THEN m.rdptr + ((i + 1) - 1)
            ELSE (m.rdptr + ((i + 1) - 1)) - Size
    BY <1>1, <2>1, SlotOf
  <2>4. (r.rdptr + i - 1) % Size = (m.rdptr + (i + 1) - 1) % Size
    <3>1. (m.rdptr + (i + 1) - 1) % Size =
              IF m.rdptr + i < Size THEN m.rdptr + i ELSE (m.rdptr + i) - Size
      BY <2>1, <2>3
    <3>2. CASE m.rdptr + 1 = Size
      <4>1. r.rdptr = 0 /\ 0 + (i - 1) < Size /\ ~ (m.rdptr + i < Size)
            /\ 0 + (i - 1) = (m.rdptr + i) - Size
        BY <1>4, <1>6, <2>1, <3>2, SizeNat
      <4> QED BY <2>2, <3>1, <4>1
    <3>3. CASE m.rdptr + 1 # Size
      <4>1. r.rdptr = m.rdptr + 1 /\ (m.rdptr + 1) + (i - 1) = m.rdptr + i
        BY <1>4, <1>6, <2>1, <3>3
      <4> QED BY <2>2, <3>1, <4>1
    <3> QED BY <3>2, <3>3
  <2> QED BY <1>5, <2>4 DEF At
<1>8. PICK a : a = Contents(m)
  OBVIOUS
<1>9. PICK b : b = Contents(r)
  OBVIOUS
<1>10. /\ a \in Seq(Msgs \union {NoMsg}) /\ Len(a) = m.cnt /\ \A i \in 1 .. m.cnt : a[i] = At(m, i)
  BY <1>8, ContentsSeq
<1>11. /\ b \in Seq(Msgs \union {NoMsg}) /\ Len(b) = m.cnt - 1
       /\ \A i \in 1 .. m.cnt - 1 : b[i] = At(r, i)
  BY <1>3, <1>9, ContentsSeq
<1>12. a # <<>>
  BY <1>4, <1>10
<1>13. PICK c : c = Tail(a)
  OBVIOUS
<1>14. /\ c \in Seq(Msgs \union {NoMsg}) /\ Len(c) = m.cnt - 1
       /\ \A i \in 1 .. m.cnt - 1 : c[i] = a[i + 1]
  BY <1>10, <1>12, <1>13, HeadTailProperties
<1>15. ASSUME NEW i \in 1 .. m.cnt - 1
       PROVE  b[i] = c[i]
  <2>1. i + 1 \in 1 .. m.cnt
    BY <1>4
  <2> QED BY <1>7, <1>10, <1>11, <1>14, <2>1
<1>16. b = c
  BY <1>11, <1>14, <1>15, SeqEqual
<1> QED BY <1>2, <1>8, <1>9, <1>12, <1>13, <1>16

\* What a served call does to the messages.
LEMMA ServedContents ==
    ASSUME RingOK(mb), NEW x \in Calls, Serviceable(x), NEW s, s = Served(x)
    PROVE  /\ x.op = "fetch" => Contents(mb) # <<>> /\ Contents(s) = Tail(Contents(mb))
           /\ x.op # "fetch" => /\ Len(Contents(mb)) < Size
                                /\ \E m \in Msgs : \/ Contents(s) = Append(Contents(mb), m)
                                                   \/ Contents(s) = <<m>> \o Contents(mb)
<1>1. mb.cnt \in 0 .. Size /\ Len(Contents(mb)) = mb.cnt
  BY ContentsSeq
<1>2. x.op \in {"post", "ahead", "fetch"} /\ (x.op # "fetch" => x.msg \in Msgs)
  BY CallFields
<1>3. CASE x.op = "fetch"
  <2>1. s = Read(mb) /\ mb.cnt > 0
    BY <1>3 DEF Served, Serviceable, chMBGetUsedCountI
  <2> QED BY <1>3, <2>1, ReadTakes
<1>4. CASE x.op # "fetch"
  <2>1. mb.cnt < Size
    BY <1>1, <1>4, SizeNat DEF Serviceable, chMBGetFreeCountI
  <2>2. s = Write(mb, x.msg) \/ s = WriteAhead(mb, x.msg)
    BY <1>2, <1>4 DEF Served
  <2>3. Contents(s) = Append(Contents(mb), x.msg) \/ Contents(s) = <<x.msg>> \o Contents(mb)
    BY <1>2, <1>4, <2>1, <2>2, WriteAppends, WriteAheadPrepends
  <2> QED BY <1>1, <1>2, <1>4, <2>1, <2>3
<1> QED BY <1>3, <1>4

LEMMA BlockedIs ==
    ASSUME NEW k, NEW c, CallsOK(k, c), NEW t \in UserSlots
    PROVE  /\ c[t] = NoCall <=> Blocked(c)[t] = NoCall
           /\ c[t] # NoCall => /\ Blocked(c)[t].take = (c[t].op = "fetch")
                               /\ Blocked(c)[t].timed = (c[t].timeout # TIME_INFINITE)
<1>1. c[t] \in Calls \union {NoCall}
  BY SlotsNat DEF CallsOK
<1>2. Blocked(c)[t] = IF c[t] = NoCall THEN NoCall ELSE View(c[t])
  BY DEF Blocked
<1>3. View(c[t]) # NoCall
  <2>1. (c[t].op = "fetch") \in BOOLEAN /\ (c[t].timeout # TIME_INFINITE) \in BOOLEAN
    OBVIOUS
  <2>2. View(c[t]) \in [take : BOOLEAN, timed : BOOLEAN]
    BY <2>1 DEF View
  <2> QED BY <2>2, NoCallAssumption
<1> QED BY <1>2, <1>3 DEF View

LEMMA BlockedDone ==
    ASSUME NEW c, NEW d, NEW t \in UserSlots, d[t] = NoCall, \A u \in Slots \ {t} : d[u] = c[u]
    PROVE  Blocked(d) = [Blocked(c) EXCEPT ![t] = NoCall]
<1>1. \A u \in UserSlots : u # t => d[u] = c[u]
  BY SlotsNat
<1> QED BY <1>1 DEF Blocked

LEMMA BlockedSame ==
    ASSUME NEW c, NEW d, \A u \in UserSlots : d[u] = c[u]
    PROVE  Blocked(d) = Blocked(c)
  BY DEF Blocked

LEMMA ShakenChanged ==
    ASSUME NEW k, NEW c, NEW r, NEW S, NEW msg, Changed(k, r, S, msg), msg # "RESET"
    PROVE  Shaken(r, c) = Shaken(k, c)
<1>1. \A t \in UserSlots : t \in S => r.msg[t] # "RESET" /\ k.state[t] # "READY"
  BY DEF Changed
<1>2. \A t \in UserSlots : t \notin S => r.state[t] = k.state[t] /\ r.msg[t] = k.msg[t]
  BY SlotsNat DEF Changed
<1> QED BY <1>1, <1>2 DEF Shaken

LEMMA ShakenReset ==
    ASSUME NEW k, NEW c, NEW r, NEW S, Changed(k, r, S, "RESET")
    PROVE  Shaken(k, c) \subseteq Shaken(r, c)
<1>1. \A t \in UserSlots : t \in S => k.state[t] # "READY"
  BY DEF Changed
<1>2. \A t \in UserSlots : t \notin S => r.state[t] = k.state[t] /\ r.msg[t] = k.msg[t]
  BY SlotsNat DEF Changed
<1> QED BY <1>1, <1>2 DEF Shaken

LEMMA ShakenDone ==
    ASSUME NEW k, NEW c, NEW d, NEW t \in UserSlots, d[t] = NoCall, \A u \in Slots \ {t} : d[u] = c[u]
    PROVE  Shaken(k, d) = Shaken(k, c) \ {t}
<1>1. \A u \in UserSlots : u # t => d[u] = c[u]
  BY SlotsNat
<1> QED BY <1>1 DEF Shaken

LEMMA ShakenSleep ==
    ASSUME NEW k, Waits(k), NEW c, NEW d, NEW r, NEW S, NEW st, NEW w, NEW timed,
           WentToSleep(k, r, S, st, w, timed), st # "READY", k.current \in UserSlots,
           \A u \in Slots \ {k.current} : d[u] = c[u]
    PROVE  Shaken(r, d) = Shaken(k, c) \ {k.current}
<1>1. \A u \in UserSlots : u # k.current /\ u \notin S =>
         r.state[u] = k.state[u] /\ r.msg[u] = k.msg[u] /\ d[u] = c[u]
  BY SlotsNat DEF WentToSleep
<1>2. \A u \in S : r.msg[u] = "TIMEOUT" /\ k.state[u] # "READY"
  BY SlotsNat DEF WentToSleep, Waits
<1>3. r.state[k.current] # "READY"
  BY DEF WentToSleep
<1>4. \A u \in UserSlots : u \in Shaken(r, d) <=> u \in Shaken(k, c) /\ u # k.current
  BY <1>1, <1>2, <1>3 DEF Shaken
<1>5. Shaken(r, d) \subseteq UserSlots /\ Shaken(k, c) \subseteq UserSlots
  BY DEF Shaken
<1>6. \A u : u \in Shaken(r, d) <=> u \in Shaken(k, c) \ {k.current}
  BY <1>4, <1>5
<1> QED BY <1>6

ABuf == Contents(mb)
AReset == mb.reset
ABlocked == Blocked(call)
AShaken == Shaken(n, call)

\* The abstract actions in these terms.
LEMMA PutIs ==
    ASSUME NEW u \in UserSlots, ~ AReset, ABlocked[u] # NoCall => ~ ABlocked[u].take,
           Len(ABuf) < Size, NEW m \in Msgs, ABuf' = Append(ABuf, m) \/ ABuf' = <<m>> \o ABuf,
           ABlocked' = [ABlocked EXCEPT ![u] = NoCall], AShaken' = AShaken \ {u}, AReset' = AReset
    PROVE  Promise!Put(u)
  BY DEF Promise!Put, Promise!BlockedUsers, Promise!Grow, Promise!Leave,
         ABuf, AReset, ABlocked, AShaken, Contents, At, Blocked, View, Shaken, Messages

LEMMA TakeIs ==
    ASSUME NEW u \in UserSlots, ~ AReset, ABlocked[u] # NoCall => ABlocked[u].take,
           ABuf # <<>>, ABuf' = Tail(ABuf),
           ABlocked' = [ABlocked EXCEPT ![u] = NoCall], AShaken' = AShaken \ {u}, AReset' = AReset
    PROVE  Promise!Take(u)
  BY DEF Promise!Take, Promise!BlockedUsers, Promise!Shrink, Promise!Leave,
         ABuf, AReset, ABlocked, AShaken, Contents, At, Blocked, View, Shaken, Messages

LEMMA HandlerPutIs ==
    ASSUME ~ AReset, Len(ABuf) < Size, NEW m \in Msgs,
           ABuf' = Append(ABuf, m) \/ ABuf' = <<m>> \o ABuf,
           ABlocked' = ABlocked, AShaken' = AShaken, AReset' = AReset
    PROVE  Promise!Handler
  BY DEF Promise!Handler, Promise!Grow,
         ABuf, AReset, ABlocked, AShaken, Contents, At, Blocked, View, Shaken, Messages

LEMMA HandlerTakeIs ==
    ASSUME ~ AReset, ABuf # <<>>, ABuf' = Tail(ABuf),
           ABlocked' = ABlocked, AShaken' = AShaken, AReset' = AReset
    PROVE  Promise!Handler
  BY DEF Promise!Handler, Promise!Shrink,
         ABuf, AReset, ABlocked, AShaken, Contents, At, Blocked, View, Shaken, Messages

LEMMA BlockIs ==
    ASSUME NEW u \in UserSlots, ~ AReset, ABlocked[u] = NoCall,
           NEW take \in BOOLEAN, NEW timed \in BOOLEAN,
           IF take THEN ABuf = <<>> ELSE Len(ABuf) = Size,
           ABlocked' = [ABlocked EXCEPT ![u] = [take |-> take, timed |-> timed]],
           ABuf' = ABuf, AShaken' = AShaken, AReset' = AReset
    PROVE  Promise!Block(u)
  BY DEF Promise!Block, Promise!BlockedUsers,
         ABuf, AReset, ABlocked, AShaken, Contents, At, Blocked, View, Shaken, Messages

LEMMA GiveUpIs ==
    ASSUME NEW u \in UserSlots, ABlocked[u] # NoCall, ABlocked[u].timed \/ AReset \/ u \in AShaken,
           ABlocked' = [ABlocked EXCEPT ![u] = NoCall], AShaken' = AShaken \ {u},
           ABuf' = ABuf, AReset' = AReset
    PROVE  Promise!GiveUp(u)
  BY DEF Promise!GiveUp, Promise!BlockedUsers, Promise!Leave,
         ABuf, AReset, ABlocked, AShaken, Contents, At, Blocked, View, Shaken, Messages

LEMMA ResetIs ==
    ASSUME ABuf' = <<>>, AReset' = TRUE, AShaken \subseteq AShaken', ABlocked' = ABlocked,
           \A u \in AShaken' : u \in UserSlots /\ ABlocked[u] # NoCall
    PROVE  Promise!Reset
  BY DEF Promise!Reset, Promise!BlockedUsers,
         ABuf, AReset, ABlocked, AShaken, Contents, At, Blocked, View, Shaken, Messages

LEMMA ResumeIs ==
    ASSUME ABuf' = ABuf, AReset' = FALSE, AShaken' = AShaken, ABlocked' = ABlocked
    PROVE  Promise!Resume
  BY DEF Promise!Resume,
         ABuf, AReset, ABlocked, AShaken, Contents, At, Blocked, View, Shaken, Messages

LEMMA StutterIs ==
    ASSUME ABuf' = ABuf, AReset' = AReset, AShaken' = AShaken, ABlocked' = ABlocked
    PROVE  UNCHANGED Promise!mvars
  BY DEF Promise!mvars,
         ABuf, AReset, ABlocked, AShaken, Contents, At, Blocked, View, Shaken, Messages

-----------------------------------------------------------------------------
(* Each step is an abstract one or invisible. *)

Simulated == [Promise!MNext]_(Promise!mvars)

\* Steps of the kernel that end or start waits of threads outside of a reset.
LEMMA QuietSim ==
    ASSUME call' = call, mb' = mb, Shaken(n', call) = AShaken
    PROVE  Simulated
<1>1. ABuf' = ABuf /\ AReset' = AReset /\ ABlocked' = ABlocked
  BY DEF ABuf, AReset, ABlocked
<1>2. AShaken' = AShaken
  BY DEF AShaken
<1> QED BY <1>1, <1>2, StutterIs DEF Simulated

\* A call that was not blocked returns without effect.
LEMMA NothingSim ==
    ASSUME StateInv(n, call, mb), call[n.current] = NoCall,
           call' = [call EXCEPT ![n.current] = NoCall], n' = n, mb' = mb
    PROVE  Simulated
<1>1. call \in [Slots -> Calls \union {NoCall}] /\ n.current \in Slots
  BY DEF StateInv, CallsOK, KernelInv, Waits, NilType
<1>2. call' = call
  BY <1>1
<1>3. Shaken(n', call) = AShaken
  BY DEF AShaken
<1> QED BY <1>2, <1>3, QuietSim

\* A blocked call returns without effect.
LEMMA GiveUpSim ==
    ASSUME StateInv(n, call, mb), Resuming,
           mb.reset \/ n.msg[n.current] # "OK",
           call' = [call EXCEPT ![n.current] = NoCall], n' = n, mb' = mb
    PROVE  Simulated
<1>0. PICK d : d = call'
  OBVIOUS
<1>1. /\ CallsOK(n, call) /\ n \in NilType /\ n.current \in Slots /\ n.state[n.current] = "READY"
  BY DEF StateInv, KernelInv, Waits, FirstOK, NilType
<1>2. PICK t \in UserSlots : t = n.current
  BY ResumingThread
<1>3. /\ call[t] # NoCall /\ n.state[t] = "READY"
      /\ n.msg[t] = "TIMEOUT" => call[t].timeout # TIME_INFINITE
  BY <1>2, ResumingThread DEF Resuming
<1>4. Assigned(call, d, t, NoCall) /\ t \in Slots
  BY <1>0, <1>1, <1>2 DEF Assigned
<1>5. d[t] = NoCall /\ \A u \in Slots \ {t} : d[u] = call[u]
  BY <1>1, <1>2, <1>4, CallsDone
<1>6. Blocked(d) = [ABlocked EXCEPT ![t] = NoCall] /\ Shaken(n, d) = AShaken \ {t}
  BY <1>5, BlockedDone, ShakenDone DEF ABlocked, AShaken
<1>7. /\ ABlocked' = [ABlocked EXCEPT ![t] = NoCall] /\ AShaken' = AShaken \ {t}
      /\ ABuf' = ABuf /\ AReset' = AReset
  BY <1>0, <1>6 DEF ABlocked, AShaken, ABuf, AReset
<1>8. ABlocked[t] # NoCall /\ ABlocked[t].timed = (call[t].timeout # TIME_INFINITE)
  BY <1>1, <1>3, BlockedIs DEF ABlocked
<1>9. ABlocked[t].timed \/ AReset \/ t \in AShaken
  <2>1. n.msg[t] \in {"OK", "TIMEOUT", "RESET"}
    BY <1>1, <1>4 DEF NilType
  <2>2. CASE mb.reset
    BY <2>2 DEF AReset
  <2>3. CASE n.msg[t] = "TIMEOUT"
    BY <1>3, <1>8, <2>3
  <2>4. CASE n.msg[t] = "RESET"
    BY <1>3, <2>4 DEF AShaken, Shaken
  <2> QED BY <1>2, <2>1, <2>2, <2>3, <2>4
<1>10. Promise!GiveUp(t)
  BY <1>7, <1>8, <1>9, GiveUpIs
<1> QED BY <1>10 DEF Simulated, Promise!MNext

\* A call of the running thread is served.
LEMMA ServeSim ==
    ASSUME StateInv(n, call, mb), NEW x \in Calls, ~ n.isr, n.current # Idle,
           call[n.current] = NoCall \/ call[n.current] = x,
           ~ mb.reset, Serviceable(x), mb' = Served(x),
           n' = chSchRescheduleS(chThdDequeueNextI(n, PeerQueue(x), "OK")),
           call' = [call EXCEPT ![n.current] = NoCall]
    PROVE  Simulated
<1>0. PICK d : d = call'
  OBVIOUS
<1>r. PICK r : r = n'
  OBVIOUS
<1>s. PICK s : s = mb'
  OBVIOUS
<1>1. /\ CallsOK(n, call) /\ RingOK(mb) /\ n \in NilType /\ n.current \in Slots
      /\ n.state[n.current] = "READY"
  BY DEF StateInv, KernelInv, Waits, FirstOK, NilType
<1>2. PICK t \in UserSlots : t = n.current /\ t \in Slots
  BY <1>1, SlotsNat
<1>3. Assigned(call, d, n.current, NoCall) /\ s = Served(x)
      /\ r = chSchRescheduleS(chThdDequeueNextI(n, PeerQueue(x), "OK"))
  BY <1>0, <1>r, <1>s DEF Assigned
<1>4. RingOK(s) /\ s.reset = mb.reset
  BY <1>1, <1>3, ServedRing
<1>5. PICK S : Changed(n, r, S, "OK")
  BY <1>3, ServeStep
<1>6. d[t] = NoCall /\ \A u \in Slots \ {t} : d[u] = call[u]
  BY <1>1, <1>2, <1>3, CallsDone
<1>7. Blocked(d) = [ABlocked EXCEPT ![t] = NoCall]
  BY <1>6, BlockedDone DEF ABlocked
<1>8. Shaken(r, d) = AShaken \ {t}
  <2>1. Shaken(n, d) = Shaken(n, call) \ {t}
    <3>1. d[t] = NoCall /\ \A u \in UserSlots : u # t => d[u] = call[u]
      BY <1>6, SlotsNat
    <3> QED BY <3>1 DEF Shaken
  <2>2. "OK" # "RESET"
    OBVIOUS
  <2>3. Shaken(r, d) = Shaken(n, d)
    BY <1>5, <2>2, ShakenChanged
  <2> QED BY <2>1, <2>3 DEF AShaken
<1>9. /\ ABlocked' = [ABlocked EXCEPT ![t] = NoCall] /\ AShaken' = AShaken \ {t}
      /\ ABuf' = Contents(s) /\ AReset' = AReset /\ ~ AReset
  BY <1>0, <1>r, <1>s, <1>4, <1>7, <1>8 DEF ABlocked, AShaken, ABuf, AReset
<1>10. ABlocked[t] # NoCall => ABlocked[t].take = (x.op = "fetch")
  <2>1. /\ call[t] = NoCall <=> ABlocked[t] = NoCall
        /\ call[t] # NoCall => ABlocked[t].take = (call[t].op = "fetch")
    BY <1>1, BlockedIs DEF ABlocked
  <2> QED BY <1>2, <2>1
<1>11. /\ x.op = "fetch" => ABuf # <<>> /\ Contents(s) = Tail(ABuf)
       /\ x.op # "fetch" => /\ Len(ABuf) < Size
                            /\ \E m \in Msgs : \/ Contents(s) = Append(ABuf, m)
                                               \/ Contents(s) = <<m>> \o ABuf
  BY <1>1, <1>3, ServedContents DEF ABuf
<1>12. CASE x.op = "fetch"
  <2>1. Promise!Take(t)
    BY <1>9, <1>10, <1>11, <1>12, TakeIs
  <2> QED BY <2>1 DEF Simulated, Promise!MNext
<1>13. CASE x.op # "fetch"
  <2>1. PICK m \in Msgs : Contents(s) = Append(ABuf, m) \/ Contents(s) = <<m>> \o ABuf
    BY <1>11, <1>13
  <2>2. ABuf' = Append(ABuf, m) \/ ABuf' = <<m>> \o ABuf
    BY <1>9, <2>1
  <2>3. Promise!Put(t)
    BY <1>9, <1>10, <1>11, <1>13, <2>2, PutIs
  <2> QED BY <2>3 DEF Simulated, Promise!MNext
<1> QED BY <1>12, <1>13

\* A handler's call is served.
LEMMA HandlerSim ==
    ASSUME StateInv(n, call, mb), NEW x \in Calls, call[n.current] = NoCall,
           ~ mb.reset, Serviceable(x), mb' = Served(x), call' = call,
           n' = chThdDequeueNextI(EnterIsr(n), PeerQueue(x), "OK")
    PROVE  Simulated
<1>r. PICK r : r = n'
  OBVIOUS
<1>s. PICK s : s = mb'
  OBVIOUS
<1>1. RingOK(mb)
  BY DEF StateInv
<1>3. s = Served(x) /\ r = chThdDequeueNextI(EnterIsr(n), PeerQueue(x), "OK")
  BY <1>r, <1>s
<1>4. RingOK(s) /\ s.reset = mb.reset
  BY <1>1, <1>3, ServedRing
<1>5. PICK S : Changed(n, r, S, "OK")
  BY <1>3, CallIStep
<1>8. Shaken(r, call) = AShaken
  <2>1. "OK" # "RESET"
    OBVIOUS
  <2> QED BY <1>5, <2>1, ShakenChanged DEF AShaken
<1>9. /\ ABlocked' = ABlocked /\ AShaken' = AShaken
      /\ ABuf' = Contents(s) /\ AReset' = AReset /\ ~ AReset
  BY <1>r, <1>s, <1>4, <1>8 DEF ABlocked, AShaken, ABuf, AReset
<1>11. /\ x.op = "fetch" => ABuf # <<>> /\ Contents(s) = Tail(ABuf)
       /\ x.op # "fetch" => /\ Len(ABuf) < Size
                            /\ \E m \in Msgs : \/ Contents(s) = Append(ABuf, m)
                                               \/ Contents(s) = <<m>> \o ABuf
  BY <1>1, <1>3, ServedContents DEF ABuf
<1>12. CASE x.op = "fetch"
  <2>1. Promise!Handler
    BY <1>9, <1>11, <1>12, HandlerTakeIs
  <2> QED BY <2>1 DEF Simulated, Promise!MNext
<1>13. CASE x.op # "fetch"
  <2>1. PICK m \in Msgs : Contents(s) = Append(ABuf, m) \/ Contents(s) = <<m>> \o ABuf
    BY <1>11, <1>13
  <2>2. ABuf' = Append(ABuf, m) \/ ABuf' = <<m>> \o ABuf
    BY <1>9, <2>1
  <2>3. Promise!Handler
    BY <1>9, <1>11, <1>13, <2>2, HandlerPutIs
  <2> QED BY <2>3 DEF Simulated, Promise!MNext
<1> QED BY <1>12, <1>13

\* A call of the running thread blocks; blocking once more is invisible.
LEMMA BlockSim ==
    ASSUME StateInv(n, call, mb), NEW x \in Calls, ~ n.isr, n.current # Idle,
           call[n.current] = NoCall \/ (call[n.current] = x /\ n.msg[n.current] = "OK"),
           ~ mb.reset, ~ Serviceable(x), x.timeout # TIME_IMMEDIATE,
           n' = chThdEnqueueTimeoutS(n, OwnQueue(x), x.timeout),
           call' = [call EXCEPT ![n.current] = x], mb' = mb
    PROVE  Simulated
<1>0. PICK d : d = call'
  OBVIOUS
<1>r. PICK r : r = n'
  OBVIOUS
<1>1. CallsOK(n, call) /\ RingOK(mb) /\ Waits(n) /\ n.current \in Slots
  BY DEF StateInv, KernelInv, Waits, NilType
<1>2. PICK t \in UserSlots : t = n.current
  BY <1>1, SlotsNat
<1>3. Assigned(call, d, n.current, x) /\ r = chThdEnqueueTimeoutS(n, OwnQueue(x), x.timeout)
      /\ (call[n.current] = NoCall \/ call[n.current] = x)
  BY <1>0, <1>r DEF Assigned
<1>4. /\ \E S : WentToSleep(n, r, S, "WTQUEUE", OwnQueue(x), x.timeout # TIME_INFINITE)
      /\ d[n.current] = x /\ \A u \in Slots \ {n.current} : d[u] = call[u]
  BY <1>3, BlockStep
<1>5. PICK S : WentToSleep(n, r, S, "WTQUEUE", OwnQueue(x), x.timeout # TIME_INFINITE)
  BY <1>4
<1>6. Shaken(r, d) = Shaken(n, call) \ {n.current}
  <2>1. "WTQUEUE" # "READY" /\ n.current \in UserSlots
    BY <1>2
  <2> QED BY <1>1, <1>4, <1>5, <2>1, ShakenSleep
<1>7. n.current \notin Shaken(n, call)
  BY DEF Shaken
<1>8. AShaken' = AShaken /\ ABuf' = ABuf /\ AReset' = AReset /\ ~ AReset
  BY <1>0, <1>r, <1>6, <1>7 DEF AShaken, ABuf, AReset
<1>9. ABlocked' = Blocked(d)
  BY <1>0 DEF ABlocked
<1>10. CASE call[t] # NoCall
  <2>1. \A u \in UserSlots : d[u] = call[u]
    BY <1>2, <1>3, <1>4, <1>10, SlotsNat
  <2>2. ABlocked' = ABlocked
    BY <1>9, <2>1, BlockedSame DEF ABlocked
  <2> QED BY <1>8, <2>2, StutterIs DEF Simulated
<1>11. CASE call[t] = NoCall
  <2>1. d[t] = x /\ x # NoCall /\ \A u \in Slots \ {t} : d[u] = call[u]
    BY <1>2, <1>4, NoCallAssumption
  <2>2. Blocked(d) = [Blocked(call) EXCEPT ![t] = View(x)]
    <3>1. d[t] = x /\ \A u \in UserSlots : u # t => d[u] = call[u]
      BY <2>1, SlotsNat
    <3> QED BY <2>1, <3>1 DEF Blocked
  <2>3. ABlocked[t] = NoCall
    BY <1>1, <1>11, BlockedIs DEF ABlocked
  <2>4. PICK take \in BOOLEAN : take = (x.op = "fetch")
    OBVIOUS
  <2>5. PICK timed \in BOOLEAN : timed = (x.timeout # TIME_INFINITE)
    OBVIOUS
  <2>6. ABlocked' = [ABlocked EXCEPT ![t] = [take |-> take, timed |-> timed]]
    BY <1>9, <2>2, <2>4, <2>5 DEF ABlocked, View
  <2>7. IF take THEN ABuf = <<>> ELSE Len(ABuf) = Size
    <3>1. ABuf \in Seq(Msgs \union {NoMsg}) /\ Len(ABuf) = mb.cnt /\ mb.cnt \in 0 .. Size
      BY <1>1, ContentsSeq DEF ABuf
    <3>2. x.op = "fetch" => mb.cnt = 0
      BY <3>1, SizeNat DEF Serviceable, chMBGetUsedCountI
    <3>3. x.op # "fetch" => mb.cnt = Size
      BY <3>1, SizeNat DEF Serviceable, chMBGetFreeCountI
    <3>4. Len(ABuf) = 0 => ABuf = <<>>
      BY <3>1, EmptySeq
    <3> QED BY <2>4, <3>1, <3>2, <3>3, <3>4
  <2>8. Promise!Block(t)
    BY <1>8, <2>3, <2>6, <2>7, BlockIs
  <2> QED BY <2>8 DEF Simulated, Promise!MNext
<1> QED BY <1>10, <1>11

\* A reset.
LEMMA ResetSim ==
    ASSUME StateInv(n, call, mb), mb' = ResetMailbox, call' = call, AllTold(n, n'),
           StateInv(n', call, mb')
    PROVE  Simulated
<1>r. PICK r : r = n'
  OBVIOUS
<1>s. PICK s : s = mb'
  OBVIOUS
<1>1. CallsOK(n, call) /\ RingOK(mb) /\ RingOK(s)
  BY <1>s DEF StateInv
<1>2. s.cnt = 0 /\ s.reset = TRUE
  BY <1>1, <1>s DEF ResetMailbox, RingOK
<1>3. Contents(s) = <<>>
  <2>1. Contents(s) \in Seq(Msgs \union {NoMsg}) /\ Len(Contents(s)) = 0
    BY <1>1, <1>2, ContentsSeq
  <2> QED BY <2>1, EmptySeq
<1>4. PICK S : Changed(n, r, S, "RESET")
  BY <1>r DEF AllTold
<1>5. Shaken(n, call) \subseteq Shaken(r, call)
  BY <1>4, ShakenReset
<1>6. \A u \in Shaken(r, call) : u \in UserSlots /\ call[u] # NoCall
  BY DEF Shaken
<1>7. \A u \in Shaken(r, call) : u \in UserSlots /\ Blocked(call)[u] # NoCall
  BY <1>1, <1>6, BlockedIs
<1>8. /\ ABuf' = <<>> /\ AReset' = TRUE /\ AShaken \subseteq AShaken' /\ ABlocked' = ABlocked
      /\ \A u \in AShaken' : u \in UserSlots /\ ABlocked[u] # NoCall
  BY <1>r, <1>s, <1>2, <1>3, <1>5, <1>7 DEF ABuf, AReset, AShaken, ABlocked
<1>9. Promise!Reset
  BY <1>8, ResetIs
<1> QED BY <1>9 DEF Simulated, Promise!MNext

\* One iteration of the loop of a call.
LEMMA IterationSim ==
    ASSUME StateInv(n, call, mb), NEW x \in Calls, ~ n.isr, n.current # Idle, Iteration(x),
           \/ call[n.current] = NoCall
           \/ call[n.current] = x /\ x.timeout # TIME_IMMEDIATE /\ n.msg[n.current] = "OK"
    PROVE  Simulated
<1>1. CASE mb.reset /\ call' = [call EXCEPT ![n.current] = NoCall] /\ UNCHANGED <<n, mb>>
  <2>1. n' = n /\ mb' = mb
    BY <1>1
  <2>2. CASE call[n.current] = NoCall
    BY <1>1, <2>1, <2>2, NothingSim
  <2>3. CASE call[n.current] # NoCall
    BY <1>1, <2>1, <2>3, GiveUpSim DEF Resuming
  <2> QED BY <2>2, <2>3
<1>2. CASE /\ ~ mb.reset /\ Serviceable(x) /\ mb' = Served(x)
           /\ n' = chSchRescheduleS(chThdDequeueNextI(n, PeerQueue(x), "OK"))
           /\ call' = [call EXCEPT ![n.current] = NoCall]
  BY <1>2, ServeSim
<1>3. CASE /\ ~ mb.reset /\ ~ Serviceable(x) /\ x.timeout = TIME_IMMEDIATE
           /\ call' = [call EXCEPT ![n.current] = NoCall] /\ UNCHANGED <<n, mb>>
  <2>1. n' = n /\ mb' = mb /\ call[n.current] = NoCall
    BY <1>3
  <2> QED BY <1>3, <2>1, NothingSim
<1>4. CASE /\ ~ mb.reset /\ ~ Serviceable(x) /\ x.timeout # TIME_IMMEDIATE
           /\ n' = chThdEnqueueTimeoutS(n, OwnQueue(x), x.timeout)
           /\ call' = [call EXCEPT ![n.current] = x] /\ UNCHANGED mb
  BY <1>4, BlockSim
<1> QED BY <1>1, <1>2, <1>3, <1>4 DEF Iteration, Refused

LEMMA StepSimulated ==
    ASSUME Inv, [Next]_vars
    PROVE  Simulated
<1>0. StateInv(n, call, mb)
  BY DEF Inv, StateInv
<1>1. ASSUME NEW x \in Calls, StartCall(x)
      PROVE  Simulated
  <2>1. ~ n.isr /\ n.current # Idle /\ call[n.current] = NoCall /\ Iteration(x)
    BY <1>1 DEF StartCall, Caller, Unlocked, Resuming
  <2> QED BY <1>0, <2>1, IterationSim
<1>2. CASE Retry
  <2>1. Resuming /\ Iteration(call[n.current]) /\ n.msg[n.current] = "OK"
    BY <1>2 DEF Retry
  <2>2. /\ call[n.current] \in Calls /\ n.current # Idle /\ ~ n.isr
        /\ call[n.current].timeout # TIME_IMMEDIATE
    BY <1>0, <2>1, ResumingThread
  <2>3. PICK x \in Calls : x = call[n.current]
    BY <2>2
  <2>4. Iteration(x) /\ x.timeout # TIME_IMMEDIATE
    BY <2>1, <2>2, <2>3
  <2> QED BY <1>0, <2>1, <2>2, <2>3, <2>4, IterationSim
<1>3. CASE ReturnFailure
  <2>1. /\ Resuming /\ n.msg[n.current] # "OK" /\ n' = n /\ mb' = mb
        /\ call' = [call EXCEPT ![n.current] = NoCall]
    BY <1>3 DEF ReturnFailure
  <2> QED BY <1>0, <2>1, GiveUpSim
<1>4. ASSUME NEW x \in Calls, CallI(x)
      PROVE  Simulated
  <2>1. /\ call[n.current] = NoCall /\ ~ mb.reset /\ Serviceable(x) /\ mb' = Served(x) /\ call' = call
        /\ n' = chThdDequeueNextI(EnterIsr(n), PeerQueue(x), "OK")
    BY <1>4 DEF CallI, Unlocked, Resuming, Refused
  <2> QED BY <1>0, <2>1, HandlerSim
<1>5. CASE chMBResetI \/ chMBReset
  <2>1. PICK r : r = n'
    OBVIOUS
  <2>2. KernelInv(n)
    BY <1>0 DEF StateInv
  <2>3. mb' = ResetMailbox /\ call' = call /\ (r = WakeAll(EnterIsr(n)) \/ r = chSchRescheduleS(WakeAll(n)))
    BY <1>5, <2>1 DEF chMBResetI, chMBReset
  <2>4. AllTold(n, r)
    BY <2>2, <2>3, TellAllByHandler, TellAllByThread
  <2>5. Next
    BY <1>5 DEF Next
  <2>6. StateInv(n', call', mb')
    BY <2>5, StepKeeps
  <2>7. AllTold(n, n') /\ StateInv(n', call, mb')
    BY <2>1, <2>3, <2>4, <2>6
  <2> QED BY <1>0, <2>3, <2>7, ResetSim
<1>6. CASE chMBResumeX
  <2>1. PICK s : s = mb'
    OBVIOUS
  <2>2. n' = n /\ call' = call /\ s = [mb EXCEPT !.reset = FALSE] /\ RingOK(mb)
    BY <1>0, <1>6, <2>1 DEF chMBResumeX, StateInv
  <2>3. s.cnt = mb.cnt /\ s.buffer = mb.buffer /\ s.rdptr = mb.rdptr /\ s.reset = FALSE
    BY <2>2 DEF RingOK
  <2>4. Contents(s) = Contents(mb)
    BY <2>3 DEF Contents, At
  <2>5. ABuf' = ABuf /\ AReset' = FALSE /\ AShaken' = AShaken /\ ABlocked' = ABlocked
    BY <2>1, <2>2, <2>3, <2>4 DEF ABuf, AReset, AShaken, ABlocked
  <2>6. Promise!Resume
    BY <2>5, ResumeIs
  <2> QED BY <2>6 DEF Simulated, Promise!MNext
<1>7. ASSUME NEW i \in Naps, chThdSleepS(i)
      PROVE  Simulated
  <2>1. PICK r : r = n'
    OBVIOUS
  <2>2. /\ ~ n.isr /\ n.current # Idle /\ call[n.current] = NoCall /\ mb' = mb /\ call' = call
        /\ r = chSchGoSleepTimeoutS(n, "SLEEPING", i)
    BY <1>7, <2>1 DEF chThdSleepS, Caller, Unlocked, Resuming
  <2>3. PICK S, w : WentToSleep(n, r, S, "SLEEPING", w, TRUE)
    BY <1>0, <2>2, NapStep
  <2>4. Waits(n) /\ n.current \in UserSlots /\ "SLEEPING" # "READY"
    BY <1>0, <2>2, SlotsNat DEF StateInv, KernelInv, Waits, NilType
  <2>5. \A u \in Slots \ {n.current} : call[u] = call[u]
    OBVIOUS
  <2>6. Shaken(r, call) = Shaken(n, call) \ {n.current}
    BY <2>3, <2>4, <2>5, ShakenSleep
  <2>7. Shaken(r, call) = Shaken(n, call)
    BY <2>2, <2>6 DEF Shaken
  <2>8. Shaken(n', call) = AShaken
    BY <2>1, <2>7 DEF AShaken
  <2> QED BY <2>2, <2>8, QuietSim
<1>8. CASE Tick \/ TimerHandler \/ ExitIsr
  <2>1. PICK r : r = n'
    OBVIOUS
  <2>2. mb' = mb /\ call' = call
    BY <1>8 DEF Tick, TimerHandler, ExitIsr
  <2>3. \E S : Changed(n, r, S, "TIMEOUT")
    BY <1>0, <1>8, <2>1, InterruptChanges
  <2>4. PICK S : Changed(n, r, S, "TIMEOUT")
    BY <2>3
  <2>5. "TIMEOUT" # "RESET"
    OBVIOUS
  <2>6. Shaken(r, call) = Shaken(n, call)
    BY <2>4, <2>5, ShakenChanged
  <2>7. Shaken(n', call) = AShaken
    BY <2>1, <2>6 DEF AShaken
  <2> QED BY <2>2, <2>7, QuietSim
<1>9. CASE UNCHANGED vars
  <2>1. n' = n /\ mb' = mb /\ call' = call
    BY <1>9 DEF vars
  <2>2. Shaken(n', call) = AShaken
    BY <2>1 DEF AShaken
  <2> QED BY <2>1, <2>2, QuietSim
<1> QED BY <1>1, <1>2, <1>3, <1>4, <1>5, <1>6, <1>7, <1>8, <1>9 DEF Next

LEMMA InitSimulated ==
    ASSUME Init
    PROVE  Promise!MInit
<1>1. RingOK(mb) /\ mb.cnt = 0 /\ mb.reset = FALSE
  BY InitInv DEF StateInv, Init
<1>2. ABuf = <<>>
  <2>1. Contents(mb) \in Seq(Msgs \union {NoMsg}) /\ Len(Contents(mb)) = 0
    BY <1>1, ContentsSeq
  <2> QED BY <2>1, EmptySeq DEF ABuf
<1>3. \A t \in UserSlots : call[t] = NoCall
  BY SlotsNat DEF Init
<1>4. ABlocked = [t \in UserSlots |-> NoCall]
  BY <1>3 DEF ABlocked, Blocked
<1>5. AShaken = {}
  BY <1>3 DEF AShaken, Shaken
<1> QED BY <1>1, <1>2, <1>4, <1>5
     DEF Promise!MInit, ABuf, ABlocked, AShaken, Contents, At, Blocked, View, Shaken, Messages

\* The ring, the two queues, the retry loops and the kernel together are the
\* mailbox of MailboxSpec, for every size, number of threads and width of the
\* counter: every step of theirs is one of its steps or changes nothing of it.
THEOREM MailboxRefines == Spec => ImplementsMailboxSpec
<1>1. Init => Promise!MInit
  BY InitSimulated
<1>2. Inv /\ [Next]_vars => [Promise!MNext]_(Promise!mvars)
  BY StepSimulated DEF Simulated
<1> QED BY <1>1, <1>2, Inductive, PTL DEF Spec, ImplementsMailboxSpec, Promise!MSpec
=============================================================================
